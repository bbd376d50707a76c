---------------------------- MODULE MCTargetHeap ----------------------------
(***************************************************************************)
(* TargetHeap in eight-bit addresses: a heap of six paragraphs and two   *)
(* mapping slots.                                                          *)
(***************************************************************************)
EXTENDS TargetHeap

\* Nothing, less than a paragraph, a paragraph, and what no heap has; the last is
\* refused by malloc before the service is asked.
MCRequests == {0, 5, 16, 250}

\* Requests whose rounding wraps.
WrapRequests == {5, 230, 250}
=============================================================================
