--------------------------- MODULE MCTargetFiles ---------------------------
(***************************************************************************)
(* TargetFiles with files of at most two bytes, two handles, and services  *)
(* that move two bytes at most.                                            *)
(***************************************************************************)
EXTENDS TargetFiles

\* Two handles may be on the one file.
OneName == {"A"}

TwoNames == {"A", "B"}
=============================================================================
