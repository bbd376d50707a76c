-------------------------- MODULE MCTargetConsole --------------------------
(***************************************************************************)
(* TargetConsole with two characters on each source, and with one poll of  *)
(* two handles at a time.                                                  *)
(***************************************************************************)
EXTENDS TargetConsole

MCHandles == {-1, 0, 5}
=============================================================================
