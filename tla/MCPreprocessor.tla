--------------------------- MODULE MCPreprocessor ---------------------------
(***************************************************************************)
(* Preprocessor over a unit and two headers, one in a directory of its     *)
(* own, with every set of sources of a few lines in total.                 *)
(***************************************************************************)
EXTENDS Preprocessor

CONSTANTS Sub

MCMain == [dir |-> Here, leaf |-> "main"]
MCHeader == [dir |-> Here, leaf |-> "header"]
MCInner == [dir |-> Sub, leaf |-> "inner"]
MCBroken == [dir |-> Sub, leaf |-> "header"]
MCVolume == {MCMain, MCHeader, MCInner, MCBroken}
MCUnlexable == {MCBroken}
MCIncludePaths == <<Sub>>

\* The header is found as it stands, "inner" through -I or next to a file of
\* its directory, "x/main" by its last component alone.
Includes ==
  {[kind |-> "include", angled |-> FALSE, file |-> file] :
     file \in {MCHeader, MCBroken, [dir |-> "x", leaf |-> "main"],
               [dir |-> Here, leaf |-> "nowhere"]}}
  \cup {[kind |-> "include", angled |-> TRUE, file |-> [dir |-> Here, leaf |-> "inner"]]}

MCLines ==
  [kind : {"if"}, cond : {"true", "invalid"}]
    \cup [kind : {"elif"}, cond : {"true", "invalid"}]
    \cup [kind : {"ifdef", "define", "undef"}, name : {"M"}]
    \cup [kind : {"else", "endif", "text", "error"}]
    \cup Includes
    \cup {[kind |-> "line", number |-> 5, named |-> TRUE, path |-> MCBroken]}
=============================================================================
