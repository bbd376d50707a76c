--------------------------- MODULE MCTargetClock ---------------------------
(***************************************************************************)
(* TargetClock over short walks through the calendar that begin before     *)
(* leap days, century years and ends of years.                             *)
(***************************************************************************)
EXTENDS TargetClock

MCStarts ==
  { [year |-> y, month |-> m, day |-> 27] :
      y \in {1980, 1981, 1999, 2000, 2099, 2100, 2101, 2199}, m \in {2, 12} }
  \cup {[year |-> 1980, month |-> 1, day |-> 1]}

\* The start of a day, an hour and a minute before and after, and its last
\* minute.
MCInstants == {0, 1, 59, 60, 3599, 3600, 86340, 86399}
=============================================================================
