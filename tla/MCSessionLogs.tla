----------------------------- MODULE MCSessionLogs -----------------------------
(***************************************************************************)
(* Instances of SessionLogs for TLC.                                       *)
(***************************************************************************)
EXTENDS SessionLogs, TLC

\* Pages of one row, of the maximum, and the default.
AskedLimits == {0, 1, 2}

\* More than the maximum.
AskedForMore == {3}

Alike == Permutations(Conns) \cup Permutations(Streams)

=============================================================================
