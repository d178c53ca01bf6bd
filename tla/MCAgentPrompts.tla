----------------------------- MODULE MCAgentPrompts -----------------------------
(***************************************************************************)
(* Small instances of AgentPrompts for TLC.                                *)
(***************************************************************************)
EXTENDS AgentPrompts

CONSTANTS p1, p2, p3, c1, c2

ThreePrompts == {p1, p2, p3}
TwoReaders == {c1, c2}

Once == [p \in ThreePrompts |-> 1]

\* One prompt is sent again.
OneTwice == [p \in ThreePrompts |-> IF p = p1 THEN 2 ELSE 1]

=============================================================================
