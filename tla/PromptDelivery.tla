---------------------------- MODULE PromptDelivery ----------------------------
(***************************************************************************)
(* What the prompt queue promises (docs/adr/0006): a prompt is accepted    *)
(* before anything is done with it and stays accepted; it reaches the      *)
(* agent at least once rather than exactly once; it is recorded as         *)
(* delivered only after it did.  The record itself may be undone by a      *)
(* handler that writes back an older row, after which the prompt is        *)
(* delivered again.                                                        *)
(***************************************************************************)
CONSTANT Prompts

VARIABLES
    accepted,   \* prompts durably stored for the user
    taken,      \* prompts the agent has received and kept
    confirmed   \* prompts recorded as delivered

vars == <<accepted, taken, confirmed>>

Init == accepted = {} /\ taken = {} /\ confirmed = {}

Accept(p) ==
    /\ p \notin accepted
    /\ accepted' = accepted \cup {p}
    /\ UNCHANGED <<taken, confirmed>>

Take(p) ==
    /\ p \in accepted
    /\ taken' = taken \cup {p}
    /\ UNCHANGED <<accepted, confirmed>>

Confirm(p) ==
    /\ p \in taken
    /\ confirmed' = confirmed \cup {p}
    /\ UNCHANGED <<accepted, taken>>

Reopen(p) ==
    /\ p \in confirmed
    /\ confirmed' = confirmed \ {p}
    /\ UNCHANGED <<accepted, taken>>

Next == \E p \in Prompts : Accept(p) \/ Take(p) \/ Confirm(p) \/ Reopen(p)

Spec == Init /\ [][Next]_vars

=============================================================================
