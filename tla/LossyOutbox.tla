------------------------------ MODULE LossyOutbox ------------------------------
(***************************************************************************)
(* What the agent's transport promises to those who send: every frame that *)
(* was accepted is under way until a write of it succeeds, once, or it is  *)
(* lost; and none is lost unless more of them are under way than the       *)
(* buffer holds.  The order is not promised, nor that a write that failed  *)
(* left nothing at the peer.                                               *)
(***************************************************************************)
EXTENDS Integers, FiniteSets

CONSTANT Capacity

VARIABLES
    sent,      \* how many frames were accepted; they are known by their number
    delivered, \* frames whose write to a connection succeeded
    lost       \* frames given up

vars == <<sent, delivered, lost>>

Underway == 1..sent \ (delivered \cup lost)

Init == sent = 0 /\ delivered = {} /\ lost = {}

Accept ==
    /\ sent' = sent + 1
    /\ UNCHANGED <<delivered, lost>>

Deliver(f) ==
    /\ delivered' = delivered \cup {f}
    /\ UNCHANGED <<sent, lost>>

Lose(f) ==
    /\ Cardinality(Underway) > Capacity
    /\ lost' = lost \cup {f}
    /\ UNCHANGED <<sent, delivered>>

Next == Accept \/ \E f \in Underway : Deliver(f) \/ Lose(f)

Spec == Init /\ [][Next]_vars

=============================================================================
