----------------------------- MODULE MCPromptQueue -----------------------------
(***************************************************************************)
(* Small instances of PromptQueue for TLC.                                 *)
(***************************************************************************)
EXTENDS PromptQueue, TLC

CONSTANTS a1, a2, b1, A, B

\* One instance with two goroutines.
OneInstance == {A}
OneWorkers == {a1, a2}
OneInstanceOf == [w \in OneWorkers |-> A]

\* Two instances: two goroutines on the first, one on the second.
TwoInstances == {A, B}
TwoWorkers == {a1, a2, b1}
TwoInstanceOf == [w \in TwoWorkers |-> IF w = b1 THEN B ELSE A]

TwoSymmetry == Permutations({a1, a2})

=============================================================================
