---------------------------- MODULE MCBackendProcess ----------------------------
(***************************************************************************)
(* Instances of BackendProcess for TLC.                                    *)
(***************************************************************************)
EXTENDS BackendProcess, TLC

CONSTANTS Older, Newer

\* A rolling deploy: an instance of the old release beside one of the new.
RollingDeploy == Older :> 1 @@ Newer :> 2

\* Every goroutine, the job among them, runs as long as the process does.
BusySpec == FairSpec /\ \A i \in Instances : WF_vars(Sweep(i))

=============================================================================
