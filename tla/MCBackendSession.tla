---------------------------- MODULE MCBackendSession ----------------------------
(***************************************************************************)
(* Small instances of BackendSession for TLC.                              *)
(***************************************************************************)
EXTENDS BackendSession, TLC

CONSTANTS s1, s2, w1, w2

TwoSessions == {s1, s2}
TwoWorkers == {w1, w2}

=============================================================================
