---------------------------- MODULE MCAgentTransport ----------------------------
(***************************************************************************)
(* Small instances of AgentTransport for TLC.                              *)
(***************************************************************************)
EXTENDS AgentTransport, TLC

CONSTANTS s1, s2, c1, c2

TwoSenders == {s1, s2}
TwoConns   == {c1, c2}

=============================================================================
