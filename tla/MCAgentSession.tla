---------------------------- MODULE MCAgentSession ----------------------------
(***************************************************************************)
(* AgentSession for TLC; the model is finite as it is.                     *)
(***************************************************************************)
EXTENDS AgentSession, TLC

=============================================================================
