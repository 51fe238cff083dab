-------------------------- MODULE MCAgentRequests --------------------------
(* A small agent for TLC: see MCAgentRequests.cfg for the sizes. *)
EXTENDS AgentRequests
=============================================================================
