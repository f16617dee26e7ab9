---------------------------- MODULE MCAgentRelay ----------------------------
(* An instance of AgentRelay for TLC.  Jobs share nothing but the manager's *)
(* serving, so that one job shows what any number of them does.            *)
EXTENDS AgentRelay
=============================================================================
