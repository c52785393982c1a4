--------------------------- MODULE MC_AgentDeploy ---------------------------
(* An instance of AgentDeploy for TLC: a session on one host.              *)
EXTENDS AgentDeploy
CONSTANTS h1, s1
OnOneHost == [s \in Session |-> h1]
=============================================================================
