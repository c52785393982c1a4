-------------------------- MODULE MC_AgentSession --------------------------
(* Instances of AgentSession for TLC.                                      *)
EXTENDS AgentSession, TLC

CONSTANTS q1, p1, z1, z2

=============================================================================
