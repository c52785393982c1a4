------------------------- MODULE MC_SessionManager -------------------------
(* Instances of SessionManager for TLC.                                    *)
EXTENDS SessionManager, TLC

CONSTANTS s1, s2, p0, p1

(* Two hosts: tmux numbers the panes of both from %0, and s1 has two.      *)
TwoHosts == s1 :> {p0, p1} @@ s2 :> {p0}
AgentAndLocal == s1 :> "agent" @@ s2 :> "local"

(* One session, for the instances where two connections share it.          *)
OnePane == s1 :> {p0}
OneSsh == s1 :> "ssh"

=============================================================================
