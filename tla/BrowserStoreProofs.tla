------------------------- MODULE BrowserStoreProofs -------------------------
(***************************************************************************)
(* What BrowserStore promises, for any number of sessions, panes and       *)
(* direct connections, whatever the network, the server and the user do.   *)
(***************************************************************************)
EXTENDS BrowserStore, FiniteSetTheorems, TLAPS

(* A session's direct connection was opened for it, and is open or about   *)
(* to tell its end: it is no other session's and is not used again.        *)
Registered ==
  \A s \in Session : p2pConnections[s] # NoDirect =>
    /\ direct[p2pConnections[s]].of = s
    /\ direct[p2pConnections[s]].at \in {"open", "ended"}

IInv == TypeOK /\ Registered /\ DirectHasTheTerminals

USE SessionAssumption, PaneAssumption, DirectAssumption, AskedAssumption

-----------------------------------------------------------------------------
(* Connections.                                                            *)

(* A connection that is not gone was opened for a session.                 *)
LEMMA OfSession ==
  ASSUME TypeOK, NEW d \in Direct, direct[d].at # "gone"
  PROVE  direct[d] \in Connection /\ direct[d].of \in Session
BY DEF TypeOK, Connection, Gone

(* Closing a connection changes nothing of the others, and leaves it to    *)
(* its session, with no signalling.                                        *)
LEMMA ClosedFields ==
  ASSUME TypeOK, NEW d \in Direct \cup {NoDirect}
  PROVE  /\ Closed(d) \in [Direct -> Connection \cup {Gone}]
         /\ \A e \in Direct : /\ e # d => Closed(d)[e] = direct[e]
                              /\ Closed(d)[e].of = direct[e].of
                              /\ direct[e].at = "gone" <=> Closed(d)[e].at = "gone"
                              /\ direct[e].at \in {"open", "ended"} => Closed(d)[e].at \in {"open", "ended"}
                              /\ e = d => Closed(d)[e].at # "open" /\ Closed(d)[e].signalling = FALSE
<1>1. CASE d \in Direct /\ direct[d] = Gone
  <2>1. Gone.at = "gone" /\ Gone.signalling = FALSE
    BY DEF Gone
  <2>2. d # NoDirect
    BY <1>1
  <2>3. Closed(d) = [direct EXCEPT ![d] = Gone]
    <3>1. Closed(d) = [direct EXCEPT ![d] = [Gone EXCEPT !.at = "gone", !.subs = {}, !.signalling = FALSE]]
      BY <1>1, <2>1, <2>2 DEF Closed
    <3>2. [Gone EXCEPT !.at = "gone", !.subs = {}, !.signalling = FALSE] = Gone
      <4> DEFINE R == [at : {"gone"}, of : {NoSession}, target : {"none"}, subs : {{}}, signalling : {FALSE}]
      <4>1. Gone \in R
        BY DEF Gone
      <4>2. \A g \in R : [g EXCEPT !.at = "gone", !.subs = {}, !.signalling = FALSE] = g
        OBVIOUS
      <4> QED
        BY <4>1, <4>2
    <3> QED
      BY <3>1, <3>2
  <2> QED
    BY <1>1, <2>1, <2>3 DEF TypeOK
<1>2. CASE d \in Direct /\ direct[d] # Gone
  <2>1. direct[d] \in Connection
    BY <1>2 DEF TypeOK
  <2>2. PICK c \in Connection : c = direct[d]
    BY <2>1
  <2> DEFINE at == IF c.at = "open" THEN "ended" ELSE c.at
             closed == [c EXCEPT !.at = at, !.subs = {}, !.signalling = FALSE]
  <2>3. /\ closed \in Connection /\ closed.of = c.of /\ closed.signalling = FALSE
        /\ closed.at = at /\ c.at # "gone"
    BY <2>2 DEF Connection, Opening
  <2>4. Closed(d) = [direct EXCEPT ![d] = closed]
    BY <1>2, <2>2 DEF Closed, TypeOK
  <2> QED
    BY <1>2, <2>2, <2>3, <2>4 DEF TypeOK
<1>3. CASE d \notin Direct
  BY <1>3 DEF Closed, TypeOK
<1> QED
  BY <1>1, <1>2, <1>3

(* What is forgotten is of a session whose user waits.                     *)
LEMMA ForgetTypes ==
  ASSUME TypeOK, NEW connections, NEW d, NEW why \in {"attempt", "connection"},
         Forget(connections, d, why)
  PROVE  stray' \subseteq Session \X {"attempt", "connection"}
BY DEF Forget, TypeOK

-----------------------------------------------------------------------------
(* Type correctness.                                                       *)

LEMMA InitTypes == Init => TypeOK
<1> SUFFICES ASSUME Init PROVE TypeOK
  OBVIOUS
<1>1. asked \in Seq(Request)
  BY DEF Init
<1>2. direct \in [Direct -> Connection \cup {Gone}]
  BY DEF Init
<1>3. p2pConnections \in [Session -> Direct \cup {NoDirect}]
  BY DEF Init
<1> QED
  BY <1>1, <1>2, <1>3 DEF Init, TypeOK

LEMMA SendTypes ==
  ASSUME TypeOK, NEW r \in Request, SendWs(r)
  PROVE  asked' \in Seq(Request)
BY DEF SendWs, TypeOK

LEMMA SubscribeTypes ==
  ASSUME TypeOK, NEW P \in SUBSET Pane, SubscribeWs(P)
  PROVE  ws_subs' \in SUBSET Pane
BY DEF SubscribeWs, TypeOK

LEMMA TeardownTypes ==
  ASSUME TypeOK, NEW s \in Session, TeardownP2P(s)
  PROVE  /\ direct' \in [Direct -> Connection \cup {Gone}]
         /\ p2pConnections' \in [Session -> Direct \cup {NoDirect}]
         /\ stray' \subseteq Session \X {"attempt", "connection"}
<1>1. p2pConnections[s] \in Direct \cup {NoDirect}
  BY DEF TypeOK
<1> QED
  BY <1>1, ClosedFields DEF TeardownP2P, TypeOK

LEMMA CleanupTypes ==
  ASSUME TypeOK, NEW s \in Session, Cleanup(s)
  PROVE  /\ direct' \in [Direct -> Connection \cup {Gone}]
         /\ p2pConnections' \in [Session -> Direct \cup {NoDirect}]
         /\ stray' \subseteq Session \X {"attempt", "connection"}
         /\ paneHandlers' \subseteq Pane
         /\ connectedSessionIds' \subseteq Session
         /\ focusedSessionId' \in connectedSessionIds' \cup {NoSession}
<1>1. TeardownP2P(s)
  BY DEF Cleanup
<1>2. focusedSessionId' \in connectedSessionIds' \cup {NoSession}
  BY DEF Cleanup, Refocus, TypeOK
<1> QED
  BY <1>1, <1>2, TeardownTypes DEF Cleanup, TypeOK

(* The requests that onopen sends are a sequence.                          *)
LEMMA OnOpenTypes == ASSUME TypeOK, OnOpen PROVE asked' \in Seq(Request)
<1>1. IsFiniteSet(connectedSessionIds)
  BY FS_Subset DEF TypeOK
<1>2. Cardinality(connectedSessionIds) \in Nat
  BY <1>1, FS_CardinalityType
<1> DEFINE n == Cardinality(connectedSessionIds)
<1>3. PICK order \in [1 .. n -> connectedSessionIds] :
        asked' = [i \in DOMAIN order |-> Ask("sess_connect", order[i])]
  BY DEF OnOpen
<1>4. \A i \in 1 .. n : Ask("sess_connect", order[i]) \in Request
  BY DEF Ask, Request, TypeOK
<1>5. asked' \in [1 .. n -> Request]
  BY <1>3, <1>4
<1> HIDE DEF n
<1> QED
  BY <1>2, <1>5 DEF n

(* Terminals subscribe over registered connections, which are there.       *)
LEMMA NextTypes == TypeOK /\ Registered /\ [Next]_vars => TypeOK'
<1> SUFFICES ASSUME TypeOK, Registered, [Next]_vars PROVE TypeOK'
  OBVIOUS
<1> USE DEF ws, p2p, store
<1>1. CASE OnOpen
  BY <1>1, OnOpenTypes DEF OnOpen, TypeOK
<1>2. CASE LoseSocket
  BY <1>2 DEF LoseSocket, TypeOK
<1>3. CASE OnClose
  BY <1>3 DEF OnClose, TypeOK
<1>4. CASE Reconnect
  BY <1>4 DEF Reconnect, TypeOK
<1>5. CASE HandleServerMsg
  <2> DEFINE t == Head(asked).t  s == Head(asked).session
  <2>1. /\ asked' \in Seq(Request) /\ s \in Session
        /\ UNCHANGED <<socket, wsSend, reconnectTimeout, ws_subs>>
    <3>1. asked \in Seq(Request) /\ asked # <<>>
      BY <1>5 DEF HandleServerMsg, TypeOK
    <3>2. Head(asked) \in Request /\ Tail(asked) \in Seq(Request)
      BY <3>1
    <3> QED
      BY <1>5, <3>2 DEF HandleServerMsg, Request
  <2>2. CASE SessConnected(s)
    BY <2>1, <2>2 DEF SessConnected, TypeOK
  <2>3. CASE Cleanup(s)
    BY <2>1, <2>3, CleanupTypes DEF TypeOK
  <2>4. CASE t \in Target /\ UpgradeReady(s, t)
    <3>1. PICK d \in Direct :
            direct' = [direct EXCEPT ![d] =
              [at |-> IF t = "webrtc_p2p" THEN "signal" ELSE "quic",
               of |-> s, target |-> t, subs |-> {}, signalling |-> FALSE]]
      BY <2>4 DEF UpgradeReady
    <3>2. direct' \in [Direct -> Connection \cup {Gone}]
      BY <2>1, <2>4, <3>1 DEF TypeOK, Connection, Opening
    <3> QED
      BY <2>1, <2>4, <3>2 DEF UpgradeReady, TypeOK
  <2>5. CASE Refused
    BY <2>1, <2>5 DEF Refused, TypeOK
  <2> QED
    BY <1>5, <2>2, <2>3, <2>4, <2>5 DEF HandleServerMsg
<1>6. ASSUME NEW s \in Session, ConnectSession(s) PROVE TypeOK'
  <2>1. Ask("sess_connect", s) \in Request
    BY DEF Ask, Request
  <2> QED
    BY <1>6, <2>1, SendTypes DEF ConnectSession, TypeOK
<1>7. ASSUME NEW s \in Session, DisconnectSession(s) PROVE TypeOK'
  <2>1. Ask("sess_disconnect", s) \in Request
    BY DEF Ask, Request
  <2>2. asked' \in Seq(Request)
    BY <1>7, <2>1, SendTypes DEF DisconnectSession, TypeOK
  <2> QED
    BY <1>7, <2>2, CleanupTypes DEF DisconnectSession, TypeOK
<1>8. ASSUME NEW s \in Session, BackToSsh(s) PROVE TypeOK'
  BY <1>8, TeardownTypes DEF BackToSsh, TypeOK
<1>9. ASSUME NEW s \in Session, Focus(s) PROVE TypeOK'
  BY <1>9 DEF Focus, TypeOK
<1>10. ASSUME NEW s \in Session, NEW target \in Target, UpgradeTransport(s, target) PROVE TypeOK'
  <2>1. Ask(target, s) \in Request
    BY DEF Ask, Request
  <2> QED
    BY <1>10, <2>1, SendTypes DEF UpgradeTransport, TypeOK
<1>11. ASSUME NEW p \in Pane, p2pConnections[sessionOf[p]] # NoDirect, NEW subs \in SUBSET Pane
       PROVE  [direct EXCEPT ![p2pConnections[sessionOf[p]]].subs = subs]
                \in [Direct -> Connection \cup {Gone}]
  <2> DEFINE d == p2pConnections[sessionOf[p]]
  <2>1. d \in Direct /\ direct[d].at \in {"open", "ended"}
    BY <1>11 DEF TypeOK, Registered
  <2>2. direct[d] \in Connection
    BY <2>1, OfSession
  <2>3. [direct[d] EXCEPT !.subs = subs] \in Connection
    BY <2>2 DEF Connection
  <2> QED
    BY <2>1, <2>3 DEF TypeOK
<1>12. ASSUME NEW p \in Pane, p2pConnections[sessionOf[p]] # NoDirect
       PROVE  direct[p2pConnections[sessionOf[p]]].subs \subseteq Pane
  <2>1. /\ p2pConnections[sessionOf[p]] \in Direct
        /\ direct[p2pConnections[sessionOf[p]]].at \in {"open", "ended"}
    BY <1>12 DEF TypeOK, Registered
  <2> QED
    BY <2>1, OfSession DEF Connection
<1>13. ASSUME NEW p \in Pane, Mount(p) PROVE TypeOK'
  <2>1. CASE p2pConnections[sessionOf[p]] # NoDirect
    <3> DEFINE d == p2pConnections[sessionOf[p]]
    <3>1. direct' = [direct EXCEPT ![d].subs = direct[d].subs \cup {p}] /\ UNCHANGED ws_subs
      BY <1>13, <2>1 DEF Mount, SendSubscribe
    <3>2. direct[d].subs \cup {p} \in SUBSET Pane
      BY <1>12, <2>1
    <3>3. direct' \in [Direct -> Connection \cup {Gone}]
      BY <1>11, <2>1, <3>1, <3>2
    <3> QED
      BY <1>13, <3>1, <3>3 DEF Mount, TypeOK
  <2>2. CASE p2pConnections[sessionOf[p]] = NoDirect
    <3>1. SubscribeWs({p}) /\ UNCHANGED direct
      BY <1>13, <2>2 DEF Mount, SendSubscribe
    <3> QED
      BY <1>13, <3>1, SubscribeTypes DEF Mount, TypeOK
  <2> QED
    BY <2>1, <2>2
<1>14. ASSUME NEW p \in Pane, Unmount(p) PROVE TypeOK'
  <2>1. CASE p2pConnections[sessionOf[p]] # NoDirect
    <3> DEFINE d == p2pConnections[sessionOf[p]]
    <3>1. direct' = [direct EXCEPT ![d].subs = direct[d].subs \ {p}] /\ UNCHANGED ws_subs
      BY <1>14, <2>1 DEF Unmount
    <3>2. direct[d].subs \ {p} \in SUBSET Pane
      BY <1>12, <2>1
    <3>3. direct' \in [Direct -> Connection \cup {Gone}]
      BY <1>11, <2>1, <3>1, <3>2
    <3> QED
      BY <1>14, <3>1, <3>3 DEF Unmount, TypeOK
  <2>2. CASE p2pConnections[sessionOf[p]] = NoDirect
    BY <1>14, <2>2 DEF Unmount, TypeOK
  <2> QED
    BY <2>1, <2>2
<1>15. ASSUME NEW d \in Direct, SignalOpens(d) PROVE TypeOK'
  <2>1. direct[d] \in Connection
    BY <1>15, OfSession DEF SignalOpens
  <2> QED
    BY <1>15, <2>1 DEF SignalOpens, TypeOK, Connection, Opening
<1>16. ASSUME NEW d \in Direct, DirectOpens(d) PROVE TypeOK'
  <2>1. direct[d] \in Connection
    BY <1>16, OfSession DEF DirectOpens
  <2>2. [direct[d] EXCEPT !.at = "open", !.subs = Mounted(direct[d].of)] \in Connection
    BY <2>1 DEF Connection, Mounted, TypeOK
  <2>3. direct' \in [Direct -> Connection \cup {Gone}]
    BY <1>16, <2>2 DEF DirectOpens, Register, TypeOK
  <2>4. p2pConnections' \in [Session -> Direct \cup {NoDirect}]
    BY <1>16, <2>1 DEF DirectOpens, Register, TypeOK, Connection
  <2> QED
    BY <1>16, <2>3, <2>4 DEF DirectOpens, TypeOK
<1>17. ASSUME NEW d \in Direct, WebRtcFails(d) PROVE TypeOK'
  <2> DEFINE e == p2pConnections[direct[d].of]
  <2>1. direct[d].of \in Session /\ e \in Direct \cup {NoDirect}
    BY <1>17, OfSession DEF WebRtcFails, TypeOK
  <2>2. Closed(e) \in [Direct -> Connection \cup {Gone}]
    BY <2>1, ClosedFields
  <2>3. Closed(e)[d].at # "gone"
    BY <1>17, <2>1, ClosedFields DEF WebRtcFails
  <2>4. [Closed(e)[d] EXCEPT !.at = "quic", !.signalling = FALSE] \in Connection
    <3>1. PICK c \in Connection : c = Closed(e)[d]
      BY <2>2, <2>3 DEF Gone
    <3> QED
      BY <3>1 DEF Connection, Opening
  <2>5. direct' \in [Direct -> Connection \cup {Gone}]
    BY <1>17, <2>2, <2>4 DEF WebRtcFails
  <2>6. stray' \subseteq Session \X {"attempt", "connection"}
    BY <1>17, ForgetTypes DEF WebRtcFails
  <2> QED
    BY <1>17, <2>1, <2>5, <2>6 DEF WebRtcFails, TypeOK
<1>18. ASSUME NEW d \in Direct, QuicFails(d) PROVE TypeOK'
  <2> DEFINE e == p2pConnections[direct[d].of]
  <2>1. direct[d].of \in Session /\ e \in Direct \cup {NoDirect}
    BY <1>18, OfSession DEF QuicFails, TypeOK
  <2>2. Closed(e) \in [Direct -> Connection \cup {Gone}]
    BY <2>1, ClosedFields
  <2> QED
    BY <1>18, <2>1, <2>2 DEF QuicFails, TypeOK
<1>19. ASSUME NEW d \in Direct, LoseDirect(d) PROVE TypeOK'
  <2>1. direct[d] \in Connection
    BY <1>19, OfSession DEF LoseDirect
  <2> QED
    BY <1>19, <2>1 DEF LoseDirect, TypeOK, Connection
<1>20. ASSUME NEW d \in Direct, OnDirectClose(d) PROVE TypeOK'
  <2> DEFINE s == direct[d].of
  <2>1. s \in Session /\ p2pConnections[s] \in Direct \cup {NoDirect} /\ direct[d] \in Connection
    BY <1>20, OfSession DEF OnDirectClose, Ends, TypeOK
  <2>2. Closed(p2pConnections[s]) \in [Direct -> Connection \cup {Gone}]
    BY <2>1, ClosedFields
  <2>3. More(Closed(p2pConnections[s])[d]) \subseteq Connection \cup {Gone}
    BY <2>2 DEF More
  <2>4. direct' \in [Direct -> Connection \cup {Gone}]
    BY <1>20, <2>2, <2>3 DEF OnDirectClose, Ends
  <2>6. stray' \subseteq Session \X {"attempt", "connection"}
    BY <1>20, ForgetTypes DEF OnDirectClose, Ends
  <2>5. ws_subs' \in SUBSET Pane
    <3>1. Mounted(s) \in SUBSET Pane
      BY DEF Mounted, TypeOK
    <3> QED
      BY <1>20, <3>1, SubscribeTypes DEF OnDirectClose
  <2> QED
    BY <1>20, <2>1, <2>4, <2>5, <2>6 DEF OnDirectClose, Ends, TypeOK
<1>21. CASE UNCHANGED vars
  BY <1>21 DEF vars, TypeOK
<1> QED
  BY <1>1, <1>2, <1>3, <1>4, <1>5, <1>6, <1>7, <1>8, <1>9, <1>10, <1>13, <1>14, <1>15, <1>16,
     <1>17, <1>18, <1>19, <1>20, <1>21
     DEF Next, User, DirectAttempt

-----------------------------------------------------------------------------
(* Which connections are registered, and what they have.                   *)

(* A session that is torn down has no connection; the others keep theirs,  *)
(* which were opened for them and are not touched.                         *)
LEMMA TeardownKeeps ==
  ASSUME TypeOK, Registered, NEW s \in Session, TeardownP2P(s)
  PROVE  /\ p2pConnections'[s] = NoDirect
         /\ \A r \in Session : r # s =>
              /\ p2pConnections'[r] = p2pConnections[r]
              /\ p2pConnections[r] # NoDirect => direct'[p2pConnections[r]] = direct[p2pConnections[r]]
<1>1. p2pConnections[s] \in Direct \cup {NoDirect}
  BY DEF TypeOK
<1>2. direct' = Closed(p2pConnections[s]) /\ p2pConnections' = [p2pConnections EXCEPT ![s] = NoDirect]
  BY DEF TeardownP2P
<1>3. ASSUME NEW r \in Session, r # s, p2pConnections[r] # NoDirect
      PROVE  p2pConnections[r] \in Direct /\ p2pConnections[r] # p2pConnections[s]
  BY <1>3 DEF TypeOK, Registered
<1>4. \A e \in Direct : e # p2pConnections[s] => Closed(p2pConnections[s])[e] = direct[e]
  BY <1>1, ClosedFields
<1> QED
  BY <1>1, <1>2, <1>3, <1>4 DEF TypeOK

(* What the two invariants say of a session.                               *)
Has(s) ==
  p2pConnections[s] # NoDirect =>
    /\ direct[p2pConnections[s]].of = s
    /\ direct[p2pConnections[s]].at \in {"open", "ended"}
    /\ direct[p2pConnections[s]].subs = Mounted(s)

(* It is not disturbed by a step that keeps the connection, its terminals  *)
(* and what it was opened for.                                             *)
LEMMA Undisturbed ==
  ASSUME NEW s \in Session, Has(s), p2pConnections'[s] \in {p2pConnections[s], NoDirect},
         p2pConnections'[s] # NoDirect =>
           /\ direct'[p2pConnections[s]].of = direct[p2pConnections[s]].of
           /\ direct'[p2pConnections[s]].subs = direct[p2pConnections[s]].subs
           /\ direct'[p2pConnections[s]].at \in {"open", "ended"},
         Mounted(s)' = Mounted(s)
  PROVE  Has(s)'
BY DEF Has

LEMMA InitHas == Init => Registered /\ DirectHasTheTerminals
BY DEF Init, Registered, DirectHasTheTerminals

LEMMA NextHas ==
  TypeOK /\ Registered /\ DirectHasTheTerminals /\ [Next]_vars
    => Registered' /\ DirectHasTheTerminals'
<1> SUFFICES ASSUME TypeOK, Registered, DirectHasTheTerminals, [Next]_vars, NEW s \in Session
             PROVE  Has(s)'
  BY DEF Has, Registered, DirectHasTheTerminals
<1> USE DEF ws, p2p, store
<1> DEFINE d0 == p2pConnections[s]
<1>s. /\ Has(s)
      /\ d0 \in Direct \cup {NoDirect}
      /\ d0 # NoDirect => d0 \in Direct /\ direct[d0].of = s /\ direct[d0].at \in {"open", "ended"}
  BY DEF Has, Registered, DirectHasTheTerminals, TypeOK
<1>m. paneHandlers' = paneHandlers => Mounted(s)' = Mounted(s)
  BY DEF Mounted, PanesOf
<1>q. ASSUME UNCHANGED <<p2p, paneHandlers>> PROVE Has(s)'
  BY <1>q, <1>s, <1>m DEF Has
<1>t. ASSUME NEW r \in Session, TeardownP2P(r), r # s => Mounted(s)' = Mounted(s)
      PROVE  Has(s)'
  <2>1. CASE r = s
    BY <1>t, <2>1, TeardownKeeps DEF Has
  <2>2. CASE r # s
    BY <1>s, <1>t, <2>2, TeardownKeeps, Undisturbed
  <2> QED
    BY <2>1, <2>2
<1>c. ASSUME NEW r \in Session, Cleanup(r) PROVE Has(s)'
  <2>1. r # s => Mounted(s)' = Mounted(s)
    BY <1>c DEF Cleanup, Mounted, PanesOf
  <2> QED
    BY <1>c, <1>t, <2>1 DEF Cleanup
<1>d. ASSUME NEW d \in Direct, direct[d].at \notin {"open", "ended"}, UNCHANGED p2pConnections,
             \A e \in Direct : e # d => direct'[e] = direct[e], UNCHANGED paneHandlers
      PROVE  Has(s)'
  <2>1. d0 # NoDirect => d0 # d /\ direct'[d0] = direct[d0]
    BY <1>s, <1>d
  <2> QED
    BY <1>s, <1>m, <1>d, <2>1, Undisturbed
<1>1. CASE OnOpen \/ LoseSocket \/ OnClose \/ Reconnect
  BY <1>1, <1>q DEF OnOpen, LoseSocket, OnClose, Reconnect
<1>2. CASE HandleServerMsg
  <2> DEFINE t == Head(asked).t  r == Head(asked).session
  <2>1. r \in Session
    <3>1. asked \in Seq(Request) /\ asked # <<>>
      BY <1>2 DEF HandleServerMsg, TypeOK
    <3>2. Head(asked) \in Request
      BY <3>1
    <3> QED
      BY <3>2 DEF Request
  <2>2. CASE SessConnected(r) \/ Refused
    BY <1>q, <2>2 DEF SessConnected, Refused
  <2>3. CASE Cleanup(r)
    BY <1>c, <2>1, <2>3
  <2>4. CASE UpgradeReady(r, t)
    <3>1. PICK d \in Direct : direct[d] = Gone /\ \A e \in Direct : e # d => direct'[e] = direct[e]
      BY <2>4 DEF UpgradeReady, TypeOK
    <3> QED
      BY <1>d, <2>4, <3>1 DEF UpgradeReady, Gone
  <2> QED
    BY <1>2, <2>2, <2>3, <2>4 DEF HandleServerMsg
<1>3. ASSUME NEW r \in Session,
             ConnectSession(r) \/ Focus(r) \/ \E target \in Target : UpgradeTransport(r, target)
      PROVE  Has(s)'
  BY <1>3, <1>q DEF ConnectSession, Focus, UpgradeTransport
<1>4. ASSUME NEW r \in Session, DisconnectSession(r) PROVE Has(s)'
  BY <1>4, <1>c DEF DisconnectSession
<1>5. ASSUME NEW r \in Session, BackToSsh(r) PROVE Has(s)'
  BY <1>5, <1>t, <1>m DEF BackToSsh
<1>6. ASSUME NEW p \in Pane, Mount(p) PROVE Has(s)'
  <2> DEFINE d == p2pConnections[sessionOf[p]]
  <2>1. p2pConnections' = p2pConnections /\ paneHandlers' = paneHandlers \cup {p}
    BY <1>6 DEF Mount
  <2>2. CASE sessionOf[p] = s /\ d # NoDirect
    <3>1. direct' = [direct EXCEPT ![d].subs = @ \cup {p}]
      BY <1>6, <2>2 DEF Mount, SendSubscribe
    <3>2. Mounted(s)' = Mounted(s) \cup {p}
      BY <2>1, <2>2 DEF Mounted, PanesOf
    <3>3. direct[d] \in Connection
      BY <1>s, <2>2, OfSession
    <3>4. /\ direct'[d].subs = direct[d].subs \cup {p}
          /\ direct'[d].of = direct[d].of /\ direct'[d].at = direct[d].at
      BY <1>s, <2>2, <3>1, <3>3 DEF TypeOK, Connection
    <3> QED
      BY <1>s, <2>1, <2>2, <3>2, <3>4 DEF Has
  <2>3. CASE sessionOf[p] = s /\ d = NoDirect
    BY <2>1, <2>3 DEF Has
  <2>4. CASE sessionOf[p] # s
    <3>1. Mounted(s)' = Mounted(s)
      BY <2>1, <2>4 DEF Mounted, PanesOf
    <3>2. d0 # NoDirect => direct'[d0] = direct[d0]
      BY <1>6, <1>s, <2>4 DEF Mount, SendSubscribe, Registered, TypeOK
    <3> QED
      BY <1>s, <2>1, <3>1, <3>2, Undisturbed
  <2> QED
    BY <2>2, <2>3, <2>4
<1>7. ASSUME NEW p \in Pane, Unmount(p) PROVE Has(s)'
  <2> DEFINE d == p2pConnections[sessionOf[p]]
  <2>1. p2pConnections' = p2pConnections /\ paneHandlers' = paneHandlers \ {p}
    BY <1>7 DEF Unmount
  <2>2. CASE sessionOf[p] = s /\ d # NoDirect
    <3>1. direct' = [direct EXCEPT ![d].subs = @ \ {p}]
      BY <1>7, <2>2 DEF Unmount
    <3>2. Mounted(s)' = Mounted(s) \ {p}
      BY <2>1 DEF Mounted, PanesOf
    <3>3. direct[d] \in Connection
      BY <1>s, <2>2, OfSession
    <3>4. /\ direct'[d].subs = direct[d].subs \ {p}
          /\ direct'[d].of = direct[d].of /\ direct'[d].at = direct[d].at
      BY <1>s, <2>2, <3>1, <3>3 DEF TypeOK, Connection
    <3> QED
      BY <1>s, <2>1, <2>2, <3>2, <3>4 DEF Has
  <2>3. CASE sessionOf[p] = s /\ d = NoDirect
    BY <2>1, <2>3 DEF Has
  <2>4. CASE sessionOf[p] # s
    <3>1. Mounted(s)' = Mounted(s)
      BY <2>1, <2>4 DEF Mounted, PanesOf
    <3>2. d0 # NoDirect => direct'[d0] = direct[d0]
      BY <1>7, <1>s, <2>4 DEF Unmount, Registered, TypeOK
    <3> QED
      BY <1>s, <2>1, <3>1, <3>2, Undisturbed
  <2> QED
    BY <2>2, <2>3, <2>4
<1>8. ASSUME NEW d \in Direct, SignalOpens(d) PROVE Has(s)'
  BY <1>8, <1>d DEF SignalOpens, TypeOK
<1>9. ASSUME NEW d \in Direct, DirectOpens(d) PROVE Has(s)'
  <2>1. direct[d] \in Connection /\ direct[d].at \notin {"open", "ended"}
    BY <1>9, OfSession DEF DirectOpens
  <2>2. CASE direct[d].of = s
    <3>1. /\ p2pConnections'[s] = d
          /\ direct'[d].of = s /\ direct'[d].at = "open" /\ direct'[d].subs = Mounted(s)
      BY <1>9, <2>1, <2>2 DEF DirectOpens, Register, TypeOK, Connection
    <3> QED
      BY <1>9, <1>m, <3>1 DEF Has, DirectOpens
  <2>3. CASE direct[d].of # s
    <3>1. p2pConnections'[s] = d0
      BY <1>9, <2>3 DEF DirectOpens, Register, TypeOK
    <3>2. d0 # NoDirect => direct'[d0] = direct[d0]
      BY <1>9, <1>s, <2>1 DEF DirectOpens, Register, TypeOK
    <3> QED
      BY <1>9, <1>s, <1>m, <3>1, <3>2, Undisturbed DEF DirectOpens
  <2> QED
    BY <2>2, <2>3
<1>10. ASSUME NEW d \in Direct, NEW r \in Session,
              direct[d].of = r, direct[d].at \notin {"open"},
              p2pConnections' = [p2pConnections EXCEPT ![r] = NoDirect],
              \A e \in Direct : e # d => direct'[e] = Closed(p2pConnections[r])[e],
              UNCHANGED paneHandlers
       PROVE  Has(s)'
  <2>1. CASE r = s
    BY <1>10, <2>1 DEF Has, TypeOK
  <2>2. CASE r # s
    <3>1. p2pConnections'[s] = d0
      BY <1>10, <2>2 DEF TypeOK
    <3>2. p2pConnections[r] \in Direct \cup {NoDirect} /\ (d0 # NoDirect => d0 # p2pConnections[r])
      BY <1>s, <2>2 DEF Registered, TypeOK
    <3>3. d0 # NoDirect => d0 # d
      BY <1>10, <1>s, <2>2
    <3>5. \A e \in Direct : e # p2pConnections[r] => Closed(p2pConnections[r])[e] = direct[e]
      BY <3>2, ClosedFields
    <3>4. d0 # NoDirect => direct'[d0] = direct[d0]
      BY <1>10, <1>s, <3>2, <3>3, <3>5
    <3> QED
      BY <1>10, <1>s, <1>m, <3>1, <3>4, Undisturbed
  <2> QED
    BY <2>1, <2>2
<1>11. ASSUME NEW d \in Direct, WebRtcFails(d) \/ QuicFails(d) \/ OnDirectClose(d) PROVE Has(s)'
  <2> DEFINE r == direct[d].of
  <2>1. r \in Session /\ p2pConnections[r] \in Direct \cup {NoDirect}
    BY <1>11, OfSession DEF WebRtcFails, QuicFails, OnDirectClose, Ends, TypeOK
  <2>2. Closed(p2pConnections[r]) \in [Direct -> Connection \cup {Gone}]
    BY <2>1, ClosedFields
  <2>3. CASE WebRtcFails(d)
    BY <1>10, <2>1, <2>2, <2>3 DEF WebRtcFails
  <2>4. CASE QuicFails(d) /\ direct[d].target = "webrtc_p2p"
    BY <1>10, <2>1, <2>2, <2>4 DEF QuicFails
  <2>5. CASE QuicFails(d) /\ direct[d].target # "webrtc_p2p"
    BY <1>d, <2>5 DEF QuicFails, TypeOK
  <2>6. CASE OnDirectClose(d)
    BY <1>10, <2>1, <2>2, <2>6 DEF OnDirectClose, Ends
  <2> QED
    BY <1>11, <2>3, <2>4, <2>5, <2>6
<1>12. ASSUME NEW d \in Direct, LoseDirect(d) PROVE Has(s)'
  <2>1. direct[d] \in Connection
    BY <1>12, OfSession DEF LoseDirect
  <2>2. \A e \in Direct : /\ direct'[e].of = direct[e].of /\ direct'[e].subs = direct[e].subs
                          /\ direct[e].at \in {"open", "ended"} => direct'[e].at \in {"open", "ended"}
    BY <1>12, <2>1 DEF LoseDirect, TypeOK, Connection
  <2> QED
    BY <1>12, <1>s, <1>m, <2>2, Undisturbed DEF LoseDirect
<1>13. CASE UNCHANGED vars
  BY <1>13, <1>q DEF vars
<1> QED
  BY <1>1, <1>2, <1>3, <1>4, <1>5, <1>6, <1>7, <1>8, <1>9, <1>11, <1>12, <1>13
     DEF Next, User, DirectAttempt

-----------------------------------------------------------------------------
(* Type correctness, for any number of sessions, panes and connections.    *)
THEOREM TypeCorrect == Spec => []TypeOK
<1>1. Init => IInv
  BY InitTypes, InitHas DEF IInv
<1>2. IInv /\ [Next]_vars => IInv'
  BY NextTypes, NextHas DEF IInv
<1>3. IInv => TypeOK
  BY DEF IInv
<1> QED
  BY <1>1, <1>2, <1>3, PTL DEF Spec

(* A session's direct connection has all its terminals and no other, also  *)
(* those that are mounted or unmounted while it opens, whatever becomes of *)
(* the connections of other sessions (tmux.ts:398-438).                    *)
THEOREM TerminalsOfDirect == Spec => []DirectHasTheTerminals
<1>1. Init => IInv
  BY InitTypes, InitHas DEF IInv
<1>2. IInv /\ [Next]_vars => IInv'
  BY NextTypes, NextHas DEF IInv
<1>3. IInv => DirectHasTheTerminals
  BY DEF IInv
<1> QED
  BY <1>1, <1>2, <1>3, PTL DEF Spec

-----------------------------------------------------------------------------
(* One upgrade at a time.                                                  *)

AskedFor(s) == {i \in DOMAIN asked : asked[i].t \in Target /\ asked[i].session = s}

(* Something of the connection is open, and no attempt awaits it.          *)
NeedsClosing(d) == direct[d].at = "open" \/ (direct[d].signalling /\ direct[d].at # "channel")

(* A session whose user waits has at most one request for an upgrade under *)
(* way or one direct connection, and an open one is registered.            *)
One(s) ==
  /\ \A i, j \in AskedFor(s) : i = j
  /\ \A d, e \in Direct : direct[d].of = s /\ direct[e].of = s => d = e
  /\ AskedFor(s) # {} => \A d \in Direct : direct[d].of # s
  /\ \A d \in Direct : direct[d].of = s /\ NeedsClosing(d) => p2pConnections[s] = d

OneUpgrade == \A s \in Patient : One(s)

(* A connection that ends and still has its signalling is the registered   *)
(* one of its session, whose signalling is closed with it.                 *)
OnlyAttempts == \A s \in Patient : <<s, "connection">> \notin stray

(* A step asks for no upgrade of s.                                        *)
AsksNone(s) ==
  (\A i, j \in AskedFor(s)' : i = j) /\ (AskedFor(s)' # {} => AskedFor(s) # {})

LEMMA SendAsksNone ==
  ASSUME TypeOK, NEW s, One(s), NEW t, NEW r, SendWs(Ask(t, r)), t \in Target => r # s
  PROVE  AsksNone(s)
<1>1. CASE asked' = asked
  BY <1>1 DEF AsksNone, One, AskedFor
<1>2. CASE asked' = Append(asked, Ask(t, r))
  <2>1. asked \in Seq(Request)
    BY DEF TypeOK
  <2>2. /\ DOMAIN asked = 1 .. Len(asked) /\ DOMAIN asked' = 1 .. Len(asked) + 1
        /\ \A i \in 1 .. Len(asked) : asked'[i] = asked[i]
        /\ asked'[Len(asked) + 1] = Ask(t, r)
        /\ Len(asked) \in Nat
    BY <1>2, <2>1
  <2>3. \A i \in 1 .. Len(asked) + 1 : i \in 1 .. Len(asked) \/ i = Len(asked) + 1
    BY <2>2
  <2>4. AskedFor(s)' = AskedFor(s)
    BY <2>2, <2>3 DEF AskedFor, Ask
  <2> QED
    BY <2>4 DEF AsksNone, One
<1> QED
  BY <1>1, <1>2 DEF SendWs

LEMMA SameAsksNone ==
  ASSUME NEW s, One(s), UNCHANGED asked
  PROVE  AsksNone(s)
BY DEF AsksNone, One, AskedFor

(* The first request is taken, and if it asked for an upgrade of s there   *)
(* is no other.                                                            *)
LEMMA TailAsksNone ==
  ASSUME TypeOK, NEW s, One(s), asked # <<>>, asked' = Tail(asked)
  PROVE  /\ AsksNone(s)
         /\ Head(asked).t \in Target /\ Head(asked).session = s =>
              AskedFor(s)' = {} /\ AskedFor(s) # {}
<1>1. asked \in Seq(Request)
  BY DEF TypeOK
<1>2. /\ DOMAIN asked = 1 .. Len(asked) /\ DOMAIN asked' = 1 .. Len(asked) - 1
      /\ Len(asked) \in Nat /\ Len(asked) >= 1 /\ Head(asked) = asked[1]
      /\ \A i \in 1 .. Len(asked) - 1 : asked'[i] = asked[i + 1]
  BY <1>1
<1>3. \A i \in 1 .. Len(asked) - 1 : i \in Nat /\ i + 1 \in 1 .. Len(asked) /\ i + 1 # 1
  BY <1>2
<1>4. \A i \in AskedFor(s)' : i \in Nat /\ i + 1 \in AskedFor(s) /\ i + 1 # 1
  BY <1>2, <1>3 DEF AskedFor
<1>5. AsksNone(s)
  <2>1. ASSUME NEW i \in AskedFor(s)', NEW j \in AskedFor(s)' PROVE i = j
    <3>1. i + 1 = j + 1 /\ i \in Nat /\ j \in Nat
      BY <1>4 DEF One
    <3> QED
      BY <3>1
  <2> QED
    BY <1>4, <2>1 DEF AsksNone
<1>6. Head(asked).t \in Target /\ Head(asked).session = s => 1 \in AskedFor(s)
  BY <1>2 DEF AskedFor
<1>7. 1 \in AskedFor(s) => AskedFor(s)' = {} /\ AskedFor(s) # {}
  BY <1>4 DEF One
<1> QED
  BY <1>5, <1>6, <1>7

(* A step that asks for no upgrade of s and opens no connection for it.    *)
LEMMA OpensNone ==
  ASSUME NEW s, One(s), AsksNone(s),
         \A d \in Direct : direct'[d].of = s => direct[d].of = s,
         \A d \in Direct : direct'[d].of = s /\ NeedsClosing(d)' =>
                             NeedsClosing(d) /\ p2pConnections'[s] = p2pConnections[s]
  PROVE  One(s)'
BY DEF One, AsksNone

(* What is torn down is not open any more.                                 *)
LEMMA ClosedIsNotOpen ==
  ASSUME TypeOK, NEW d \in Direct \cup {NoDirect}, NEW e \in Direct,
         Closed(d)[e].at = "open" \/ Closed(d)[e].signalling
  PROVE  Closed(d)[e] = direct[e] /\ e # d
BY ClosedFields

LEMMA TearsDown ==
  ASSUME TypeOK, NEW s \in Session, One(s), AsksNone(s), NEW r \in Session,
         p2pConnections' = [p2pConnections EXCEPT ![r] = NoDirect],
         \A e \in Direct : \/ direct'[e] = Closed(p2pConnections[r])[e]
                           \/ ~NeedsClosing(e)' /\ direct'[e].of \in {direct[e].of, NoSession}
  PROVE  One(s)'
<1>1. p2pConnections[r] \in Direct \cup {NoDirect}
  BY DEF TypeOK
<1>2. \A e \in Direct : Closed(p2pConnections[r])[e].of = direct[e].of
  BY <1>1, ClosedFields
<1>3. \A e \in Direct : direct'[e].of = s => direct[e].of = s
  BY <1>2
<1>4. ASSUME NEW e \in Direct, direct'[e].of = s, NeedsClosing(e)'
      PROVE  NeedsClosing(e) /\ p2pConnections'[s] = p2pConnections[s]
  <2>1. NeedsClosing(e) /\ e # p2pConnections[r]
    BY <1>1, <1>4, ClosedIsNotOpen DEF NeedsClosing
  <2>2. p2pConnections[s] = e
    BY <1>3, <1>4, <2>1 DEF One
  <2> QED
    BY <2>1, <2>2 DEF TypeOK
<1> QED
  BY <1>3, <1>4, OpensNone

LEMMA TeardownOne ==
  ASSUME TypeOK, NEW s \in Session, One(s), AsksNone(s), NEW r \in Session, TeardownP2P(r)
  PROVE  One(s)'
BY TearsDown DEF TeardownP2P

(* An upgrade is asked for when nothing is left of the one before.         *)
LEMMA UpgradeOne ==
  ASSUME TypeOK, NEW s \in Patient, One(s), NEW target \in Target, UpgradeTransport(s, target)
  PROVE  One(s)'
<1>1. /\ p2pConnections[s] = NoDirect /\ Settled(s) /\ SendWs(Ask(target, s))
      /\ UNCHANGED <<direct, p2pConnections>>
  BY DEF UpgradeTransport, MayAsk, p2p
<1>2. \A d \in Direct : direct[d].of # s
  BY <1>1 DEF Settled, One, NeedsClosing
<1>3. AskedFor(s) = {}
  BY <1>1 DEF Settled, AskedFor
<1>4. \A i, j \in AskedFor(s)' : i = j
  <2>1. CASE asked' = asked
    BY <1>3, <2>1 DEF AskedFor
  <2>2. CASE asked' = Append(asked, Ask(target, s))
    <3>1. asked \in Seq(Request)
      BY DEF TypeOK
    <3>2. /\ DOMAIN asked = 1 .. Len(asked) /\ DOMAIN asked' = 1 .. Len(asked) + 1
          /\ \A i \in 1 .. Len(asked) : asked'[i] = asked[i]
          /\ Len(asked) \in Nat
      BY <2>2, <3>1
    <3>3. \A i \in 1 .. Len(asked) + 1 : i \in 1 .. Len(asked) \/ i = Len(asked) + 1
      BY <3>2
    <3>4. \A i \in AskedFor(s)' : i = Len(asked) + 1
      BY <1>3, <3>2, <3>3 DEF AskedFor
    <3> QED
      BY <3>4
  <2> QED
    BY <1>1, <2>1, <2>2 DEF SendWs
<1> QED
  BY <1>1, <1>2, <1>4 DEF One

LEMMA NextOne ==
  TypeOK /\ Registered /\ OneUpgrade /\ [Next]_vars => OneUpgrade'
<1> SUFFICES ASSUME TypeOK, Registered, OneUpgrade, [Next]_vars, NEW s \in Patient
             PROVE  One(s)'
  BY DEF OneUpgrade
<1> USE DEF ws, p2p, store
<1>s. s \in Session /\ One(s)
  BY DEF OneUpgrade
<1>q. ASSUME UNCHANGED p2p, AsksNone(s) PROVE One(s)'
  BY <1>s, <1>q, OpensNone DEF NeedsClosing
<1>d. ASSUME NEW d \in Direct, UNCHANGED <<asked, p2pConnections>>,
             \A e \in Direct : e # d => direct'[e] = direct[e],
             direct'[d].of \in {direct[d].of, NoSession},
             NeedsClosing(d)' => NeedsClosing(d)
      PROVE  One(s)'
  BY <1>s, <1>d, SameAsksNone, OpensNone DEF NeedsClosing
<1>1. CASE OnOpen \/ LoseSocket
  <2>1. AskedFor(s)' = {}
    <3>1. CASE LoseSocket
      BY <3>1 DEF LoseSocket, AskedFor
    <3>2. CASE OnOpen
      <4>1. PICK order : asked' = [i \in DOMAIN order |-> Ask("sess_connect", order[i])]
        BY <3>2 DEF OnOpen
      <4>2. \A i \in DOMAIN asked' : asked'[i].t = "sess_connect"
        BY <4>1 DEF Ask
      <4> QED
        BY <4>2 DEF AskedFor, Target
    <3> QED
      BY <1>1, <3>1, <3>2
  <2> QED
    BY <1>1, <1>q, <2>1 DEF OnOpen, LoseSocket, AsksNone
<1>2. CASE OnClose \/ Reconnect
  BY <1>2, <1>s, <1>q, SameAsksNone DEF OnClose, Reconnect
<1>3. CASE HandleServerMsg
  <2> DEFINE t == Head(asked).t  r == Head(asked).session
  <2>1. r \in Session
    <3>1. asked \in Seq(Request) /\ asked # <<>>
      BY <1>3 DEF HandleServerMsg, TypeOK
    <3>2. Head(asked) \in Request
      BY <3>1
    <3> QED
      BY <3>2 DEF Request
  <2>2. /\ AsksNone(s)
        /\ t \in Target /\ r = s => AskedFor(s)' = {} /\ AskedFor(s) # {}
    BY <1>3, <1>s, TailAsksNone DEF HandleServerMsg
  <2>3. CASE SessConnected(r) \/ Refused
    BY <1>q, <2>2, <2>3 DEF SessConnected, Refused
  <2>4. CASE Cleanup(r)
    BY <1>s, <2>1, <2>2, <2>4, TeardownOne DEF Cleanup
  <2>5. CASE t \in Target /\ UpgradeReady(r, t)
    <3>1. PICK d \in Direct :
            /\ direct[d] = Gone /\ \A e \in Direct : e # d => direct'[e] = direct[e]
            /\ direct'[d].of = r /\ ~NeedsClosing(d)'
      BY <2>5 DEF UpgradeReady, TypeOK, NeedsClosing
    <3>2. UNCHANGED p2pConnections
      BY <2>5 DEF UpgradeReady
    <3>3. CASE r = s
      BY <1>s, <2>2, <2>5, <3>1, <3>2, <3>3 DEF One, NeedsClosing
    <3>4. CASE r # s
      BY <1>s, <2>2, <3>1, <3>2, <3>4, OpensNone DEF NeedsClosing
    <3> QED
      BY <3>3, <3>4
  <2> QED
    BY <1>3, <2>3, <2>4, <2>5 DEF HandleServerMsg
<1>4. ASSUME NEW r \in Session, ConnectSession(r) PROVE One(s)'
  BY <1>4, <1>s, <1>q, SendAsksNone DEF ConnectSession, Target
<1>5. ASSUME NEW r \in Session, DisconnectSession(r) PROVE One(s)'
  <2>1. AsksNone(s)
    BY <1>5, <1>s, SendAsksNone, SameAsksNone DEF DisconnectSession, Target
  <2> QED
    BY <1>5, <1>s, <2>1, TeardownOne DEF DisconnectSession, Cleanup
<1>6. ASSUME NEW r \in Session, BackToSsh(r) PROVE One(s)'
  BY <1>6, <1>s, SameAsksNone, TeardownOne DEF BackToSsh
<1>7. ASSUME NEW r \in Session, Focus(r) PROVE One(s)'
  BY <1>7, <1>s, <1>q, SameAsksNone DEF Focus
<1>8. ASSUME NEW r \in Session, NEW target \in Target, UpgradeTransport(r, target) PROVE One(s)'
  <2>1. CASE r = s
    BY <1>8, <1>s, <2>1, UpgradeOne
  <2>2. CASE r # s
    BY <1>8, <1>s, <1>q, <2>2, SendAsksNone DEF UpgradeTransport
  <2> QED
    BY <2>1, <2>2
<1>9. ASSUME NEW p \in Pane, Mount(p) \/ Unmount(p) PROVE One(s)'
  <2> DEFINE d == p2pConnections[sessionOf[p]]
  <2>1. UNCHANGED <<asked, p2pConnections>>
    BY <1>9 DEF Mount, Unmount
  <2>2. \A e \in Direct : /\ direct'[e].of = direct[e].of /\ direct'[e].at = direct[e].at
                          /\ direct'[e].signalling = direct[e].signalling
    <3>1. CASE d = NoDirect
      BY <1>9, <3>1 DEF Mount, Unmount, SendSubscribe
    <3>2. CASE d # NoDirect
      <4>1. d \in Direct /\ direct[d] \in Connection
        <5>1. d \in Direct /\ direct[d].at # "gone"
          BY <3>2 DEF Registered, TypeOK
        <5> QED
          BY <5>1, OfSession
      <4>2. PICK subs : direct' = [direct EXCEPT ![d].subs = subs]
        BY <1>9, <3>2 DEF Mount, Unmount, SendSubscribe
      <4> QED
        BY <4>1, <4>2 DEF TypeOK, Connection
    <3> QED
      BY <3>1, <3>2
  <2> QED
    BY <1>s, <2>1, <2>2, SameAsksNone, OpensNone DEF NeedsClosing
<1>10. ASSUME NEW d \in Direct, SignalOpens(d) PROVE One(s)'
  <2>1. direct[d] \in Connection
    BY <1>10, OfSession DEF SignalOpens
  <2>2. /\ UNCHANGED <<asked, p2pConnections>> /\ \A e \in Direct : e # d => direct'[e] = direct[e]
        /\ direct'[d].of = direct[d].of /\ direct'[d].at = "channel"
    BY <1>10, <2>1 DEF SignalOpens, TypeOK, Connection
  <2> QED
    BY <1>d, <2>2 DEF NeedsClosing
<1>11. ASSUME NEW d \in Direct, DirectOpens(d) PROVE One(s)'
  <2>1. direct[d] \in Connection
    BY <1>11, OfSession DEF DirectOpens
  <2>2. /\ UNCHANGED asked /\ \A e \in Direct : e # d => direct'[e] = direct[e]
        /\ direct'[d].of = direct[d].of /\ direct[d].of \in Session
        /\ p2pConnections' = [p2pConnections EXCEPT ![direct[d].of] = d]
    BY <1>11, <2>1 DEF DirectOpens, Register, TypeOK, Connection
  <2>3. AsksNone(s)
    BY <1>s, <2>2, SameAsksNone
  <2>4. CASE direct[d].of = s
    <3>1. \A e \in Direct : direct'[e].of = s => e = d
      BY <1>s, <2>2, <2>4 DEF One
    <3>2. p2pConnections'[s] = d /\ AskedFor(s)' = {}
      BY <1>s, <2>2, <2>3, <2>4 DEF One, AsksNone, TypeOK
    <3> QED
      BY <2>3, <3>1, <3>2 DEF One, AsksNone
  <2>5. CASE direct[d].of # s
    <3>1. p2pConnections'[s] = p2pConnections[s]
      BY <2>2, <2>5 DEF TypeOK
    <3> QED
      BY <1>s, <2>2, <2>3, <2>5, <3>1, OpensNone DEF NeedsClosing
  <2> QED
    BY <2>4, <2>5
<1>12. ASSUME NEW d \in Direct, LoseDirect(d) PROVE One(s)'
  <2>1. direct[d] \in Connection
    BY <1>12, OfSession DEF LoseDirect
  <2>2. /\ UNCHANGED <<asked, p2pConnections>> /\ \A e \in Direct : e # d => direct'[e] = direct[e]
        /\ direct'[d].of = direct[d].of /\ direct'[d].at = "ended" /\ direct[d].at = "open"
    BY <1>12, <2>1 DEF LoseDirect, TypeOK, Connection
  <2> QED
    BY <1>d, <2>2 DEF NeedsClosing
<1>13. ASSUME NEW d \in Direct, WebRtcFails(d) \/ QuicFails(d) \/ OnDirectClose(d) PROVE One(s)'
  <2> DEFINE r == direct[d].of
  <2>1. r \in Session /\ p2pConnections[r] \in Direct \cup {NoDirect} /\ direct[d] \in Connection
    BY <1>13, OfSession DEF WebRtcFails, QuicFails, OnDirectClose, Ends, TypeOK
  <2>2. /\ Closed(p2pConnections[r]) \in [Direct -> Connection \cup {Gone}]
        /\ Closed(p2pConnections[r])[d].of = direct[d].of
    BY <2>1, ClosedFields
  <2>3. AsksNone(s) /\ UNCHANGED asked
    BY <1>13, <1>s, SameAsksNone DEF WebRtcFails, QuicFails, OnDirectClose
  <2>4. Gone.at # "open" /\ ~Gone.signalling /\ Gone.of = NoSession
    BY DEF Gone
  <2>5. CASE WebRtcFails(d)
    <3>1. Closed(p2pConnections[r])[d] \in Connection
      BY <2>1, <2>2 DEF Gone, Connection
    <3>2. /\ ~NeedsClosing(d)' /\ direct'[d].of = direct[d].of
          /\ \A e \in Direct : e # d => direct'[e] = Closed(p2pConnections[r])[e]
          /\ p2pConnections' = [p2pConnections EXCEPT ![r] = NoDirect]
      BY <2>2, <2>5, <3>1 DEF WebRtcFails, Connection, NeedsClosing
    <3> QED
      BY <1>s, <2>1, <2>3, <3>2, TearsDown
  <2>6. CASE QuicFails(d) /\ direct[d].target = "webrtc_p2p"
    <3>1. /\ direct'[d] = Gone
          /\ \A e \in Direct : e # d => direct'[e] = Closed(p2pConnections[r])[e]
          /\ p2pConnections' = [p2pConnections EXCEPT ![r] = NoDirect]
      BY <2>2, <2>6 DEF QuicFails
    <3> QED
      BY <1>s, <2>1, <2>3, <2>4, <3>1, TearsDown DEF NeedsClosing
  <2>7. CASE QuicFails(d) /\ direct[d].target # "webrtc_p2p"
    <3>1. direct'[d] = Gone /\ \A e \in Direct : e # d => direct'[e] = direct[e]
      BY <2>7 DEF QuicFails, TypeOK
    <3> QED
      BY <1>d, <2>3, <2>4, <2>7, <3>1 DEF QuicFails, NeedsClosing
  <2>8. CASE OnDirectClose(d)
    <3>1. /\ direct'[d] \in {Closed(p2pConnections[r])[d], Gone}
          /\ \A e \in Direct : e # d => direct'[e] = Closed(p2pConnections[r])[e]
          /\ p2pConnections' = [p2pConnections EXCEPT ![r] = NoDirect]
      BY <2>2, <2>8 DEF OnDirectClose, Ends, More
    <3>2. \A e \in Direct : \/ direct'[e] = Closed(p2pConnections[r])[e]
                            \/ ~NeedsClosing(e)' /\ direct'[e].of \in {direct[e].of, NoSession}
      BY <2>4, <3>1 DEF NeedsClosing
    <3> QED
      BY <1>s, <2>1, <2>3, <3>1, <3>2, TearsDown
  <2> QED
    BY <1>13, <2>5, <2>6, <2>7, <2>8
<1>14. CASE UNCHANGED vars
  BY <1>14, <1>s, <1>q, SameAsksNone DEF vars
<1> QED
  BY <1>1, <1>2, <1>3, <1>4, <1>5, <1>6, <1>7, <1>8, <1>9, <1>10, <1>11, <1>12, <1>13, <1>14
     DEF Next, User, DirectAttempt

(* When a connection ends, it is the registered one and its signalling is  *)
(* closed with it, or its signalling was closed before.                    *)
LEMMA NextOnlyAttempts ==
  TypeOK /\ OneUpgrade /\ OnlyAttempts /\ [Next]_vars => OnlyAttempts'
<1> SUFFICES ASSUME TypeOK, OneUpgrade, OnlyAttempts, [Next]_vars, NEW s \in Patient
             PROVE  <<s, "connection">> \notin stray'
  BY DEF OnlyAttempts
<1> USE DEF ws, p2p, store
<1>s. s \in Session /\ One(s) /\ <<s, "connection">> \notin stray
  BY DEF OneUpgrade, OnlyAttempts
<1>1. ASSUME NEW d \in Direct, WebRtcFails(d) PROVE <<s, "connection">> \notin stray'
  BY <1>1, <1>s DEF WebRtcFails, Forget
<1>2. ASSUME NEW d \in Direct, OnDirectClose(d) PROVE <<s, "connection">> \notin stray'
  <2> DEFINE r == direct[d].of  closed == Closed(p2pConnections[r])
  <2>1. r \in Session /\ p2pConnections[r] \in Direct \cup {NoDirect} /\ direct[d].at = "ended"
    BY <1>2, OfSession DEF OnDirectClose, Ends, TypeOK
  <2>2. Forget(closed, d, "connection")
    BY <1>2 DEF OnDirectClose, Ends
  <2>3. ASSUME r = s, closed[d].signalling PROVE FALSE
    <3>1. closed[d] = direct[d] /\ d # p2pConnections[r]
      BY <2>1, <2>3, ClosedIsNotOpen
    <3>2. NeedsClosing(d)
      BY <2>1, <2>3, <3>1 DEF NeedsClosing
    <3> QED
      BY <1>s, <2>3, <3>1, <3>2 DEF One
  <2> QED
    BY <1>s, <2>2, <2>3 DEF Forget
<1>3. CASE UNCHANGED stray
  BY <1>3, <1>s
<1>4. HandleServerMsg => UNCHANGED stray
  BY DEF HandleServerMsg, SessConnected, Cleanup, TeardownP2P, UpgradeReady, Refused
<1>5. User => UNCHANGED stray
  BY DEF User, ConnectSession, DisconnectSession, Cleanup, TeardownP2P, BackToSsh, Focus,
         UpgradeTransport, Mount, Unmount
<1>6. \A d \in Direct : SignalOpens(d) \/ DirectOpens(d) \/ QuicFails(d) \/ LoseDirect(d) => UNCHANGED stray
  BY DEF SignalOpens, DirectOpens, QuicFails, LoseDirect
<1>7. OnOpen \/ LoseSocket \/ OnClose \/ Reconnect => UNCHANGED stray
  BY DEF OnOpen, LoseSocket, OnClose, Reconnect
<1>8. UNCHANGED vars => UNCHANGED stray
  BY DEF vars
<1> QED
  BY <1>1, <1>2, <1>3, <1>4, <1>5, <1>6, <1>7, <1>8 DEF Next, DirectAttempt

LEMMA OneUpgradeAlways == Spec => [](IInv /\ OneUpgrade /\ OnlyAttempts)
<1>1. Init => IInv /\ OneUpgrade /\ OnlyAttempts
  <2>1. Init => OneUpgrade /\ OnlyAttempts
    BY DEF Init, OneUpgrade, One, OnlyAttempts, AskedFor, NeedsClosing, Gone
  <2> QED
    BY <2>1, InitTypes, InitHas DEF IInv
<1>2. IInv /\ OneUpgrade /\ OnlyAttempts /\ [Next]_vars => (IInv /\ OneUpgrade /\ OnlyAttempts)'
  BY NextTypes, NextHas, NextOne, NextOnlyAttempts DEF IInv
<1> QED
  BY <1>1, <1>2, PTL DEF Spec

(* For a session whose user makes one request at a time (Patient: the      *)
(* interface does not enforce it), no connection to an agent stays open    *)
(* out of reach of the store, except the signalling of WebRTC attempts     *)
(* that failed (see OpenIsRegistered); for the other sessions of the same  *)
(* browser nothing is assumed.                                             *)
THEOREM OpenAreRegistered == Spec => []OpenIsRegistered
<1>1. IInv /\ OneUpgrade /\ OnlyAttempts => OpenIsRegistered
  <2> SUFFICES ASSUME TypeOK, OneUpgrade, OnlyAttempts, NEW d \in Direct, direct[d].of \in Patient
               PROVE  /\ direct[d].at = "open" => p2pConnections[direct[d].of] = d
                      /\ direct[d].signalling =>
                           direct[d].at = "channel" \/ p2pConnections[direct[d].of] = d
    BY DEF IInv, OnlyAttempts, OpenIsRegistered
  <2> QED
    BY DEF OneUpgrade, One, NeedsClosing
<1> QED
  BY <1>1, OneUpgradeAlways, PTL

(* The terminals of such a session show every output once (see ShownOnce): *)
(* its panes stay subscribed over the WebSocket, whose output is dropped   *)
(* while any session has a direct connection, and there is only one of its *)
(* own that is open.                                                       *)
THEOREM OutputShownOnce == Spec => []ShownOnce
<1>1. IInv /\ OneUpgrade => ShownOnce
  <2> SUFFICES ASSUME IInv, OneUpgrade, NEW p \in paneHandlers, sessionOf[p] \in Patient
               PROVE  Cardinality(Carriers(p)) <= 1
    BY DEF ShownOnce
  <2> DEFINE s == sessionOf[p]
             D == {d \in Direct : direct[d].at = "open" /\ direct[d].of = s /\ p \in direct[d].subs}
  <2>1. s \in Session /\ One(s)
    BY DEF OneUpgrade
  <2>2. \A x, y \in D : x = y
    BY <2>1 DEF One
  <2>3. D # {} => ~TakesWsOutput(p)
    BY <2>1 DEF One, NeedsClosing, TakesWsOutput
  <2>4. \A x, y \in Carriers(p) : x = y
    BY <2>2, <2>3 DEF Carriers
  <2>5. Carriers(p) = {} \/ \E x : Carriers(p) = {x}
    BY <2>4
  <2>6. CASE Carriers(p) = {}
    BY <2>6, FS_EmptySet
  <2>7. CASE \E x : Carriers(p) = {x}
    <3>1. PICK x : Carriers(p) = {x}
      BY <2>7
    <3>2. Cardinality({x}) = 1
      BY FS_Singleton
    <3> QED
      BY <3>1, <3>2
  <2> QED
    BY <2>5, <2>6, <2>7
<1> QED
  BY <1>1, OneUpgradeAlways, PTL

-----------------------------------------------------------------------------
(* The WebSocket.                                                          *)

(* The browser has one socket or one timer that will dial it, never both   *)
(* and never neither; the function that sends is that of the socket that   *)
(* is open, or of one whose end the store has not heard of yet; and the    *)
(* server answers and sends over no other.                                 *)
OneSocket ==
  /\ reconnectTimeout <=> socket = "none"
  /\ socket = "open" => wsSend
  /\ wsSend => socket \in {"open", "lost"}
  /\ socket # "open" => asked = <<>> /\ ws_subs = {}

(* No callback, timer or message leaves the store without a way back: the  *)
(* safety half of WebSocketReturns, for the page that calls connect once   *)
(* (a login during a reconnect would call it again).  What the user does   *)
(* meanwhile is sent to no socket (tmux.ts:219-266, 458-464).              *)
THEOREM SocketComesBack == Spec => []OneSocket
<1>1. Init => OneSocket
  BY DEF Init, OneSocket
<1>2. OneSocket /\ [Next]_vars => OneSocket'
  <2> SUFFICES ASSUME OneSocket, [Next]_vars PROVE OneSocket'
    OBVIOUS
  <2>1. CASE OnOpen \/ LoseSocket \/ OnClose \/ Reconnect
    BY <2>1 DEF OnOpen, LoseSocket, OnClose, Reconnect, OneSocket
  <2>s. ASSUME UNCHANGED <<socket, wsSend, reconnectTimeout>>,
               UNCHANGED asked \/ socket = "open" \/ asked # <<>>,
               UNCHANGED ws_subs \/ socket = "open" \/ ws_subs' \subseteq ws_subs
        PROVE  OneSocket'
    BY <2>s DEF OneSocket
  <2>2. CASE HandleServerMsg
    BY <2>2, <2>s DEF HandleServerMsg
  <2>3. ASSUME NEW s \in Session, ConnectSession(s) \/ DisconnectSession(s) \/ BackToSsh(s) \/ Focus(s)
        PROVE  OneSocket'
    BY <2>3, <2>s DEF ConnectSession, DisconnectSession, BackToSsh, Focus, SendWs, ws
  <2>4. ASSUME NEW s \in Session, NEW target \in Target, UpgradeTransport(s, target)
        PROVE  OneSocket'
    BY <2>4, <2>s DEF UpgradeTransport, SendWs
  <2>5. ASSUME NEW p \in Pane, Mount(p)
        PROVE  OneSocket'
    BY <2>5, <2>s DEF Mount, SendSubscribe, SubscribeWs
  <2>6. ASSUME NEW p \in Pane, Unmount(p)
        PROVE  OneSocket'
    <3>1. ws_subs' \subseteq ws_subs
      BY <2>6 DEF Unmount
    <3> QED
      BY <2>6, <3>1, <2>s DEF Unmount
  <2>7. ASSUME NEW d \in Direct, DirectAttempt(d) \/ LoseDirect(d)
        PROVE  OneSocket'
    BY <2>7, <2>s DEF DirectAttempt, SignalOpens, DirectOpens, WebRtcFails, QuicFails, LoseDirect, ws
  <2>8. ASSUME NEW d \in Direct, OnDirectClose(d)
        PROVE  OneSocket'
    BY <2>8, <2>s DEF OnDirectClose, Ends, SubscribeWs
  <2>9. CASE UNCHANGED vars
    BY <2>9, <2>s DEF vars, ws
  <2> QED
    BY <2>1, <2>2, <2>3, <2>4, <2>5, <2>6, <2>7, <2>8, <2>9 DEF Next, User
<1> QED
  BY <1>1, <1>2, PTL DEF Spec

=============================================================================
