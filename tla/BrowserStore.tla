---------------------------- MODULE BrowserStore ----------------------------
(***************************************************************************)
(* The store of one browser tab: which connection a session's terminals    *)
(* use.  Control messages go over a WebSocket to the server, which is      *)
(* dialled again when it closes.  A session may be upgraded to a direct    *)
(* connection to its agent, over QUIC or WebRTC; when that is lost its     *)
(* panes are subscribed over the WebSocket again.  Output that arrives     *)
(* over the WebSocket is dropped while any session has a direct connection.*)
(*                                                                         *)
(* The store is single-threaded JavaScript: an action is one callback, or  *)
(* what follows one await.  A connection that is lost or closed tells so   *)
(* in an event of its own, later.                                          *)
(*                                                                         *)
(* External: the network, the server (SessionManager, PaneFanout,          *)
(* AgentDeploy), the agents (AgentSession, AgentWebRtc) and the user.      *)
(* What a message does to a connection's subscriptions counts from the     *)
(* moment it is sent, since streams keep their order.                      *)
(***************************************************************************)
EXTENDS Naturals, Sequences, FiniteSets

CONSTANTS
  Session,
  Patient,     (* sessions whose user waits: an upgrade is asked for when  *)
               (* nothing is left of the one before, and the session is    *)
               (* not disconnected while one is under way                  *)
  Pane,        (* qualified pane ids                                       *)
  sessionOf,   (* parseQualifiedPaneId                                     *)
  Direct,      (* direct connections, used again when they are gone        *)
  NoSession, NoDirect,
  MaxAsked     (* bound: requests a user has waiting                       *)

ASSUME SessionAssumption ==
  IsFiniteSet(Session) /\ Patient \subseteq Session /\ NoSession \notin Session
ASSUME PaneAssumption == sessionOf \in [Pane -> Session]
ASSUME DirectAssumption == NoDirect \notin Direct
ASSUME AskedAssumption == MaxAsked \in Nat

VARIABLES
  (* the WebSocket *)
  socket,      (* "none", "connecting", "open" or "lost"                   *)
  wsSend,      (* it is set                                                *)
  reconnectTimeout,   (* a timer is running                                *)
  asked,       (* requests the server has not answered                     *)
  ws_subs,     (* panes the server was asked to send                       *)
  (* direct connections *)
  direct,      (* [at, of, target, subs, signalling]                       *)
  p2pConnections,
  stray,       (* of sessions whose user waits: signalling connections     *)
               (* that were forgotten while open, and with what: an        *)
               (* attempt that failed or a connection that ended           *)
  (* the store *)
  connectedSessionIds,
  focusedSessionId,
  paneHandlers (* panes with a terminal                                    *)

ws == <<socket, wsSend, reconnectTimeout, asked, ws_subs>>
p2p == <<direct, p2pConnections, stray>>
store == <<connectedSessionIds, focusedSessionId, paneHandlers>>
vars == <<ws, p2p, store>>

Target == {"quic_p2p", "webrtc_p2p"}
Request == [t : {"sess_connect", "sess_disconnect"} \cup Target, session : Session]
Ask(t, s) == [t |-> t, session |-> s]

(* at: "signal", the QUIC connection for signalling opens; "channel", the  *)
(* data channel opens; "quic", a QUIC connection opens; "open"; "ended",   *)
(* its close event is due.  signalling: the QUIC connection for signalling *)
(* is open, which a WebRTC connection keeps and closes with itself.        *)
Opening == {"signal", "channel", "quic"}
Gone == [at |-> "gone", of |-> NoSession, target |-> "none", subs |-> {}, signalling |-> FALSE]
Connection == [at : Opening \cup {"open", "ended"}, of : Session, target : Target,
               subs : SUBSET Pane, signalling : BOOLEAN]

PanesOf(s) == {p \in Pane : sessionOf[p] = s}
Mounted(s) == paneHandlers \cap PanesOf(s)

TypeOK ==
  /\ socket \in {"none", "connecting", "open", "lost"}
  /\ wsSend \in BOOLEAN /\ reconnectTimeout \in BOOLEAN
  /\ asked \in Seq(Request)
  /\ ws_subs \subseteq Pane
  /\ direct \in [Direct -> Connection \cup {Gone}]
  /\ p2pConnections \in [Session -> Direct \cup {NoDirect}]
  /\ stray \subseteq Session \X {"attempt", "connection"}
  /\ connectedSessionIds \subseteq Session
  /\ focusedSessionId \in connectedSessionIds \cup {NoSession}
  /\ paneHandlers \subseteq Pane

(* The page is loaded and has called connect.                              *)
Init ==
  /\ socket = "connecting" /\ wsSend = FALSE /\ reconnectTimeout = FALSE
  /\ asked = <<>> /\ ws_subs = {}
  /\ direct = [d \in Direct |-> Gone]
  /\ p2pConnections = [s \in Session |-> NoDirect] /\ stray = {}
  /\ connectedSessionIds = {} /\ focusedSessionId = NoSession
  /\ paneHandlers = {}

-----------------------------------------------------------------------------
(* The WebSocket.                                                          *)

(* Mutant of OnOpen: messages keep going to the socket before this one.    *)
OnOpenUnsent ==
  /\ socket = "connecting"
  /\ socket' = "open"
  /\ UNCHANGED <<wsSend, reconnectTimeout, asked, ws_subs, p2p, store>>

(* onopen: every session that was connected is asked for again.            *)
OnOpen ==
  /\ socket = "connecting"
  /\ socket' = "open" /\ wsSend' = TRUE
  /\ \E order \in {f \in [1 .. Cardinality(connectedSessionIds) -> connectedSessionIds] :
                     \A i, j \in DOMAIN f : i # j => f[i] # f[j]} :
       asked' = [i \in DOMAIN order |-> Ask("sess_connect", order[i])]
  /\ UNCHANGED <<reconnectTimeout, ws_subs, p2p, store>>

(* The network or the server drops the connection, or refuses it.          *)
LoseSocket ==
  /\ socket \in {"connecting", "open"}
  /\ socket' = "lost"
  /\ asked' = <<>> /\ ws_subs' = {}
  /\ UNCHANGED <<wsSend, reconnectTimeout, p2p, store>>

(* onclose and scheduleReconnect.                                          *)
OnClose ==
  /\ socket = "lost"
  /\ socket' = "none" /\ wsSend' = FALSE
  /\ reconnectTimeout' = TRUE
  /\ UNCHANGED <<asked, ws_subs, p2p, store>>

(* The timer calls connect.                                                *)
Reconnect ==
  /\ reconnectTimeout
  /\ reconnectTimeout' = FALSE
  /\ socket' = "connecting"
  /\ UNCHANGED <<wsSend, asked, ws_subs, p2p, store>>

(* wsSend(msg): a socket that is not open ignores it.                      *)
SendWs(request) ==
  asked' = IF socket = "open" THEN Append(asked, request) ELSE asked

SubscribeWs(panes) ==
  ws_subs' = IF wsSend /\ socket = "open" THEN ws_subs \cup panes ELSE ws_subs

-----------------------------------------------------------------------------
(* Direct connections.                                                     *)

(* Mutant of Closed: close() is that of the data channel alone.            *)
ClosedChannel(d) ==
  IF d # NoDirect /\ direct[d].at = "open" THEN [direct EXCEPT ![d].at = "ended"] ELSE direct

(* close() also ends the signalling, of a connection that is lost as well. *)
Closed(d) ==
  IF d = NoDirect THEN direct
  ELSE [direct EXCEPT ![d].at = IF @ = "open" THEN "ended" ELSE @,
                      ![d].subs = {}, ![d].signalling = FALSE]

(* teardownP2P(s) *)
TeardownP2P(s) ==
  /\ direct' = Closed(p2pConnections[s])
  /\ p2pConnections' = [p2pConnections EXCEPT ![s] = NoDirect]
  /\ UNCHANGED stray

(* The store forgets d, but not its signalling if that is open.            *)
Forget(connections, d, why) ==
  stray' = stray \cup {x \in Patient \X {why} : x[1] = direct[d].of /\ connections[d].signalling}

(* Mutant of Register: the panes are not subscribed.                       *)
RegisterOnly(d) ==
  /\ p2pConnections' = [p2pConnections EXCEPT ![direct[d].of] = d]
  /\ direct' = [direct EXCEPT ![d].at = "open"]

(* p2pConnections.set and resubscribeSessionPanes.                         *)
Register(d) ==
  /\ p2pConnections' = [p2pConnections EXCEPT ![direct[d].of] = d]
  /\ direct' = [direct EXCEPT ![d].at = "open", ![d].subs = Mounted(direct[d].of)]

(* connectWebRtcTransport after the await of doQuic: sess_connect is sent  *)
(* and keepAlive starts.                                                   *)
SignalOpens(d) ==
  /\ direct[d].at = "signal"
  /\ direct' = [direct EXCEPT ![d].at = "channel", ![d].signalling = TRUE]
  /\ UNCHANGED <<ws, p2pConnections, stray, store>>

(* ... after the await of connectWebRtc, or connectQuicP2P after the one   *)
(* of doConnect.                                                           *)
DirectOpens(d) ==
  /\ direct[d].at \in {"channel", "quic"}
  /\ Register(d)
  /\ UNCHANGED <<ws, stray, store>>

(* The catch of connectWebRtcTransport: tear down and try QUIC.  What is   *)
(* torn down is the session's connection; the signalling of this attempt,  *)
(* if it was open, is not closed.                                          *)
WebRtcFails(d) ==
  /\ direct[d].at \in {"signal", "channel"}
  /\ Forget(direct, d, "attempt")
  /\ LET s == direct[d].of IN
       /\ direct' = [Closed(p2pConnections[s]) EXCEPT ![d].at = "quic", ![d].signalling = FALSE]
       /\ p2pConnections' = [p2pConnections EXCEPT ![s] = NoDirect]
  /\ UNCHANGED <<ws, store>>

(* connectQuicP2P throws: after a WebRTC attempt it tears down once more.  *)
QuicFails(d) ==
  /\ direct[d].at = "quic"
  /\ LET s == direct[d].of IN
       IF direct[d].target = "webrtc_p2p"
       THEN /\ direct' = [Closed(p2pConnections[s]) EXCEPT ![d] = Gone]
            /\ p2pConnections' = [p2pConnections EXCEPT ![s] = NoDirect]
       ELSE /\ direct' = [direct EXCEPT ![d] = Gone]
            /\ UNCHANGED p2pConnections
  /\ UNCHANGED <<ws, stray, store>>

LoseDirect(d) ==
  /\ direct[d].at = "open"
  /\ direct' = [direct EXCEPT ![d].at = "ended"]
  /\ UNCHANGED <<ws, p2pConnections, stray, store>>

(* A WebRTC connection may tell several times: its channel closes and its  *)
(* state fails or is disconnected.                                         *)
More(connection) == IF connection.target = "webrtc_p2p" THEN {connection, Gone} ELSE {Gone}

(* What the handler of onClose tears down is whatever connection the       *)
(* session has by now.                                                     *)
Ends(d) ==
  /\ direct[d].at = "ended"
  /\ LET s == direct[d].of
         closed == Closed(p2pConnections[s])
     IN  /\ \E rest \in More(closed[d]) : direct' = [closed EXCEPT ![d] = rest]
         /\ p2pConnections' = [p2pConnections EXCEPT ![s] = NoDirect]
         /\ Forget(closed, d, "connection")

(* Mutant of OnDirectClose: the panes stay where they were.                *)
OnDirectCloseOnly(d) == Ends(d) /\ UNCHANGED <<ws, store>>

(* The handler of onClose: the session's panes are subscribed over the     *)
(* WebSocket.                                                              *)
OnDirectClose(d) ==
  /\ Ends(d)
  /\ SubscribeWs(Mounted(direct[d].of))
  /\ UNCHANGED <<socket, wsSend, reconnectTimeout, asked, store>>

-----------------------------------------------------------------------------
(* What the user does.                                                     *)

(* Nothing is left of an upgrade of s: none is asked for, opens or is      *)
(* about to tell its end.                                                  *)
Settled(s) ==
  /\ \A i \in DOMAIN asked : asked[i].t \in Target => asked[i].session # s
  /\ \A d \in Direct : direct[d].of = s => direct[d].at = "open"

MayAsk(s) == wsSend /\ Len(asked) < MaxAsked /\ (s \in Patient => Settled(s))

(* The focus after s went, when the sessions left are connected.           *)
Refocus(s, left) ==
  IF focusedSessionId # s THEN {focusedSessionId} ELSE IF left = {} THEN {NoSession} ELSE left

(* disconnectSessionCleanup(s) *)
Cleanup(s) ==
  /\ TeardownP2P(s)
  /\ paneHandlers' = paneHandlers \ PanesOf(s)
  /\ connectedSessionIds' = connectedSessionIds \ {s}
  /\ focusedSessionId' \in Refocus(s, connectedSessionIds \ {s})

ConnectSession(s) ==
  /\ s \notin connectedSessionIds /\ MayAsk(s)
  /\ SendWs(Ask("sess_connect", s))
  /\ UNCHANGED <<socket, wsSend, reconnectTimeout, ws_subs, p2p, store>>

(* The request needs the WebSocket, the cleanup does not.  deleteSession   *)
(* does the same with sess_delete.                                         *)
DisconnectSession(s) ==
  /\ s \in connectedSessionIds
  /\ Len(asked) < MaxAsked
  /\ s \in Patient => Settled(s)
  /\ IF wsSend THEN SendWs(Ask("sess_disconnect", s)) ELSE UNCHANGED asked
  /\ Cleanup(s)
  /\ UNCHANGED <<socket, wsSend, reconnectTimeout, ws_subs>>

UpgradeTransport(s, target) ==
  /\ s \in connectedSessionIds /\ p2pConnections[s] = NoDirect /\ MayAsk(s)
  /\ SendWs(Ask(target, s))
  /\ UNCHANGED <<socket, wsSend, reconnectTimeout, ws_subs, p2p, store>>

BackToSsh(s) ==
  /\ p2pConnections[s] # NoDirect
  /\ TeardownP2P(s)
  /\ UNCHANGED <<ws, store>>

Focus(s) ==
  /\ s \in connectedSessionIds /\ focusedSessionId # s
  /\ focusedSessionId' = s
  /\ UNCHANGED <<ws, p2p, connectedSessionIds, paneHandlers>>

(* sendSubscribe: over the direct connection of the session if it has one. *)
SendSubscribe(p) ==
  LET d == p2pConnections[sessionOf[p]] IN
    IF d # NoDirect
    THEN /\ direct' = [direct EXCEPT ![d].subs = @ \cup {p}]
         /\ UNCHANGED ws_subs
    ELSE SubscribeWs({p}) /\ UNCHANGED direct

(* A terminal is shown: its handler is registered, then it subscribes.     *)
Mount(p) ==
  /\ sessionOf[p] \in connectedSessionIds /\ p \notin paneHandlers
  /\ paneHandlers' = paneHandlers \cup {p}
  /\ SendSubscribe(p)
  /\ UNCHANGED <<socket, wsSend, reconnectTimeout, asked, p2pConnections, stray,
                 connectedSessionIds, focusedSessionId>>

(* unsubscribePane, when the terminal is disposed.                         *)
Unmount(p) ==
  /\ p \in paneHandlers
  /\ paneHandlers' = paneHandlers \ {p}
  /\ LET d == p2pConnections[sessionOf[p]] IN
       IF d # NoDirect
       THEN direct' = [direct EXCEPT ![d].subs = @ \ {p}] /\ UNCHANGED ws_subs
       ELSE /\ ws_subs' = IF wsSend THEN ws_subs \ {p} ELSE ws_subs
            /\ UNCHANGED direct
  /\ UNCHANGED <<socket, wsSend, reconnectTimeout, asked, p2pConnections, stray,
                 connectedSessionIds, focusedSessionId>>

-----------------------------------------------------------------------------
(* Messages of the server, one for each request and in their order, and    *)
(* what handleServerMsg does with them.                                    *)

SessConnected(s) ==
  /\ connectedSessionIds' = connectedSessionIds \cup {s}
  /\ focusedSessionId' = IF focusedSessionId = NoSession THEN s ELSE focusedSessionId
  /\ UNCHANGED <<p2p, paneHandlers>>

(* transport_upgrade_ready *)
UpgradeReady(s, target) ==
  /\ \E d \in Direct :
       /\ direct[d] = Gone
       /\ direct' = [direct EXCEPT ![d] =
            [at |-> IF target = "webrtc_p2p" THEN "signal" ELSE "quic",
             of |-> s, target |-> target, subs |-> {}, signalling |-> FALSE]]
  /\ UNCHANGED <<p2pConnections, stray, store>>

(* err, transport_upgrade_failed *)
Refused == UNCHANGED <<p2p, store>>

HandleServerMsg ==
  /\ asked # <<>>
  /\ asked' = Tail(asked)
  /\ LET t == Head(asked).t
         s == Head(asked).session
     IN  \/ t = "sess_connect" /\ SessConnected(s)
         \/ t = "sess_disconnect" /\ Cleanup(s)
         \/ t \in Target /\ UpgradeReady(s, t)
         \/ Refused
  /\ UNCHANGED <<socket, wsSend, reconnectTimeout, ws_subs>>

-----------------------------------------------------------------------------
User ==
  \/ \E s \in Session :
       \/ ConnectSession(s) \/ DisconnectSession(s) \/ BackToSsh(s) \/ Focus(s)
       \/ \E target \in Target : UpgradeTransport(s, target)
  \/ \E p \in Pane : Mount(p) \/ Unmount(p)

DirectAttempt(d) == SignalOpens(d) \/ DirectOpens(d) \/ WebRtcFails(d) \/ QuicFails(d)

Next ==
  \/ OnOpen \/ LoseSocket \/ OnClose \/ Reconnect
  \/ HandleServerMsg
  \/ User
  \/ \E d \in Direct : DirectAttempt(d) \/ LoseDirect(d) \/ OnDirectClose(d)

Spec == Init /\ [][Next]_vars

(* Timers and events come; a connection attempt ends; the server answers;  *)
(* the network lets a socket open again and again.                         *)
FairSpec ==
  /\ Spec
  /\ WF_vars(OnClose) /\ WF_vars(Reconnect) /\ SF_vars(OnOpen)
  /\ WF_vars(HandleServerMsg)
  /\ \A d \in Direct : WF_vars(DirectAttempt(d)) /\ WF_vars(OnDirectClose(d))

-----------------------------------------------------------------------------
(* Mutant of TakesWsOutput: also of sessions with a direct connection.     *)
TakesAllOutput(p) == focusedSessionId = sessionOf[p]

(* onmessage drops output while there are direct connections; what it      *)
(* takes belongs to the session in focus.                                  *)
TakesWsOutput(p) ==
  /\ \A s \in Session : p2pConnections[s] = NoDirect
  /\ focusedSessionId = sessionOf[p]

(* The connections over which output of p reaches its terminal.            *)
Carriers(p) ==
  {d \in Direct : direct[d].at = "open" /\ direct[d].of = sessionOf[p] /\ p \in direct[d].subs}
  \cup {w \in {"ws"} : socket = "open" /\ p \in ws_subs /\ TakesWsOutput(p)}

(* A terminal shows every output at most once, although its pane stays     *)
(* subscribed over the WebSocket when its session is upgraded              *)
(* (tmux.ts:255, 402-438).                                                 *)
ShownOnce ==
  \A p \in paneHandlers : sessionOf[p] \in Patient => Cardinality(Carriers(p)) <= 1

(* A session's direct connection has all its terminals, also those mounted *)
(* while it was opening, and none that is gone.                            *)
DirectHasTheTerminals ==
  \A s \in Session : p2pConnections[s] # NoDirect =>
    direct[p2pConnections[s]].subs = Mounted(s)

(* No connection to an agent stays open behind the back of a session whose *)
(* user waits, be it lost, replaced or fallen back from: an open one is    *)
(* registered, the one for signalling with it, or an attempt awaits it.    *)
(* The exception is the signalling of a WebRTC attempt that failed, which  *)
(* the catch forgets with its keepAlive (tmux.ts:299-304, 357-367).        *)
OpenIsRegistered ==
  /\ \A d \in Direct : direct[d].of \in Patient =>
       /\ direct[d].at = "open" => p2pConnections[direct[d].of] = d
       /\ direct[d].signalling => direct[d].at = "channel" \/ p2pConnections[direct[d].of] = d
  /\ \A s \in Patient : <<s, "connection">> \notin stray

(* The pane is subscribed where its session's output comes from.           *)
Subscribed(p) ==
  LET d == p2pConnections[sessionOf[p]] IN
    IF d # NoDirect THEN direct[d].at = "open" /\ p \in direct[d].subs ELSE p \in ws_subs

(* Liveness: the terminals of a session whose direct connection has ended  *)
(* are served again, unless the WebSocket is lost as well                  *)
(* (tmux.ts:347-351, 385-389).                                             *)
TerminalsFallBack ==
  \A p \in Pane :
    p \in paneHandlers /\ (\E d \in Direct : direct[d].at = "ended" /\ direct[d].of = sessionOf[p])
      ~> Subscribed(p) \/ p \notin paneHandlers \/ ~wsSend \/ socket # "open"

(* Liveness: messages to the server are not dropped for ever.              *)
WebSocketReturns == ~wsSend ~> wsSend /\ socket = "open"

=============================================================================
