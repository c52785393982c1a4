------------------------- MODULE SessionStatusProofs -------------------------
(***************************************************************************)
(* Machine-checked proofs about what SessionManager shows: the lists, the  *)
(* routes, the statuses and the connections it keeps, for every number of  *)
(* sessions, panes, connections and transports.                            *)
(***************************************************************************)
EXTENDS SessionManagerProofs

USE DEF sessions, shared, objects, tasks, history

-----------------------------------------------------------------------------
(* Lists and routes.                                                       *)

(* A step that touches neither lists nor routes, and lets no disconnect go *)
(* before it has removed the list.                                         *)
LEMMA ListsFrame ==
  ASSUME ListsFollowRoutes, UNCHANGED <<tmux_sessions, pane_to_session>>,
         \A s \in SessionId : InMemory(s) => InMemory(s)',
         \A c \in Conn, s \in SessionId : Disconnects(c, s) => Disconnects(c, s)'
  PROVE  ListsFollowRoutes'
BY DEF ListsFollowRoutes

(* Listing the panes of a session and routing them are one step: the list  *)
(* of another session keeps the routes of the panes that it alone has.     *)
LEMMA PublishLists ==
  ASSUME TypeOK, ListsFollowRoutes, RoutesFollowHosts,
         NEW s \in SessionId, NEW panes \in SUBSET HostPanes[s],
         Route(s, panes), SetPanes(s, panes),
         \A x \in SessionId : InMemory(x)' = InMemory(x),
         \A d \in Conn, x \in SessionId : Disconnects(d, x) => Disconnects(d, x)'
  PROVE  ListsFollowRoutes'
<1>1. ASSUME NEW x \in SessionId
      PROVE  /\ ~InMemory(x)' => tmux_sessions'[x] = {}
             /\ \/ \E d \in Conn : Disconnects(d, x)'
                \/ \A p \in tmux_sessions'[x] : Unshared(x, p) => pane_to_session'[p] = x
  <2>1. ~InMemory(x)' => tmux_sessions'[x] = {}
    BY DEF ListsFollowRoutes, SetPanes, TypeOK
  <2>2. CASE x = s /\ InMemory(s)
    <3>1. tmux_sessions'[s] = panes /\ panes \subseteq Pane
      BY <2>2, HostPanesAssumption DEF SetPanes, TypeOK
    <3> QED
      BY <2>1, <2>2, <3>1 DEF Route
  <2>3. CASE x # s \/ ~InMemory(s)
    <3>1. tmux_sessions'[x] = tmux_sessions[x] /\ tmux_sessions[x] \subseteq Pane
      BY <2>3 DEF SetPanes, TypeOK
    <3>2. CASE \E d \in Conn : Disconnects(d, x)
      BY <2>1, <3>2
    <3>3. CASE \A p \in tmux_sessions[x] : Unshared(x, p) => pane_to_session[p] = x
      <4>1. ASSUME NEW p \in tmux_sessions[x], Unshared(x, p) PROVE pane_to_session'[p] = x
        <5>1. CASE x = s
          BY <3>1, <3>3, <4>1, <5>1 DEF Route
        <5>2. CASE x # s
          <6>1. p \notin panes
            BY <4>1, <5>2 DEF Unshared
          <6> QED
            BY <3>1, <3>3, <4>1, <6>1 DEF Route
        <5> QED
          BY <5>1, <5>2
      <4> QED
        BY <2>1, <3>1, <4>1
    <3> QED
      BY <3>2, <3>3 DEF ListsFollowRoutes
  <2> QED
    BY <2>2, <2>3
<1> QED
  BY <1>1 DEF ListsFollowRoutes

(* A step that removes the routes of a session that it goes on to          *)
(* disconnect, or that is not in memory.                                   *)
LEMMA UnrouteLists ==
  ASSUME TypeOK, ListsFollowRoutes, NEW s \in SessionId, Unroute(s), NEW c \in Conn,
         \/ UNCHANGED <<status, tmux_sessions>> /\ (~InMemory(s) \/ Disconnects(c, s)')
         \/ /\ status' = [status EXCEPT ![s] = "none"]
            /\ tmux_sessions' = [tmux_sessions EXCEPT ![s] = {}],
         \A d \in Conn, x \in SessionId : Disconnects(d, x) => Disconnects(d, x)'
  PROVE  ListsFollowRoutes'
<1>1. ASSUME NEW x \in SessionId
      PROVE  /\ ~InMemory(x)' => tmux_sessions'[x] = {}
             /\ \/ \E d \in Conn : Disconnects(d, x)'
                \/ \A p \in tmux_sessions'[x] : Unshared(x, p) => pane_to_session'[p] = x
  <2>1. CASE x = s
    BY <2>1 DEF ListsFollowRoutes, InMemory, TypeOK
  <2>2. CASE x # s
    <3>1. tmux_sessions'[x] = tmux_sessions[x] /\ status'[x] = status[x] /\ tmux_sessions[x] \subseteq Pane
      BY <2>2 DEF TypeOK
    <3>2. \A p \in Pane : pane_to_session[p] = x => pane_to_session'[p] = x
      BY <2>2 DEF Unroute, TypeOK
    <3> QED
      BY <3>1, <3>2 DEF ListsFollowRoutes, InMemory
  <2> QED
    BY <2>1, <2>2
<1> QED
  BY <1>1 DEF ListsFollowRoutes

(* A step that leaves the routes and empties the list of one session.      *)
LEMMA EmptyList ==
  ASSUME TypeOK, ListsFollowRoutes, NEW s \in SessionId, UNCHANGED pane_to_session,
         tmux_sessions' = [tmux_sessions EXCEPT ![s] = {}] \/ (~InMemory(s) /\ UNCHANGED tmux_sessions),
         \A x \in SessionId \ {s} : InMemory(x) => InMemory(x)',
         \A d \in Conn, x \in SessionId \ {s} : Disconnects(d, x) => Disconnects(d, x)'
  PROVE  ListsFollowRoutes'
<1>1. tmux_sessions'[s] = {}
  BY DEF ListsFollowRoutes, TypeOK
<1>2. \A x \in SessionId \ {s} : tmux_sessions'[x] = tmux_sessions[x]
  BY DEF TypeOK
<1> QED
  BY <1>1, <1>2 DEF ListsFollowRoutes

(* The handler returns: other requests stay where they are.                *)
LEMMA ReturnGoes ==
  ASSUME TypeOK, NEW c \in Conn, Return(c)
  PROVE  /\ \E l \in Pc : Goto(c, l)
         /\ \A d \in Conn \ {c} : sid'[d] = sid[d] /\ op'[d] = op[d]
BY DEF Return, Pc, TypeOK

(* A request that is not about to disconnect takes no disconnect's place.  *)
LEMMA DisconnectsFrame ==
  ASSUME TypeOK, NEW c \in Conn, pc[c] \notin {"lock", "disconnect", "disconnect_map"},
         NEW l \in Pc, Goto(c, l) \/ UNCHANGED pc,
         \A d \in Conn \ {c} : sid'[d] = sid[d] /\ op'[d] = op[d]
  PROVE  \A d \in Conn, x \in SessionId : Disconnects(d, x) => Disconnects(d, x)'
BY DEF Disconnects, Goto, TypeOK

(* Every step keeps the lists on the routes.                               *)
LEMMA ListsStep ==
  ASSUME TypeOK, Suspended, RoutesFollowHosts, ListsFollowRoutes, [Next]_vars
  PROVE  ListsFollowRoutes'
<1> DEFINE Kept == \A d \in Conn, x \in SessionId : Disconnects(d, x) => Disconnects(d, x)'
<1>1. ASSUME NEW c \in Conn, Open(c) \/ ListSessions(c) \/ LoadFetch(c) \/ LoadDone(c) \/ Close(c) \/ CleanupDone(c)
      PROVE  ListsFollowRoutes'
  <2>1. Kept
    BY <1>1, DisconnectsFrame
       DEF Open, ListSessions, LoadFetch, LoadDone, Close, LeaveWebSocket, LeaveWebTransport,
           CleanupDone, Pc
  <2> QED
    BY <1>1, <2>1, ListsFrame
       DEF Open, ListSessions, LoadFetch, LoadDone, Close, CleanupDone, InMemory
<1>2. ASSUME NEW c \in Conn, NEW s \in SessionId, LoadListed(c, s) \/ LoadAbsent(c, s) \/ Create(c, s)
      PROVE  ListsFollowRoutes'
  <2>1. Kept
    BY <1>2, DisconnectsFrame DEF LoadListed, LoadAbsent, Create, Pc, TypeOK
  <2> QED
    BY <1>2, <2>1, ListsFrame DEF LoadListed, LoadAbsent, Create, InMemory
<1>3. ASSUME NEW c \in Conn, ConnectDb(c) \/ ConnectClose(c) \/ ConnectOk(c) \/ DeleteTransport(c)
      PROVE  ListsFollowRoutes'
  <2>1. Kept
    BY <1>3, DisconnectsFrame
       DEF ConnectDb, ConnectClose, ConnectOk, Connected, DeleteTransport, AwaitLock, TypeOK, Pc, HoldsLock
  <2> QED
    BY <1>3, <2>1, ListsFrame DEF ConnectDb, ConnectClose, ConnectOk, DeleteTransport, InMemory
<1>4. ASSUME NEW c \in Conn,
             ConnectedDb(c) \/ ErrorDb(c) \/ DisconnectedDb(c) \/ DeleteDb(c) \/ InputTransport(c)
      PROVE  ListsFollowRoutes'
  <2>1. Kept
    BY <1>4, DisconnectsFrame, ReturnGoes
       DEF ConnectedDb, ErrorDb, DisconnectedDb, DeleteDb, InputTransport, ReturnUnlocking
  <2> QED
    BY <1>4, <2>1, ListsFrame
       DEF ConnectedDb, ErrorDb, DisconnectedDb, DeleteDb, InputTransport, InMemory
<1>5. ASSUME NEW c \in Conn, NEW s \in SessionId,
             Refresh(c, s) \/ \E p \in Pane : Input(c, s, p)
      PROVE  ListsFollowRoutes'
  <2>1. Kept
    BY <1>5, DisconnectsFrame DEF Refresh, Input, AwaitLock, TypeOK, Pc
  <2> QED
    BY <1>5, <2>1, ListsFrame DEF Refresh, Input, InMemory
<1>6. ASSUME NEW c \in Conn, NEW s \in SessionId, Connect(c, s) PROVE ListsFollowRoutes'
  <2>1. Kept
    BY <1>6, DisconnectsFrame DEF Connect, TypeOK, Pc
  <2>2. \A x \in SessionId : InMemory(x) => InMemory(x)'
    BY <1>6 DEF Connect, SetStatus, InMemory, TypeOK
  <2> QED
    BY <1>6, <2>1, <2>2, ListsFrame DEF Connect
<1>7. ASSUME NEW c \in Conn, ConnectFail(c) PROVE ListsFollowRoutes'
  <2>1. Kept
    BY <1>7, DisconnectsFrame DEF ConnectFail, TypeOK, Pc, HoldsLock
  <2>2. \A x \in SessionId : InMemory(x) => InMemory(x)'
    BY <1>7 DEF ConnectFail, SetStatus, InMemory, TypeOK
  <2> QED
    BY <1>7, <2>1, <2>2, ListsFrame DEF ConnectFail
<1>8. ASSUME NEW c \in Conn, Lock(c) PROVE ListsFollowRoutes'
  <2>1. Kept
    BY <1>8 DEF Lock, Goto, Disconnects, TypeOK
  <2> QED
    BY <1>8, <2>1, ListsFrame DEF Lock, InMemory
<1>9. ASSUME NEW c \in Conn, LoadPut(c) \/ CreatePut(c) PROVE ListsFollowRoutes'
  <2>1. Kept
    <3>1. CASE LoadPut(c)
      BY <3>1, DisconnectsFrame DEF LoadPut, TypeOK, Pc
    <3>2. CASE CreatePut(c)
      BY <3>2, DisconnectsFrame, ReturnGoes DEF CreatePut
    <3> QED
      BY <1>9, <3>1, <3>2
  <2>2. sid[c] \in SessionId
    BY <1>9 DEF LoadPut, CreatePut, Suspended
  <2>3. PICK st : InsertEntry(sid[c], st)
    BY <1>9 DEF LoadPut, CreatePut
  <2>4. /\ tmux_sessions' = [tmux_sessions EXCEPT ![sid[c]] = {}]
        /\ \A x \in SessionId \ {sid[c]} : InMemory(x) => InMemory(x)'
    BY <2>3 DEF InsertEntry, InMemory, TypeOK
  <2> QED
    BY <1>9, <2>1, <2>2, <2>4, EmptyList DEF LoadPut, CreatePut
<1>10. ASSUME NEW c \in Conn, ConnectPublish(c) PROVE ListsFollowRoutes'
  <2>1. Kept
    BY <1>10, DisconnectsFrame DEF ConnectPublish, TypeOK, Pc, HoldsLock
  <2>2. sid[c] \in SessionId
    BY <1>10 DEF ConnectPublish, Suspended, HoldsLock, HasTransport
  <2>3. PICK panes \in SUBSET HostPanes[sid[c]] : Route(sid[c], panes) /\ SetPanes(sid[c], panes)
    BY <1>10 DEF ConnectPublish
  <2>4. \A x \in SessionId : InMemory(x)' = InMemory(x)
    BY <1>10, <2>2 DEF ConnectPublish, SetStatus, InMemory, TypeOK
  <2> QED
    BY <2>1, <2>2, <2>3, <2>4, PublishLists
<1>11. ASSUME NEW c \in Conn, RefreshTransport(c) PROVE ListsFollowRoutes'
  <2>1. Kept
    BY <1>11, DisconnectsFrame, ReturnGoes DEF RefreshTransport, ReturnUnlocking
  <2>2. sid[c] \in SessionId
    BY <1>11 DEF RefreshTransport, Suspended, HoldsLock, HasTransport, Op
  <2>3. \A x \in SessionId : InMemory(x)' = InMemory(x)
    BY <1>11 DEF RefreshTransport, InMemory
  <2>4. CASE UNCHANGED <<tmux_sessions, pane_to_session>>
    BY <2>1, <2>3, <2>4, ListsFrame
  <2>5. CASE Route(sid[c], HostPanes[sid[c]]) /\ SetPanes(sid[c], HostPanes[sid[c]])
    BY <2>1, <2>2, <2>3, <2>5, PublishLists
  <2> QED
    BY <1>11, <2>4, <2>5 DEF RefreshTransport
<1>12. ASSUME NEW c \in Conn, NEW s \in SessionId, pc[c] \notin {"lock", "disconnect", "disconnect_map"},
              BeginDisconnect(c, s)
       PROVE  ListsFollowRoutes'
  <2>1. Kept
    BY <1>12, DisconnectsFrame DEF BeginDisconnect, AwaitLock, TypeOK, Pc
  <2>2. ~InMemory(s) \/ Disconnects(c, s)'
    BY <1>12 DEF BeginDisconnect, AwaitLock, Goto, Disconnects, TypeOK
  <2> QED
    BY <1>12, <2>1, <2>2, UnrouteLists DEF BeginDisconnect
<1>13. ASSUME NEW c \in Conn, NEW s \in SessionId, Delete(c, s) PROVE ListsFollowRoutes'
  <2>1. Kept
    BY <1>13, DisconnectsFrame DEF Delete, AwaitLock, TypeOK, Pc
  <2> QED
    BY <1>13, <2>1, UnrouteLists DEF Delete
<1>14. ASSUME NEW c \in Conn, DisconnectTransport(c) PROVE ListsFollowRoutes'
  <2>1. Kept
    BY <1>14 DEF DisconnectTransport, Goto, Disconnects, TypeOK
  <2> QED
    BY <1>14, <2>1, ListsFrame DEF DisconnectTransport, InMemory
<1>15. ASSUME NEW c \in Conn, DisconnectMap(c) PROVE ListsFollowRoutes'
  <2>1. sid[c] \in SessionId
    BY <1>15 DEF DisconnectMap, Suspended, HoldsLock, HasTransport
  <2>2. \A d \in Conn, x \in SessionId \ {sid[c]} : Disconnects(d, x) => Disconnects(d, x)'
    BY <1>15 DEF DisconnectMap, Goto, Disconnects, TypeOK
  <2>3. \A x \in SessionId : InMemory(x) => InMemory(x)'
    BY <1>15 DEF DisconnectMap, SetStatus, InMemory, TypeOK
  <2> QED
    BY <1>15, <2>1, <2>2, <2>3, EmptyList DEF DisconnectMap, SetPanes
<1>16. ASSUME NEW t \in TransportId, DropTransport(t) \/ LinkEnds(t) PROVE ListsFollowRoutes'
  BY <1>16, ListsFrame DEF DropTransport, LinkEnds, InMemory, Disconnects
<1>17. ASSUME Restart PROVE ListsFollowRoutes'
  BY <1>17 DEF Restart, ListsFollowRoutes
<1>18. CASE UNCHANGED vars
  BY <1>18, ListsFrame DEF vars, InMemory, Disconnects
<1>19. ASSUME NEW c \in Conn, NEW s \in SessionId, Disconnect(c, s) \/ CleanupDisconnect(c, s)
       PROVE  ListsFollowRoutes'
  BY <1>12, <1>19 DEF Disconnect, CleanupDisconnect
<1> HIDE DEF Kept
<1> QED
  BY <1>1, <1>2, <1>3, <1>4, <1>5, <1>6, <1>7, <1>8, <1>9, <1>10, <1>11, <1>13, <1>14, <1>15, <1>16,
     <1>17, <1>18, <1>19
     DEF Next, Advance, Client

(* Every pane that a connected session lists and no other host has can be  *)
(* typed into, for any number of tabs that connect, disconnect, refresh    *)
(* and delete at the same time.                                            *)
THEOREM ListedPanes == Spec => []ListedPanesAreRouted
<1> DEFINE Lists == Base /\ RoutesFollowHosts /\ ListsFollowRoutes
<1>1. Init => Lists
  <2>1. Init => RoutesFollowHosts /\ ListsFollowRoutes
    BY DEF Init, RoutesFollowHosts, ListsFollowRoutes, Typing
  <2> QED
    BY <2>1, InitBase
<1>2. Lists /\ [Next]_vars => Lists'
  <2>1. SUFFICES ASSUME Base, RoutesFollowHosts, ListsFollowRoutes, [Next]_vars
                 PROVE  Base' /\ RoutesFollowHosts' /\ ListsFollowRoutes'
    OBVIOUS
  <2>2. RoutesFollowHosts'
    BY <2>1, RoutesStep DEF Base
  <2>3. ListsFollowRoutes'
    BY <2>1, ListsStep DEF Base
  <2> QED
    BY <2>1, <2>2, <2>3, BaseStep
<1>3. Lists => ListedPanesAreRouted
  BY DEF ListsFollowRoutes, ListedPanesAreRouted, Disconnects, Quiescent
<1> QED
  BY <1>1, <1>2, <1>3, PTL DEF Spec

-----------------------------------------------------------------------------
(* Statuses.                                                               *)

(* Only a delete that has not ended keeps a session with a row unsettled.  *)
LEMMA SettledFrame ==
  ASSUME TypeOK, NEW s \in SessionId, Settled(s)',
         rows'[s] # "none" => rows[s] # "none", replaced \subseteq replaced',
         \A d \in Conn : Deletes(d, s) => Deletes(d, s)'
  PROVE  Settled(s)
BY DEF Settled

(* A request that is not a delete takes no delete's place.                 *)
LEMMA DeletesFrame ==
  ASSUME TypeOK, NEW c \in Conn, pc[c] \notin {"lock", "delete", "delete_db"},
         NEW l \in Pc, Goto(c, l) \/ UNCHANGED pc,
         \A d \in Conn \ {c} : sid'[d] = sid[d] /\ op'[d] = op[d]
  PROVE  \A d \in Conn, s \in SessionId : Deletes(d, s) => Deletes(d, s)'
BY DEF Deletes, Goto, TypeOK

(* A session becomes settled when it is created, or when the server        *)
(* restarts; and at no other step, if a delete removes the row.            *)
LEMMA SettledBefore ==
  ASSUME TypeOK, Suspended, ~DbMayFail, [Next]_vars, ~Restart,
         NEW s \in SessionId, \A c \in Conn : ~Create(c, s), Settled(s)'
  PROVE  Settled(s)
<1> DEFINE Kept == \A d \in Conn, x \in SessionId : Deletes(d, x) => Deletes(d, x)'
<1>1. ASSUME NEW c \in Conn, Open(c) \/ ListSessions(c) \/ LoadFetch(c) \/ LoadDone(c) \/ Close(c) \/ CleanupDone(c)
      PROVE  Settled(s)
  <2>1. Kept
    BY <1>1, DeletesFrame
       DEF Open, ListSessions, LoadFetch, LoadDone, Close, LeaveWebSocket, LeaveWebTransport,
           CleanupDone, Pc
  <2> QED
    BY <1>1, <2>1, SettledFrame
       DEF Open, ListSessions, LoadFetch, LoadDone, Close, CleanupDone
<1>2. ASSUME NEW c \in Conn, NEW x \in SessionId, LoadListed(c, x) \/ LoadAbsent(c, x)
      PROVE  Settled(s)
  <2>1. Kept
    BY <1>2, DeletesFrame DEF LoadListed, LoadAbsent, Pc, TypeOK
  <2> QED
    BY <1>2, <2>1, SettledFrame DEF LoadListed, LoadAbsent
<1>3. ASSUME NEW c \in Conn, NEW x \in SessionId, Create(c, x) PROVE Settled(s)
  <2>1. Kept
    BY <1>3, DeletesFrame DEF Create, Pc, TypeOK
  <2>2. x # s
    BY <1>3
  <2> QED
    BY <1>3, <2>1, <2>2, SettledFrame DEF Create, TypeOK
<1>4. ASSUME NEW c \in Conn, LoadPut(c) \/ CreatePut(c) PROVE Settled(s)
  <2>1. Kept
    <3>1. CASE LoadPut(c)
      BY <3>1, DeletesFrame DEF LoadPut, TypeOK, Pc
    <3>2. CASE CreatePut(c)
      BY <3>2, DeletesFrame, ReturnGoes DEF CreatePut
    <3> QED
      BY <1>4, <3>1, <3>2
  <2>2. replaced \subseteq replaced' /\ rows' = rows
    BY <1>4 DEF LoadPut, CreatePut, InsertEntry
  <2> QED
    BY <2>1, <2>2, SettledFrame
<1>5. ASSUME NEW c \in Conn,
             \/ ConnectClose(c) \/ ConnectOk(c) \/ ConnectFail(c) \/ ConnectPublish(c)
             \/ DisconnectTransport(c) \/ DisconnectMap(c)
      PROVE  Settled(s)
  <2>1. Kept
    BY <1>5, DeletesFrame
       DEF ConnectClose, ConnectOk, Connected, ConnectFail, ConnectPublish, DisconnectTransport,
           DisconnectMap, TypeOK, Pc, HoldsLock
  <2> QED
    BY <1>5, <2>1, SettledFrame
       DEF ConnectClose, ConnectOk, ConnectFail, ConnectPublish, DisconnectTransport, DisconnectMap
<1>6. ASSUME NEW c \in Conn, ConnectDb(c) PROVE Settled(s)
  <2>1. Kept
    BY <1>6, DeletesFrame DEF ConnectDb, AwaitLock, TypeOK, Pc
  <2> QED
    BY <1>6, <2>1, SettledFrame DEF ConnectDb, UpdateRow, TypeOK
<1>7. ASSUME NEW c \in Conn,
             ConnectedDb(c) \/ ErrorDb(c) \/ DisconnectedDb(c) \/ RefreshTransport(c) \/ InputTransport(c)
      PROVE  Settled(s)
  <2>1. Kept
    BY <1>7, DeletesFrame, ReturnGoes
       DEF ConnectedDb, ErrorDb, DisconnectedDb, RefreshTransport, InputTransport, ReturnUnlocking
  <2>2. rows'[s] # "none" => rows[s] # "none"
    BY <1>7 DEF ConnectedDb, ErrorDb, DisconnectedDb, RefreshTransport, InputTransport, UpdateRow, TypeOK
  <2> QED
    BY <1>7, <2>1, <2>2, SettledFrame
       DEF ConnectedDb, ErrorDb, DisconnectedDb, RefreshTransport, InputTransport
<1>8. ASSUME NEW c \in Conn, Lock(c) PROVE Settled(s)
  <2>1. Kept
    BY <1>8 DEF Lock, Goto, Deletes, TypeOK
  <2> QED
    BY <1>8, <2>1, SettledFrame DEF Lock
<1>9. ASSUME NEW c \in Conn, NEW x \in SessionId,
             \/ Connect(c, x) \/ Disconnect(c, x) \/ CleanupDisconnect(c, x) \/ Delete(c, x) \/ Refresh(c, x)
             \/ \E p \in Pane : Input(c, x, p)
      PROVE  Settled(s)
  <2>1. Kept
    <3>1. CASE Connect(c, x)
      BY <3>1, DeletesFrame DEF Connect, AwaitLock, TypeOK, Pc
    <3>2. CASE Disconnect(c, x) \/ CleanupDisconnect(c, x)
      BY <3>2, DeletesFrame DEF Disconnect, CleanupDisconnect, BeginDisconnect, AwaitLock, TypeOK, Pc
    <3>3. CASE Delete(c, x)
      BY <3>3, DeletesFrame DEF Delete, AwaitLock, TypeOK, Pc
    <3>4. CASE Refresh(c, x)
      BY <3>4, DeletesFrame DEF Refresh, AwaitLock, TypeOK, Pc
    <3>5. CASE \E p \in Pane : Input(c, x, p)
      BY <3>5, DeletesFrame DEF Input, AwaitLock, TypeOK, Pc
    <3> QED
      BY <1>9, <3>1, <3>2, <3>3, <3>4, <3>5
  <2> QED
    BY <1>9, <2>1, SettledFrame
       DEF Connect, Disconnect, CleanupDisconnect, BeginDisconnect, Delete, Refresh, Input
<1>10. ASSUME NEW c \in Conn, DeleteTransport(c) PROVE Settled(s)
  <2>1. Kept
    BY <1>10 DEF DeleteTransport, Goto, Deletes, TypeOK
  <2> QED
    BY <1>10, <2>1, SettledFrame DEF DeleteTransport
<1>11. ASSUME NEW c \in Conn, DeleteDb(c) PROVE Settled(s)
  <2>1. rows' = [rows EXCEPT ![sid[c]] = "none"]
    BY <1>11 DEF DeleteDb
  <2>2. sid[c] # s
    BY <2>1 DEF Settled, TypeOK
  <2>3. \A d \in Conn : Deletes(d, s) => Deletes(d, s)'
    BY <1>11, <2>2 DEF DeleteDb, ReturnUnlocking, Return, Goto, Deletes, TypeOK
  <2> QED
    BY <1>11, <2>1, <2>3, SettledFrame DEF DeleteDb, TypeOK
<1>12. ASSUME NEW t \in TransportId, DropTransport(t) \/ LinkEnds(t) PROVE Settled(s)
  BY <1>12, SettledFrame DEF DropTransport, LinkEnds, Deletes
<1>13. CASE UNCHANGED vars
  BY <1>13, SettledFrame DEF vars, Deletes
<1> HIDE DEF Kept
<1> QED
  BY <1>1, <1>2, <1>3, <1>4, <1>5, <1>6, <1>7, <1>8, <1>9, <1>10, <1>11, <1>12, <1>13
     DEF Next, Advance, Client

(* The requests on a settled session share the transport of its entry.     *)
LEMMA SettledEntry ==
  ASSUME TypeOK, EntryShape, Ownership, Retained, NEW s \in SessionId, Settled(s),
         NEW c \in Conn, sid[c] = s, WorksOn(c), tr[c] # NoTransport
  PROVE  transport[s] = tr[c] /\ InMemory(s)
<1>1. tr[c] \in TransportId /\ owner[tr[c]] = s
  BY DEF TypeOK, Ownership
<1>2. ASSUME NEW d \in Conn, Deleting(d, tr[c]) PROVE FALSE
  <2>1. WorksOn(d) /\ owner[tr[d]] = sid[d]
    BY <1>2 DEF Deleting, WorksOn, HasTransport, HoldsLock, Op, Ownership
  <2>2. Deletes(d, s)
    BY <1>1, <1>2, <2>1 DEF Deleting, Deletes
  <2> QED
    BY <2>2 DEF Settled
<1>3. transport[s] = tr[c]
  BY <1>1, <1>2, NullAssumption DEF Retained, Settled
<1> QED
  BY <1>3 DEF EntryShape

(* A step that changes nothing that the agreement about s is made of.      *)
LEMMA AgreesFrame ==
  ASSUME NEW s \in SessionId, Agrees(s), UNCHANGED <<status[s], rows[s]>>,
         \A d \in Conn : WillSetStatus(d, s) => WillSetStatus(d, s)',
         \A d \in Conn, st \in Status \cup {"none"} : WillSetRow(d, s, st)' = WillSetRow(d, s, st),
         status[s] \in Status \cup {"none"},
         \A d \in Conn : /\ fetched'[d][s] \in {fetched[d][s], "none"}
                         /\ pc'[d] = "create_put" /\ sid'[d] = s => pc[d] = "create_put" /\ sid[d] = s
  PROVE  Agrees(s)'
<1>1. InMemory(s)' = InMemory(s)
  BY DEF InMemory
<1>2. ASSUME InMemory(s)', \A d \in Conn : ~WillSetStatus(d, s)'
      PROVE  \/ \E d \in Conn : WillSetRow(d, s, status[s])'
             \/ /\ \A d \in Conn, st \in Status : ~WillSetRow(d, s, st)'
                /\ status[s] = rows[s]
  <2>1. \/ \E d \in Conn : WillSetRow(d, s, status[s])
        \/ (\A d \in Conn, st \in Status : ~WillSetRow(d, s, st)) /\ status[s] = rows[s]
    BY <1>1, <1>2 DEF Agrees
  <2> QED
    BY <2>1 DEF WillSetRow
<1>3. ASSUME ~InMemory(s)'
      PROVE  /\ rows'[s] # "connected"
             /\ \A d \in Conn :
                  /\ fetched'[d][s] # "none" => StatusOfRow(fetched'[d][s]) = rows'[s]
                  /\ pc'[d] = "create_put" /\ sid'[d] = s => rows'[s] = "created"
  <2>1. rows'[s] = rows[s] /\ rows[s] # "connected"
    BY <1>1, <1>3 DEF Agrees
  <2>2. ASSUME NEW d \in Conn, fetched'[d][s] # "none" PROVE StatusOfRow(fetched'[d][s]) = rows'[s]
    <3>1. fetched'[d][s] = fetched[d][s] /\ StatusOfRow(fetched[d][s]) = rows[s]
      BY <1>1, <1>3, <2>2 DEF Agrees
    <3> QED
      BY <2>1, <3>1
  <2>3. ASSUME NEW d \in Conn, pc'[d] = "create_put" /\ sid'[d] = s PROVE rows'[s] = "created"
    BY <1>1, <1>3, <2>1, <2>3 DEF Agrees
  <2> QED
    BY <2>1, <2>2, <2>3
<1> QED
  BY <1>1, <1>2, <1>3 DEF Agrees

(* A step of a request about other sessions.                               *)
LEMMA AgreesElsewhere ==
  ASSUME TypeOK, NEW s \in SessionId, Agrees(s), UNCHANGED <<status[s], rows[s]>>,
         NEW c \in Conn, sid[c] # s \/ pc[c] \in {"idle", "cleanup"}, sid'[c] # s,
         \A d \in Conn \ {c} : UNCHANGED <<pc[d], op[d], sid[d]>>,
         \A d \in Conn : fetched'[d][s] \in {fetched[d][s], "none"}
  PROVE  Agrees(s)'
<1>1. \A d \in Conn : WillSetStatus(d, s) => WillSetStatus(d, s)'
  BY DEF WillSetStatus
<1>2. \A d \in Conn, st \in Status \cup {"none"} : WillSetRow(d, s, st)' = WillSetRow(d, s, st)
  BY DEF WillSetRow
<1>3. \A d \in Conn :
        pc'[d] = "create_put" /\ sid'[d] = s => pc[d] = "create_put" /\ sid[d] = s
  OBVIOUS
<1> QED
  BY <1>1, <1>2, <1>3, AgreesFrame DEF TypeOK

(* A step at which the request of c neither promises nor writes a status.  *)
LEMMA AgreesQuietly ==
  ASSUME TypeOK, NEW s \in SessionId, Agrees(s), UNCHANGED <<status[s], rows[s]>>,
         NEW c \in Conn, WillSetStatus(c, s) => WillSetStatus(c, s)',
         pc[c] \notin {"connected_db", "error_db", "disconnected_db"},
         pc'[c] \notin {"connected_db", "error_db", "disconnected_db", "create_put"},
         \A d \in Conn \ {c} : UNCHANGED <<pc[d], op[d], sid[d]>>,
         \A d \in Conn : fetched'[d][s] \in {fetched[d][s], "none"}
  PROVE  Agrees(s)'
<1>1. \A d \in Conn : WillSetStatus(d, s) => WillSetStatus(d, s)'
  BY DEF WillSetStatus
<1>2. \A d \in Conn, st \in Status \cup {"none"} : WillSetRow(d, s, st)' = WillSetRow(d, s, st)
  BY DEF WillSetRow
<1> QED
  BY <1>1, <1>2, AgreesFrame DEF TypeOK

(* A request that has written its outcome into the map of a settled        *)
(* session is the only one there is.                                       *)
LEMMA OneOutcome ==
  ASSUME TypeOK, Suspended, EntryShape, LockDiscipline, Ownership, Retained,
         NEW s \in SessionId, Settled(s), NEW c \in Conn, pc[c] \in HoldsLock \ {"input"}, sid[c] = s,
         NEW d \in Conn, NEW st, WillSetRow(d, s, st)
  PROVE  d = c
<1>1. /\ tr[c] # NoTransport /\ tr[d] # NoTransport
      /\ WorksOn(c) /\ WorksOn(d) /\ sid[d] = s /\ pc[d] \in HoldsLock
  BY DEF LockDiscipline, WillSetRow, WorksOn, HasTransport, HoldsLock, Op
<1>2. tr[c] = tr[d]
  BY <1>1, SettledEntry
<1> QED
  BY <1>1, <1>2 DEF LockDiscipline

(* The request that holds the mutex writes its outcome into the map.       *)
LEMMA OutcomeSet ==
  ASSUME TypeOK, Suspended, EntryShape, LockDiscipline, Ownership, Retained,
         NEW s \in SessionId, Settled(s), NEW c \in Conn, pc[c] \in HoldsLock \ {"input"}, sid[c] = s,
         NEW st \in Status, SetStatus(s, st), UNCHANGED sid, WillSetRow(c, s, st)'
  PROVE  Agrees(s)'
<1>1. tr[c] # NoTransport /\ WorksOn(c)
  BY DEF LockDiscipline, WorksOn, HasTransport, HoldsLock, Op
<1>2. InMemory(s)
  BY <1>1, SettledEntry
<1>3. status'[s] = st /\ InMemory(s)'
  BY <1>2 DEF SetStatus, InMemory, TypeOK, Status
<1>4. WillSetRow(c, s, status[s])'
  BY <1>3 DEF WillSetRow
<1> QED
  BY <1>3, <1>4 DEF Agrees

(* The request that holds the mutex writes its outcome into the row.       *)
LEMMA OutcomeWritten ==
  ASSUME TypeOK, Suspended, EntryShape, LockDiscipline, Ownership, Retained,
         NEW s \in SessionId, Settled(s), Agrees(s), NEW c \in Conn,
         NEW st \in Status, WillSetRow(c, s, st), rows'[s] = st, UNCHANGED status,
         pc'[c] \in {"idle", "cleanup"}, \A d \in Conn \ {c} : UNCHANGED <<pc[d], op[d], sid[d]>>
  PROVE  Agrees(s)'
<1>1. pc[c] \in HoldsLock \ {"input"} /\ sid[c] = s
  BY DEF WillSetRow, HoldsLock, Op
<1>2. InMemory(s) /\ InMemory(s)'
  <2>1. tr[c] # NoTransport /\ WorksOn(c)
    BY <1>1 DEF LockDiscipline, WorksOn, HasTransport, HoldsLock, Op
  <2>2. InMemory(s)
    BY <1>1, <2>1, SettledEntry
  <2> QED
    BY <2>2 DEF InMemory
<1>3. \A d \in Conn, x \in Status : ~WillSetRow(d, s, x)'
  <2>1. SUFFICES ASSUME NEW d \in Conn, NEW x \in Status, WillSetRow(d, s, x)' PROVE FALSE
    OBVIOUS
  <2>2. d # c
    BY <2>1 DEF WillSetRow
  <2>3. WillSetRow(d, s, x)
    BY <2>1, <2>2 DEF WillSetRow
  <2> QED
    BY <1>1, <2>2, <2>3, OneOutcome
<1>4. ASSUME \A d \in Conn : ~WillSetStatus(d, s)' PROVE status'[s] = rows'[s]
  <2>1. \A d \in Conn : ~WillSetStatus(d, s)
    BY <1>4 DEF WillSetStatus, WillSetRow
  <2>2. PICK d \in Conn : WillSetRow(d, s, status[s])
    BY <1>2, <2>1 DEF Agrees
  <2>3. d = c
    BY <1>1, <2>2, OneOutcome
  <2> QED
    BY <2>2, <2>3 DEF WillSetRow
<1> QED
  BY <1>2, <1>3, <1>4 DEF Agrees

(* Every step keeps memory and database agreed, or on the way to agree.    *)
LEMMA AgreementStep ==
  ASSUME Base, Retained, Agreement, ~DbMayFail, [Next]_vars
  PROVE  Agreement'
<1> USE DEF Base
<1>r. CASE Restart
  BY <1>r DEF Restart, Agreement, Agrees, InMemory, NoRows
<1> SUFFICES ASSUME ~Restart, NEW s \in SessionId, Settled(s)'
             PROVE  Agrees(s)'
  BY <1>r DEF Agreement
<1>c. CASE \E c \in Conn : Create(c, s)
  <2>1. PICK c \in Conn : Create(c, s)
    BY <1>c
  <2>2. ~InMemory(s) /\ \A d \in Conn : fetched[d][s] = "none"
    <3>1. s \notin issued
      BY <2>1 DEF Create
    <3>2. InMemory(s) => transport[s] \in TransportId /\ owner[transport[s]] # NoSession
      BY NullAssumption DEF EntryShape, Ownership, InMemory, TypeOK
    <3>3. InMemory(s) => s \in issued
      BY <3>2 DEF Ownership, Issued
    <3> QED
      BY <3>1, <3>3 DEF Issued
  <2>3. rows'[s] = "created"
    BY <2>1 DEF Create, TypeOK
  <2>4. ~InMemory(s)' /\ fetched' = fetched
    BY <2>1, <2>2 DEF Create, InMemory
  <2> QED
    BY <2>2, <2>3, <2>4 DEF Agrees
<1> SUFFICES ASSUME \A c \in Conn : ~Create(c, s)
             PROVE  Agrees(s)'
  BY <1>c
<1>s. Settled(s) /\ Agrees(s)
  BY SettledBefore DEF Agreement
<1>1. ASSUME NEW c \in Conn, Open(c) \/ ListSessions(c) \/ LoadDone(c) \/ Close(c) \/ CleanupDone(c)
      PROVE  Agrees(s)'
  <2>1. /\ pc[c] \in {"closed", "idle", "load_row", "cleanup"} /\ UNCHANGED <<status, rows, sid, op, fetched>>
        /\ pc'[c] \in {"load", "idle", "cleanup", "closed"} /\ \A d \in Conn \ {c} : pc'[d] = pc[d]
    BY <1>1
       DEF Open, ListSessions, LoadDone, Close, LeaveWebSocket, LeaveWebTransport, CleanupDone, Goto, TypeOK
  <2> QED
    BY <1>s, <2>1, AgreesQuietly DEF WillSetStatus
<1>2. ASSUME NEW c \in Conn, LoadFetch(c) PROVE Agrees(s)'
  <2>1. /\ pc[c] = "load" /\ UNCHANGED <<status, rows, sid, op>>
        /\ pc'[c] \in {"load_row", "idle", "cleanup"} /\ \A d \in Conn \ {c} : pc'[d] = pc[d]
        /\ \A d \in Conn : fetched'[d] \in {fetched[d], rows}
    BY <1>2 DEF LoadFetch, Goto, TypeOK
  <2>2. CASE InMemory(s)
    BY <1>s, <2>1, <2>2 DEF Agrees, InMemory, WillSetStatus, WillSetRow
  <2>3. CASE ~InMemory(s)
    BY <1>s, <2>1, <2>3 DEF Agrees, InMemory, StatusOfRow
  <2> QED
    BY <2>2, <2>3
<1>3. ASSUME NEW c \in Conn, NEW x \in SessionId, LoadListed(c, x) \/ LoadAbsent(c, x)
      PROVE  Agrees(s)'
  <2>1. /\ pc[c] = "load_row" /\ UNCHANGED <<status, rows, op>>
        /\ pc'[c] \in {"load_row", "load_put"} /\ \A d \in Conn \ {c} : pc'[d] = pc[d] /\ sid'[d] = sid[d]
        /\ \A d \in Conn : fetched'[d][s] \in {fetched[d][s], "none"}
    <3>1. CASE LoadListed(c, x)
      BY <3>1 DEF LoadListed, TypeOK
    <3>2. CASE LoadAbsent(c, x)
      BY <3>2 DEF LoadAbsent, Goto, TypeOK
    <3> QED
      BY <1>3, <3>1, <3>2
  <2> QED
    BY <1>s, <2>1, AgreesQuietly DEF WillSetStatus
<1>4. ASSUME NEW c \in Conn, LoadPut(c) \/ CreatePut(c) PROVE Agrees(s)'
  <2>1. /\ sid[c] \in SessionId /\ pc[c] \in {"load_put", "create_put"} /\ rows' = rows /\ op'[c] \in {op[c], "none"}
        /\ pc'[c] \in {"load_row", "idle", "cleanup"} /\ sid'[c] = NoSession
        /\ \A d \in Conn \ {c} : UNCHANGED <<pc[d], op[d], sid[d]>>
        /\ \A d \in Conn : fetched'[d][s] \in {fetched[d][s], "none"}
    <3>1. CASE LoadPut(c)
      BY <3>1 DEF LoadPut, Suspended, Return, Goto, TypeOK
    <3>2. CASE CreatePut(c)
      BY <3>2 DEF CreatePut, Suspended, Return, Goto, TypeOK
    <3> QED
      BY <1>4, <3>1, <3>2
  <2>2. CASE sid[c] # s
    <3>1. status'[s] = status[s]
      BY <1>4, <2>1, <2>2 DEF LoadPut, CreatePut, InsertEntry, TypeOK
    <3> QED
      BY <1>s, <2>1, <2>2, <3>1, AgreesElsewhere, NullAssumption
  <2>3. CASE sid[c] = s
    <3>1. ~InMemory(s)
      BY <1>4, <2>3 DEF LoadPut, CreatePut, InsertEntry, Settled
    <3>2. status'[s] = rows[s]
      <4>1. CASE LoadPut(c)
        <5>1. fetched[c][s] # "none" /\ status'[s] = StatusOfRow(fetched[c][s])
          BY <2>1, <2>3, <4>1 DEF LoadPut, InsertEntry, Suspended, TypeOK
        <5> QED
          BY <1>s, <3>1, <5>1 DEF Agrees
      <4>2. CASE CreatePut(c)
        BY <1>s, <2>1, <2>3, <3>1, <4>2 DEF CreatePut, InsertEntry, Agrees, TypeOK
      <4> QED
        BY <1>4, <4>1, <4>2
    <3>3. ASSUME NEW d \in Conn, NEW st, WillSetRow(d, s, st)' PROVE FALSE
      <4>1. d # c /\ WillSetRow(d, s, st)
        BY <2>1, <3>3, NullAssumption DEF WillSetRow
      <4>2. WorksOn(d) /\ tr[d] # NoTransport /\ sid[d] = s
        BY <4>1 DEF WillSetRow, WorksOn, HasTransport, HoldsLock, Suspended
      <4> QED
        BY <1>s, <3>1, <4>2, SettledEntry
    <3>4. InMemory(s)'
      BY <2>1, <3>2 DEF InMemory, Settled
    <3> QED
      BY <2>1, <3>2, <3>3, <3>4 DEF Agrees
  <2> QED
    BY <2>2, <2>3
<1>5. ASSUME NEW c \in Conn, NEW x \in SessionId, Create(c, x) PROVE Agrees(s)'
  <2>1. x # s /\ pc[c] = "idle" /\ sid' = [sid EXCEPT ![c] = x] /\ UNCHANGED <<op, fetched, status>>
    BY <1>5 DEF Create
  <2>2. \A d \in Conn \ {c} : pc'[d] = pc[d]
    BY <1>5 DEF Create, Goto, TypeOK
  <2>3. rows'[s] = rows[s]
    BY <1>5, <2>1 DEF Create, TypeOK
  <2> QED
    BY <1>s, <2>1, <2>2, <2>3, AgreesElsewhere DEF TypeOK
<1>6. ASSUME NEW c \in Conn, NEW x \in SessionId, Connect(c, x) PROVE Agrees(s)'
  <2>1. /\ pc[c] = "idle" /\ InMemory(x) /\ pc'[c] = "connect_db" /\ sid'[c] = x
        /\ UNCHANGED <<rows, op, fetched>> /\ status' = [status EXCEPT ![x] = "connecting"]
        /\ \A d \in Conn \ {c} : pc'[d] = pc[d] /\ sid'[d] = sid[d]
    BY <1>6 DEF Connect, SetStatus, Goto, TypeOK
  <2>2. CASE x # s
    BY <1>s, <2>1, <2>2, AgreesElsewhere DEF TypeOK
  <2>3. CASE x = s
    BY <2>1, <2>3 DEF Agrees, WillSetStatus, InMemory, TypeOK
  <2> QED
    BY <2>2, <2>3
<1>7. ASSUME NEW c \in Conn, ConnectDb(c) PROVE Agrees(s)'
  <2>1. /\ pc[c] = "connect_db" /\ pc'[c] = "lock" /\ op'[c] = "connect" /\ UNCHANGED <<sid, status, fetched>>
        /\ \A d \in Conn \ {c} : pc'[d] = pc[d] /\ op'[d] = op[d]
        /\ tr[c] # NoTransport /\ WorksOn(c)
    BY <1>7 DEF ConnectDb, AwaitLock, Goto, TypeOK, Suspended, WorksOn, HasTransport
  <2>2. CASE sid[c] # s
    <3>1. rows'[s] = rows[s]
      BY <1>7, <2>2 DEF ConnectDb, UpdateRow, TypeOK
    <3> QED
      BY <1>s, <2>1, <2>2, <3>1, AgreesElsewhere
  <2>3. CASE sid[c] = s
    <3>1. InMemory(s)
      BY <1>s, <2>1, <2>3, SettledEntry
    <3> QED
      BY <2>1, <2>3, <3>1 DEF Agrees, WillSetStatus, InMemory
  <2> QED
    BY <2>2, <2>3
<1>8. ASSUME NEW c \in Conn, Lock(c) PROVE Agrees(s)'
  <2>1. /\ pc[c] = "lock" /\ op[c] \in Op /\ pc'[c] = op[c] /\ UNCHANGED <<status, rows, sid, op, fetched>>
        /\ \A d \in Conn \ {c} : pc'[d] = pc[d]
    BY <1>8 DEF Lock, Goto, Suspended, TypeOK
  <2>2. WillSetStatus(c, s) => WillSetStatus(c, s)'
    BY <2>1 DEF WillSetStatus
  <2>3. pc'[c] \notin {"connected_db", "error_db", "disconnected_db", "create_put"}
    BY <2>1 DEF Op
  <2> QED
    BY <1>s, <2>1, <2>2, <2>3, AgreesQuietly
<1>9. ASSUME NEW c \in Conn, ConnectClose(c) \/ ConnectOk(c) \/ DisconnectTransport(c) \/ DeleteTransport(c)
      PROVE  Agrees(s)'
  <2>1. /\ UNCHANGED <<status, rows, sid, op, fetched>> /\ \A d \in Conn \ {c} : pc'[d] = pc[d]
        /\ \/ pc[c] \in {"connect", "attached"} /\ pc'[c] \in {"attached", "list"}
           \/ pc[c] = "disconnect" /\ pc'[c] = "disconnect_map"
           \/ pc[c] = "delete" /\ pc'[c] = "delete_db"
    BY <1>9 DEF ConnectClose, ConnectOk, Connected, DisconnectTransport, DeleteTransport, Goto, TypeOK
  <2>2. WillSetStatus(c, s) => WillSetStatus(c, s)'
    BY <2>1 DEF WillSetStatus
  <2> QED
    BY <1>s, <2>1, <2>2, AgreesQuietly
<1>10. ASSUME NEW c \in Conn, ConnectFail(c) \/ ConnectPublish(c) \/ DisconnectMap(c) PROVE Agrees(s)'
  <2>1. /\ UNCHANGED <<rows, sid, op, fetched>> /\ \A d \in Conn \ {c} : pc'[d] = pc[d]
        /\ pc[c] \in HoldsLock \ {"input"} /\ sid[c] \in SessionId
    BY <1>10
       DEF ConnectFail, ConnectPublish, DisconnectMap, Goto, TypeOK, Suspended, HasTransport,
           HoldsLock, Op
  <2>2. PICK st \in Status : SetStatus(sid[c], st) /\ WillSetRow(c, sid[c], st)'
    BY <1>10, <2>1 DEF ConnectFail, ConnectPublish, DisconnectMap, Status, WillSetRow, Goto, TypeOK
  <2>3. CASE sid[c] = s
    BY <1>s, <2>1, <2>2, <2>3, OutcomeSet
  <2>4. CASE sid[c] # s
    <3>1. status'[s] = status[s]
      BY <2>2, <2>4 DEF SetStatus, TypeOK
    <3> QED
      BY <1>s, <2>1, <2>4, <3>1, AgreesElsewhere
  <2> QED
    BY <2>3, <2>4
<1>11. ASSUME NEW c \in Conn, ConnectedDb(c) \/ ErrorDb(c) \/ DisconnectedDb(c) PROVE Agrees(s)'
  <2>1. /\ UNCHANGED <<status, fetched>> /\ pc'[c] \in {"idle", "cleanup"} /\ sid'[c] = NoSession
        /\ \A d \in Conn \ {c} : UNCHANGED <<pc[d], op[d], sid[d]>>
    BY <1>11 DEF ConnectedDb, ErrorDb, DisconnectedDb, ReturnUnlocking, Return, Goto, TypeOK
  <2>2. PICK st \in Status : WillSetRow(c, sid[c], st) /\ UpdateRow(sid[c], st)
    BY <1>11 DEF ConnectedDb, ErrorDb, DisconnectedDb, WillSetRow, Status
  <2>3. CASE sid[c] = s
    <3>1. rows'[s] = st
      BY <1>s, <2>2, <2>3 DEF UpdateRow, Settled, TypeOK
    <3> QED
      BY <1>s, <2>1, <2>2, <2>3, <3>1, OutcomeWritten
  <2>4. CASE sid[c] # s
    <3>1. rows'[s] = rows[s]
      BY <2>2, <2>4 DEF UpdateRow, TypeOK
    <3> QED
      BY <1>s, <2>1, <2>4, <3>1, AgreesElsewhere, NullAssumption
  <2> QED
    BY <2>3, <2>4
<1>12. ASSUME NEW c \in Conn, DeleteDb(c) PROVE Agrees(s)'
  <2>1. /\ UNCHANGED <<status, fetched>> /\ sid'[c] = NoSession /\ pc[c] = "delete_db"
        /\ \A d \in Conn \ {c} : UNCHANGED <<pc[d], op[d], sid[d]>>
    BY <1>12 DEF DeleteDb, ReturnUnlocking, Return, Goto, TypeOK
  <2>2. sid[c] # s
    BY <1>s, <2>1 DEF Settled, Deletes
  <2>3. rows'[s] = rows[s]
    BY <1>12, <2>2 DEF DeleteDb, TypeOK
  <2> QED
    BY <1>s, <2>1, <2>2, <2>3, AgreesElsewhere, NullAssumption
<1>13. ASSUME NEW c \in Conn, NEW x \in SessionId, Delete(c, x) PROVE Agrees(s)'
  <2>1. /\ pc[c] = "idle" /\ pc'[c] \in {"idle", "lock"} /\ UNCHANGED <<rows, fetched>>
        /\ \A d \in Conn \ {c} : UNCHANGED <<pc[d], op[d], sid[d]>>
    BY <1>13 DEF Delete, AwaitLock, Goto, TypeOK
  <2>2. ~(x = s /\ InMemory(s))
    <3>1. InMemory(x) => Deletes(c, x)'
      BY <1>13 DEF Delete, AwaitLock, Goto, Deletes, TypeOK
    <3> QED
      BY <3>1 DEF Settled
  <2>3. status'[s] = status[s]
    BY <1>13, <2>2 DEF Delete, InMemory, TypeOK
  <2> QED
    BY <1>s, <2>1, <2>3, AgreesQuietly DEF WillSetStatus
<1>14. ASSUME NEW c \in Conn, NEW x \in SessionId,
              \/ Disconnect(c, x) \/ CleanupDisconnect(c, x) \/ Refresh(c, x)
              \/ \E p \in Pane : Input(c, x, p)
       PROVE  Agrees(s)'
  <2>1. /\ pc[c] \in {"idle", "cleanup"} /\ pc'[c] \in {"idle", "cleanup", "lock"}
        /\ UNCHANGED <<status, rows, fetched>>
        /\ \A d \in Conn \ {c} : UNCHANGED <<pc[d], op[d], sid[d]>>
    BY <1>14 DEF Disconnect, CleanupDisconnect, BeginDisconnect, Refresh, Input, AwaitLock, Goto, TypeOK
  <2> QED
    BY <1>s, <2>1, AgreesQuietly DEF WillSetStatus
<1>15. ASSUME NEW c \in Conn, RefreshTransport(c) \/ InputTransport(c) PROVE Agrees(s)'
  <2>1. /\ pc[c] \in {"refresh", "input"} /\ pc'[c] \in {"idle", "cleanup"}
        /\ UNCHANGED <<status, rows, fetched>>
        /\ \A d \in Conn \ {c} : UNCHANGED <<pc[d], op[d], sid[d]>>
    BY <1>15 DEF RefreshTransport, InputTransport, ReturnUnlocking, Return, Goto, TypeOK
  <2> QED
    BY <1>s, <2>1, AgreesQuietly DEF WillSetStatus
<1>16. ASSUME \/ \E t \in TransportId : DropTransport(t) \/ LinkEnds(t)
              \/ UNCHANGED vars
       PROVE  Agrees(s)'
  <2>1. UNCHANGED <<status, rows, pc, op, sid, fetched>>
    BY <1>16 DEF DropTransport, LinkEnds, vars
  <2> QED
    BY <1>s, <2>1 DEF Agrees, WillSetStatus, WillSetRow, InMemory
<1> QED
  BY <1>1, <1>2, <1>3, <1>4, <1>5, <1>6, <1>7, <1>8, <1>9, <1>10, <1>11, <1>12, <1>13, <1>14, <1>15, <1>16
     DEF Next, Advance, Client

(* What is shown as connected has a connection, or a request that holds    *)
(* the mutex and has closed it.                                            *)
Held(s) ==
  status[s] = "connected" =>
    \/ link[transport[s]] # "none"
    \/ \E c \in Conn : tr[c] = transport[s] /\ pc[c] \in {"attached", "disconnect_map"}

(* A step that does not touch the connection of s, nor the request that    *)
(* has closed it.                                                          *)
LEMMA HeldFrame ==
  ASSUME NEW s \in SessionId, Held(s),
         status'[s] = "connected" =>
           /\ status[s] = "connected"
           /\ transport'[s] = transport[s]
           /\ link[transport[s]] # "none" => link'[transport[s]] # "none"
           /\ \A d \in Conn : tr[d] = transport[s] /\ pc[d] \in {"attached", "disconnect_map"} =>
                tr'[d] = tr[d] /\ pc'[d] = pc[d]
  PROVE  Held(s)'
<1>1. SUFFICES ASSUME status'[s] = "connected"
               PROVE  \/ link'[transport'[s]] # "none"
                      \/ \E c \in Conn : tr'[c] = transport'[s] /\ pc'[c] \in {"attached", "disconnect_map"}
  BY DEF Held
<1>2. CASE link[transport[s]] # "none"
  BY <1>1, <1>2
<1>3. ASSUME NEW c \in Conn, tr[c] = transport[s], pc[c] \in {"attached", "disconnect_map"}
      PROVE  tr'[c] = transport'[s] /\ pc'[c] \in {"attached", "disconnect_map"}
  BY <1>1, <1>3
<1> QED
  BY <1>1, <1>2, <1>3 DEF Held

(* Every step keeps the connections of the sessions shown as connected, or *)
(* leaves them to the request that closes them under the mutex.            *)
LEMMA HeldStep ==
  ASSUME Base, Retained, ConnectedEntryIsHeld, ~DbMayFail, [Next]_vars
  PROVE  ConnectedEntryIsHeld'
<1> USE DEF Base
<1>r. CASE Restart
  BY <1>r DEF Restart, ConnectedEntryIsHeld
<1> SUFFICES ASSUME ~Restart, NEW s \in SessionId, Settled(s)'
             PROVE  Held(s)'
  BY <1>r DEF ConnectedEntryIsHeld, Held
<1>c. CASE \E c \in Conn : Create(c, s)
  <2>1. PICK c \in Conn : Create(c, s)
    BY <1>c
  <2>2. UNCHANGED <<status, transport>> /\ s \notin issued
    BY <2>1 DEF Create
  <2>3. InMemory(s) => transport[s] \in TransportId /\ owner[transport[s]] = s
    BY DEF EntryShape, Ownership, InMemory, TypeOK
  <2>4. ~InMemory(s)
    BY <2>2, <2>3, NullAssumption DEF Issued
  <2> QED
    BY <2>2, <2>4 DEF InMemory, Held
<1> SUFFICES ASSUME \A c \in Conn : ~Create(c, s)
             PROVE  Held(s)'
  BY <1>c
<1>s. Settled(s) /\ Held(s)
  BY SettledBefore DEF ConnectedEntryIsHeld, Held
<1>t. status[s] = "connected" => transport[s] \in TransportId /\ owner[transport[s]] = s
  BY DEF EntryShape, Ownership, InMemory, TypeOK
<1>1. ASSUME NEW c \in Conn, LoadPut(c) \/ CreatePut(c) PROVE Held(s)'
  <2>1. PICK st \in Status \cup {"none"} : st # "connected" /\ InsertEntry(sid[c], st)
    <3>1. CASE LoadPut(c)
      <4>1. fetched[c][sid[c]] \in Status \cup {"none"} /\ sid[c] \in SessionId
        BY <3>1 DEF LoadPut, Suspended, TypeOK
      <4>2. /\ StatusOfRow(fetched[c][sid[c]]) \in Status \cup {"none"}
            /\ StatusOfRow(fetched[c][sid[c]]) # "connected"
        BY <4>1 DEF StatusOfRow, Status
      <4> QED
        BY <3>1, <4>2 DEF LoadPut
    <3>2. CASE CreatePut(c)
      BY <3>2 DEF CreatePut, Status
    <3> QED
      BY <1>1, <3>1, <3>2
  <2>2. link' = link /\ sid[c] \in SessionId /\ pc[c] \in {"load_put", "create_put"}
    BY <1>1, <2>1 DEF LoadPut, CreatePut, Suspended, InsertEntry
  <2>3. CASE sid[c] = s
    BY <2>1, <2>3 DEF InsertEntry, TypeOK, Held
  <2>4. CASE sid[c] # s
    <3>1. status'[s] = status[s] /\ transport'[s] = transport[s]
      BY <2>1, <2>2, <2>4 DEF InsertEntry, TypeOK
    <3>2. \A d \in Conn \ {c} : tr'[d] = tr[d] /\ pc'[d] = pc[d]
      BY <1>1 DEF LoadPut, CreatePut, Return, Goto, TypeOK
    <3> QED
      BY <1>s, <2>2, <3>1, <3>2, HeldFrame
  <2> QED
    BY <2>3, <2>4
<1>2. ASSUME NEW c \in Conn, NEW x \in SessionId, Connect(c, x) PROVE Held(s)'
  <2>1. /\ UNCHANGED <<transport, link>> /\ status' = [status EXCEPT ![x] = "connecting"] /\ pc[c] = "idle"
        /\ \A d \in Conn \ {c} : tr'[d] = tr[d] /\ pc'[d] = pc[d]
    BY <1>2 DEF Connect, SetStatus, Goto, TypeOK
  <2>2. status'[s] = "connected" => status[s] = "connected"
    BY <2>1 DEF TypeOK
  <2> QED
    BY <1>s, <2>1, <2>2, HeldFrame
<1>3. ASSUME NEW c \in Conn, ConnectClose(c) \/ DisconnectTransport(c) PROVE Held(s)'
  <2>1. /\ UNCHANGED <<status, transport, tr>> /\ link' = [link EXCEPT ![tr[c]] = "none"]
        /\ pc'[c] \in {"attached", "disconnect_map"} /\ \A d \in Conn \ {c} : pc'[d] = pc[d]
        /\ pc[c] \notin {"attached", "disconnect_map"}
    BY <1>3 DEF ConnectClose, DisconnectTransport, Goto, TypeOK
  <2>2. CASE tr[c] = transport[s]
    BY <2>1, <2>2 DEF Held
  <2>3. CASE tr[c] # transport[s]
    <3>1. status[s] = "connected" => link'[transport[s]] = link[transport[s]]
      BY <1>t, <2>1, <2>3 DEF TypeOK
    <3> QED
      BY <1>s, <2>1, <3>1, HeldFrame
  <2> QED
    BY <2>2, <2>3
<1>4. ASSUME NEW c \in Conn, ConnectOk(c) PROVE Held(s)'
  <2>1. /\ UNCHANGED <<status, transport, tr>> /\ link' = [link EXCEPT ![tr[c]] = "up"]
        /\ \A d \in Conn \ {c} : pc'[d] = pc[d]
    BY <1>4 DEF ConnectOk, Connected, Goto, TypeOK
  <2>2. CASE tr[c] = transport[s]
    BY <1>t, <2>1, <2>2 DEF Held, TypeOK
  <2>3. CASE tr[c] # transport[s]
    <3>1. status[s] = "connected" => link'[transport[s]] = link[transport[s]]
      BY <1>t, <2>1, <2>3 DEF TypeOK
    <3> QED
      BY <1>s, <2>1, <2>3, <3>1, HeldFrame
  <2> QED
    BY <2>2, <2>3
<1>5. ASSUME NEW c \in Conn, ConnectFail(c) PROVE Held(s)'
  <2>1. /\ UNCHANGED <<transport, tr>> /\ (status'[s] = "connected" => status[s] = "connected")
        /\ pc[c] = "connect" /\ \A d \in Conn \ {c} : pc'[d] = pc[d]
    BY <1>5 DEF ConnectFail, SetStatus, Goto, TypeOK
  <2>2. \A t \in TransportId : link[t] # "none" => link'[t] # "none"
    BY <1>5 DEF ConnectFail, TransportError, TypeOK
  <2> QED
    BY <1>s, <1>t, <2>1, <2>2, HeldFrame
<1>6. ASSUME NEW c \in Conn, ConnectPublish(c) PROVE Held(s)'
  <2>1. /\ UNCHANGED <<transport, link, tr>> /\ pc[c] = "list" /\ \A d \in Conn \ {c} : pc'[d] = pc[d]
    BY <1>6 DEF ConnectPublish, Goto, TypeOK
  <2>2. CASE sid[c] = s
    <3>1. WorksOn(c) /\ tr[c] # NoTransport /\ link[tr[c]] # "none"
      BY <2>1 DEF WorksOn, HasTransport, HoldsLock, LockDiscipline, UpWhilePublishing
    <3>2. transport[s] = tr[c]
      BY <1>s, <2>2, <3>1, SettledEntry
    <3> QED
      BY <2>1, <3>1, <3>2 DEF Held
  <2>3. CASE sid[c] # s
    <3>1. status'[s] = status[s]
      BY <1>6, <2>3 DEF ConnectPublish, SetStatus, TypeOK
    <3> QED
      BY <1>s, <2>1, <3>1, HeldFrame
  <2> QED
    BY <2>2, <2>3
<1>7. ASSUME NEW c \in Conn, DisconnectMap(c) PROVE Held(s)'
  <2>1. /\ UNCHANGED <<transport, link, tr>> /\ pc[c] = "disconnect_map" /\ \A d \in Conn \ {c} : pc'[d] = pc[d]
        /\ SetStatus(sid[c], "disconnected")
    BY <1>7 DEF DisconnectMap, Goto, TypeOK
  <2>2. CASE sid[c] = s
    <3>1. status'[s] # "connected"
      BY <2>1, <2>2 DEF SetStatus, InMemory, TypeOK
    <3> QED
      BY <3>1 DEF Held
  <2>3. CASE sid[c] # s
    <3>1. status'[s] = status[s]
      BY <2>1, <2>3 DEF SetStatus, TypeOK
    <3>2. status[s] = "connected" => transport[s] # tr[c]
      BY <1>t, <2>1, <2>3 DEF Ownership, WorksOn, HasTransport, HoldsLock
    <3> QED
      BY <1>s, <2>1, <3>1, <3>2, HeldFrame
  <2> QED
    BY <2>2, <2>3
<1>8. ASSUME NEW c \in Conn, DeleteTransport(c) PROVE Held(s)'
  <2>1. /\ UNCHANGED <<status, transport, tr>> /\ link' = [link EXCEPT ![tr[c]] = "none"]
        /\ pc[c] = "delete" /\ \A d \in Conn \ {c} : pc'[d] = pc[d]
    BY <1>8 DEF DeleteTransport, Goto, TypeOK
  <2>2. sid[c] # s
    BY <1>s, <2>1 DEF Settled, Deletes
  <2>3. status[s] = "connected" => transport[s] # tr[c]
    BY <1>t, <2>1, <2>2 DEF Ownership, WorksOn, HasTransport, HoldsLock, Op
  <2>4. status[s] = "connected" => link'[transport[s]] = link[transport[s]]
    BY <1>t, <2>1, <2>3 DEF TypeOK
  <2> QED
    BY <1>s, <2>1, <2>4, HeldFrame
<1>9. ASSUME NEW c \in Conn, NEW x \in SessionId, Delete(c, x) PROVE Held(s)'
  <2>1. /\ pc[c] = "idle" /\ UNCHANGED link
        /\ status' = [status EXCEPT ![x] = "none"] /\ transport' = [transport EXCEPT ![x] = NoTransport]
        /\ \A d \in Conn \ {c} : tr'[d] = tr[d] /\ pc'[d] = pc[d]
    BY <1>9 DEF Delete, AwaitLock, Goto, TypeOK
  <2>2. status'[s] = "connected" => status[s] = "connected" /\ transport'[s] = transport[s]
    BY <2>1 DEF TypeOK
  <2> QED
    BY <1>s, <2>1, <2>2, HeldFrame
<1>10. ASSUME NEW t \in TransportId, DropTransport(t) \/ LinkEnds(t) PROVE Held(s)'
  <2>1. UNCHANGED <<status, transport, tr, pc>>
    BY <1>10 DEF DropTransport, LinkEnds
  <2>2. link[transport[s]] # "none" /\ status[s] = "connected" => link'[transport[s]] # "none"
    BY <1>t, <1>10 DEF DropTransport, LinkEnds, Referenced, TypeOK
  <2> QED
    BY <1>s, <2>1, <2>2, HeldFrame
<1>11. ASSUME NEW c \in Conn,
             \/ Open(c) \/ ListSessions(c) \/ Close(c) \/ LoadFetch(c) \/ LoadDone(c) \/ CleanupDone(c)
             \/ \E x \in SessionId : LoadListed(c, x) \/ LoadAbsent(c, x) \/ Create(c, x)
      PROVE  Held(s)'
  <2>1. /\ UNCHANGED <<status, transport, link, tr>> /\ pc[c] \notin {"attached", "disconnect_map"}
        /\ \A d \in Conn \ {c} : pc'[d] = pc[d]
    BY <1>11
       DEF Open, ListSessions, Close, LeaveWebSocket, LeaveWebTransport, LoadFetch, LoadDone, CleanupDone,
           LoadListed, LoadAbsent, Create, Goto, TypeOK
  <2> QED
    BY <1>s, <2>1, HeldFrame
<1>12. ASSUME NEW c \in Conn,
             \/ ConnectDb(c) \/ Lock(c) \/ ConnectedDb(c) \/ ErrorDb(c) \/ DisconnectedDb(c)
             \/ DeleteDb(c) \/ RefreshTransport(c) \/ InputTransport(c)
             \/ \E x \in SessionId :
                  \/ Disconnect(c, x) \/ CleanupDisconnect(c, x) \/ Refresh(c, x)
                  \/ \E p \in Pane : Input(c, x, p)
       PROVE  Held(s)'
  <2>1. UNCHANGED <<status, transport, link>> /\ pc[c] \notin {"attached", "disconnect_map"}
    BY <1>12
       DEF ConnectDb, Lock, ConnectedDb, ErrorDb, DisconnectedDb, DeleteDb, RefreshTransport,
           InputTransport, Disconnect, CleanupDisconnect, BeginDisconnect, Refresh, Input
  <2>2. \A d \in Conn \ {c} : tr'[d] = tr[d] /\ pc'[d] = pc[d]
    <3>1. CASE \/ ConnectDb(c) \/ Lock(c)
               \/ \E x \in SessionId :
                    \/ Disconnect(c, x) \/ CleanupDisconnect(c, x) \/ Refresh(c, x)
                    \/ \E p \in Pane : Input(c, x, p)
      BY <3>1
         DEF ConnectDb, Lock, Disconnect, CleanupDisconnect, BeginDisconnect, Refresh, Input, AwaitLock,
             Goto, TypeOK
    <3>2. CASE \/ ConnectedDb(c) \/ ErrorDb(c) \/ DisconnectedDb(c) \/ DeleteDb(c)
               \/ RefreshTransport(c) \/ InputTransport(c)
      BY <3>2
         DEF ConnectedDb, ErrorDb, DisconnectedDb, DeleteDb, RefreshTransport, InputTransport,
             ReturnUnlocking, Return, Goto, TypeOK
    <3> QED
      BY <1>12, <3>1, <3>2
  <2> QED
    BY <1>s, <2>1, <2>2, HeldFrame
<1>13. CASE UNCHANGED vars
  BY <1>s, <1>13, HeldFrame DEF vars
<1> QED
  BY <1>1, <1>2, <1>3, <1>4, <1>5, <1>6, <1>7, <1>8, <1>9, <1>10, <1>11, <1>12, <1>13
     DEF Next, Advance, Client

(* While no statement fails, whatever any number of tabs do at once:       *)
(* transports are retained, outcomes agree, and what is connected is held. *)
LEMMA StatusInvariant ==
  ASSUME ~DbMayFail
  PROVE  Spec => [](Base /\ Agreement /\ ConnectedEntryIsHeld)
<1> DEFINE Inv == Base /\ Retained /\ Agreement /\ ConnectedEntryIsHeld
<1>1. Init => Inv
  <2>1. Init => Retained /\ ConnectedEntryIsHeld
    BY NullAssumption DEF Init, Retained, ConnectedEntryIsHeld
  <2>2. Init => Agreement
    BY DEF Init, Agreement, Agrees, InMemory, NoRows, StatusOfRow
  <2> QED
    BY <2>1, <2>2, InitBase
<1>2. Inv /\ [Next]_vars => Inv'
  <2>1. SUFFICES ASSUME Base, Retained, Agreement, ConnectedEntryIsHeld, [Next]_vars
                 PROVE  Base' /\ Retained' /\ Agreement' /\ ConnectedEntryIsHeld'
    OBVIOUS
  <2>2. Retained'
    BY <2>1, RetainedStep DEF Base
  <2> QED
    BY <2>1, <2>2, BaseStep, AgreementStep, HeldStep
<1> QED
  BY <1>1, <1>2, PTL DEF Spec

(* "connecting" is written before the mutex is taken and the outcome under *)
(* it, first into the map and then into the row; when nothing works on a   *)
(* session the two agree, for any number of tabs.                          *)
THEOREM StatusesAgree ==
  ASSUME ~DbMayFail
  PROVE  Spec => []StatusAgreement
<1>1. Agreement => StatusAgreement
  BY DEF Agreement, StatusAgreement, Agrees, Quiescent, WillSetStatus, WillSetRow
<1> QED
  BY <1>1, StatusInvariant, PTL

(* What sess_list shows as connected has a connection that the server has  *)
(* not closed (it may have ended by itself), or a request that closed it   *)
(* under the mutex and has yet to open the next or to say so: in every     *)
(* state of every request of any number of tabs.                           *)
THEOREM ConnectedEntries ==
  ASSUME ~DbMayFail
  PROVE  Spec => []ConnectedEntryIsHeld
BY StatusInvariant, PTL

-----------------------------------------------------------------------------
(* Connections.                                                            *)

(* A step of one request that takes nothing from a delete, and waits to    *)
(* connect only if it did or has just taken the transport of an entry.     *)
LEMMA TransportsHeldMove ==
  ASSUME Base, TransportsHeld, NEW c \in Conn, UNCHANGED <<transport, owner, history>>,
         \A d \in Conn \ {c} : UNCHANGED <<pc[d], op[d], tr[d]>>,
         \A t \in TransportId : link'[t] # "none" => link[t] # "none" \/ WillConnect(c, t),
         ClosedByDelete(c) => ClosedByDelete(c)' /\ tr'[c] = tr[c],
         ClosedByDelete(c)' => ClosedByDelete(c),
         pc'[c] # "delete_db",
         \A t \in TransportId :
           /\ WillConnect(c, t)' => WillConnect(c, t) \/ transport[owner[t]] = t
           /\ WaitsToConnect(c, t)' => WaitsToConnect(c, t) \/ transport[owner[t]] = t
  PROVE  TransportsHeld'
<1>1. /\ \A d \in Conn : ClosedByDelete(d)' = ClosedByDelete(d)
      /\ \A d \in Conn : ClosedByDelete(d) \/ (pc'[d] = "delete_db" /\ pc[d] = "delete_db") \/ d = c \/ pc'[d] = pc[d]
      /\ \A d \in Conn : ClosedByDelete(d) => tr'[d] = tr[d]
  BY DEF ClosedByDelete
<1>2. NoConnectionLeaks'
  BY DEF TransportsHeld, NoConnectionLeaks
<1>3. ASSUME NEW d \in Conn, ClosedByDelete(d)' \/ pc'[d] = "delete_db", NEW s \in SessionId
      PROVE  transport'[s] # tr'[d]
  BY <1>1, <1>3 DEF TransportsHeld
<1>4. ASSUME NEW t \in TransportId, owner'[t] # NoSession, owner'[t] \notin replaced' \cup overtaken'
      PROVE  /\ link'[t] # "none" \/ (\E d \in Conn : WillConnect(d, t)') => Reachable(t)'
             /\ \A d, e \in Conn : tr'[d] = t /\ ClosedByDelete(d)' => ~WaitsToConnect(e, t)'
  <2>1. owner[t] \in SessionId /\ owner[t] # NoSession /\ owner[t] \notin replaced \cup overtaken
    BY <1>4 DEF Base, TypeOK
  <2>2. Reachable(t) => Reachable(t)'
    BY <1>1 DEF Reachable
  <2>3. ASSUME link'[t] # "none" \/ \E d \in Conn : WillConnect(d, t)' PROVE Reachable(t)
    <3>1. \A d \in Conn \ {c} : WillConnect(d, t)' = WillConnect(d, t)
      BY DEF WillConnect, WaitsToConnect
    <3>2. link[t] # "none" \/ (\E d \in Conn : WillConnect(d, t)) \/ transport[owner[t]] = t
      BY <2>3, <3>1
    <3> QED
      BY <2>1, <3>2 DEF TransportsHeld, Reachable
  <2>4. ASSUME NEW d \in Conn, NEW e \in Conn, tr'[d] = t, ClosedByDelete(d)', WaitsToConnect(e, t)'
        PROVE  FALSE
    <3>1. ClosedByDelete(d) /\ tr[d] = t
      BY <1>1, <2>4
    <3>2. transport[owner[t]] # t /\ ~WaitsToConnect(e, t)
      BY <2>1, <3>1 DEF TransportsHeld
    <3>3. WaitsToConnect(e, t)' => WaitsToConnect(e, t) \/ transport[owner[t]] = t
      BY DEF WaitsToConnect
    <3> QED
      BY <2>4, <3>2, <3>3
  <2> QED
    BY <2>2, <2>3, <2>4
<1> QED
  BY <1>2, <1>3, <1>4 DEF TransportsHeld

(* An entry is inserted: if it overwrites another, what that one held may  *)
(* be lost; the transport it gets is new.                                  *)
LEMMA TransportsHeldInsert ==
  ASSUME Base, TransportsHeld, NEW c \in Conn, LoadPut(c) \/ CreatePut(c)
  PROVE  TransportsHeld'
<1> USE DEF Base
<1>1. PICK st, n \in TransportId :
        /\ owner[n] = NoSession
        /\ owner' = [owner EXCEPT ![n] = sid[c]]
        /\ transport' = [transport EXCEPT ![sid[c]] = n]
        /\ replaced' = IF InMemory(sid[c]) THEN replaced \cup {sid[c]} ELSE replaced
        /\ UNCHANGED <<link, overtaken, leaked>>
  BY DEF LoadPut, CreatePut, InsertEntry
<1>2. /\ pc[c] \in {"load_put", "create_put"} /\ sid[c] \in SessionId
      /\ pc'[c] \in {"load_row", "idle", "cleanup"}
      /\ \A d \in Conn \ {c} : UNCHANGED <<pc[d], op[d], tr[d]>>
  BY DEF LoadPut, CreatePut, Suspended, Return, Goto, TypeOK
<1>3. /\ \A d \in Conn : ClosedByDelete(d)' \/ pc'[d] = "delete_db" =>
                           d # c /\ (ClosedByDelete(d) \/ pc[d] = "delete_db") /\ tr[d] \in TransportId \ {n}
      /\ \A d \in Conn : ClosedByDelete(d)' = ClosedByDelete(d)
      /\ \A d \in Conn, t \in TransportId : /\ WillConnect(d, t)' = WillConnect(d, t)
                                            /\ WaitsToConnect(d, t)' = WaitsToConnect(d, t)
  <2>1. \A d \in Conn : ClosedByDelete(d) \/ pc[d] = "delete_db" => tr[d] \in TransportId \ {n}
    BY <1>1 DEF ClosedByDelete, Suspended, HasTransport, HoldsLock, Op, Ownership, TypeOK
  <2> QED
    BY <1>2, <2>1 DEF ClosedByDelete, WillConnect, WaitsToConnect
<1>4. NoConnectionLeaks'
  BY <1>1 DEF TransportsHeld, NoConnectionLeaks
<1>5. ASSUME NEW d \in Conn, ClosedByDelete(d)' \/ pc'[d] = "delete_db", NEW s \in SessionId
      PROVE  transport'[s] # tr'[d]
  <2>1. d # c /\ tr'[d] = tr[d] /\ transport[s] # tr[d] /\ tr[d] # n
    BY <1>2, <1>3, <1>5 DEF TransportsHeld
  <2> QED
    BY <1>1, <2>1 DEF TypeOK
<1>6. ASSUME NEW t \in TransportId, owner'[t] # NoSession, owner'[t] \notin replaced' \cup overtaken'
      PROVE  /\ link'[t] # "none" \/ (\E d \in Conn : WillConnect(d, t)') => Reachable(t)'
             /\ \A d, e \in Conn : tr'[d] = t /\ ClosedByDelete(d)' => ~WaitsToConnect(e, t)'
  <2>1. CASE t = n
    <3>1. Reachable(t)'
      BY <1>1, <1>2, <2>1 DEF Reachable, TypeOK
    <3>2. \A d \in Conn : ClosedByDelete(d)' => tr'[d] # t
      BY <1>2, <1>3, <2>1
    <3> QED
      BY <3>1, <3>2
  <2>2. CASE t # n
    <3>1. /\ owner'[t] = owner[t] /\ owner[t] \in SessionId
          /\ owner[t] # NoSession /\ owner[t] \notin replaced \cup overtaken
      BY <1>1, <1>6, <2>2 DEF TypeOK
    <3>2. Reachable(t) => Reachable(t)'
      <4>1. ASSUME transport[owner[t]] = t PROVE transport'[owner'[t]] = t
        <5>1. owner[t] # sid[c]
          BY <1>1, <1>6, <3>1, <4>1, NullAssumption DEF EntryShape, InMemory
        <5> QED
          BY <1>1, <3>1, <4>1, <5>1 DEF TypeOK
      <4>2. ASSUME NEW d \in Conn, tr[d] = t, ClosedByDelete(d) PROVE tr'[d] = t /\ ClosedByDelete(d)'
        BY <1>2, <1>3, <4>2
      <4> QED
        BY <4>1, <4>2 DEF Reachable
    <3>3. \A d \in Conn : tr'[d] = t /\ ClosedByDelete(d)' => tr[d] = t /\ ClosedByDelete(d)
      BY <1>2, <1>3
    <3> QED
      BY <1>1, <1>3, <3>1, <3>2, <3>3 DEF TransportsHeld
  <2> QED
    BY <2>1, <2>2
<1> QED
  BY <1>4, <1>5, <1>6 DEF TransportsHeld

(* A delete takes the entry out and keeps its transport in hand.           *)
LEMMA TransportsHeldDelete ==
  ASSUME Base, TransportsHeld, NEW c \in Conn, NEW s \in SessionId, Delete(c, s), InMemory(s)
  PROVE  TransportsHeld'
<1> USE DEF Base
<1>1. /\ pc[c] = "idle" /\ UNCHANGED <<owner, link, replaced, leaked>>
      /\ transport' = [transport EXCEPT ![s] = NoTransport]
      /\ AwaitLock(c, "delete", s, transport[s])
      /\ overtaken' = IF \E d \in Conn : WaitsToConnect(d, transport[s])
                      THEN overtaken \cup {s} ELSE overtaken
  BY DEF Delete
<1>2. /\ pc'[c] = "lock" /\ op'[c] = "delete" /\ tr'[c] = transport[s]
      /\ \A d \in Conn \ {c} : UNCHANGED <<pc[d], op[d], tr[d]>>
  BY <1>1 DEF AwaitLock, Goto, TypeOK
<1>3. transport[s] \in TransportId /\ owner[transport[s]] = s
  BY DEF EntryShape, Ownership, InMemory, TypeOK
<1>4. /\ \A d \in Conn \ {c} : ClosedByDelete(d)' = ClosedByDelete(d)
      /\ ClosedByDelete(c)' /\ ~ClosedByDelete(c)
      /\ \A d \in Conn, t \in TransportId : /\ WillConnect(d, t)' => WillConnect(d, t)
                                            /\ WaitsToConnect(d, t)' => WaitsToConnect(d, t)
  BY <1>1, <1>2 DEF ClosedByDelete, WillConnect, WaitsToConnect
<1>5. NoConnectionLeaks'
  BY <1>1 DEF TransportsHeld, NoConnectionLeaks
<1>6. ASSUME NEW d \in Conn, ClosedByDelete(d)' \/ pc'[d] = "delete_db", NEW x \in SessionId
      PROVE  transport'[x] # tr'[d]
  <2>1. CASE d = c
    <3>1. x # s => transport[x] # transport[s]
      BY <1>3, NullAssumption DEF EntryShape, Ownership
    <3> QED
      BY <1>1, <1>2, <1>3, <2>1, <3>1, NullAssumption DEF TypeOK
  <2>2. CASE d # c
    <3>1. tr'[d] = tr[d] /\ (ClosedByDelete(d) \/ pc[d] = "delete_db")
      BY <1>2, <1>4, <1>6, <2>2
    <3>2. transport[x] # tr[d] /\ tr[d] # NoTransport
      BY <3>1 DEF TransportsHeld, ClosedByDelete, Suspended, HasTransport, HoldsLock, Op
    <3> QED
      BY <1>1, <3>1, <3>2 DEF TypeOK
  <2> QED
    BY <2>1, <2>2
<1>7. ASSUME NEW t \in TransportId, owner'[t] # NoSession, owner'[t] \notin replaced' \cup overtaken'
      PROVE  /\ link'[t] # "none" \/ (\E d \in Conn : WillConnect(d, t)') => Reachable(t)'
             /\ \A d, e \in Conn : tr'[d] = t /\ ClosedByDelete(d)' => ~WaitsToConnect(e, t)'
  <2>1. /\ owner'[t] = owner[t] /\ owner[t] \in SessionId
        /\ owner[t] # NoSession /\ owner[t] \notin replaced \cup overtaken
    BY <1>1, <1>7 DEF TypeOK
  <2>2. CASE t = transport[s]
    <3>1. Reachable(t)'
      BY <1>2, <1>4, <2>2 DEF Reachable
    <3>2. \A e \in Conn : ~WaitsToConnect(e, t)
      BY <1>1, <1>3, <1>7, <2>1, <2>2
    <3> QED
      BY <1>4, <3>1, <3>2
  <2>3. CASE t # transport[s]
    <3>1. Reachable(t) => Reachable(t)'
      <4>1. transport[owner[t]] = t => transport'[owner'[t]] = t
        BY <1>1, <2>1, <2>3 DEF TypeOK
      <4>2. \A d \in Conn : tr[d] = t /\ ClosedByDelete(d) => tr'[d] = t /\ ClosedByDelete(d)'
        BY <1>2, <1>4
      <4> QED
        BY <4>1, <4>2 DEF Reachable
    <3>2. \A d \in Conn : tr'[d] = t /\ ClosedByDelete(d)' => tr[d] = t /\ ClosedByDelete(d)
      BY <1>2, <1>4, <2>3
    <3> QED
      BY <1>1, <1>4, <2>1, <3>1, <3>2 DEF TransportsHeld
  <2> QED
    BY <2>2, <2>3
<1> QED
  BY <1>5, <1>6, <1>7 DEF TransportsHeld

(* A delete closes the connection; no connect follows it, since none waits *)
(* for the mutex and the delete has it.                                    *)
LEMMA TransportsHeldClose ==
  ASSUME Base, TransportsHeld, NEW c \in Conn, DeleteTransport(c)
  PROVE  TransportsHeld'
<1> USE DEF Base
<1>1. /\ pc[c] = "delete" /\ pc'[c] = "delete_db" /\ UNCHANGED <<transport, owner, op, tr, history>>
      /\ link' = [link EXCEPT ![tr[c]] = "none"] /\ \A d \in Conn \ {c} : pc'[d] = pc[d]
  BY DEF DeleteTransport, Goto, TypeOK
<1>2. tr[c] \in TransportId /\ holder[tr[c]] = c
  BY <1>1 DEF LockDiscipline, HoldsLock, Op, TypeOK
<1>3. /\ \A d \in Conn \ {c} : ClosedByDelete(d)' = ClosedByDelete(d)
      /\ ClosedByDelete(c) /\ ~ClosedByDelete(c)'
      /\ \A d \in Conn, t \in TransportId : /\ WillConnect(d, t)' => WillConnect(d, t)
                                            /\ WaitsToConnect(d, t)' => WaitsToConnect(d, t)
  BY <1>1 DEF ClosedByDelete, WillConnect, WaitsToConnect
<1>4. NoConnectionLeaks'
  BY <1>1 DEF TransportsHeld, NoConnectionLeaks
<1>5. ASSUME NEW d \in Conn, ClosedByDelete(d)' \/ pc'[d] = "delete_db", NEW x \in SessionId
      PROVE  transport'[x] # tr'[d]
  BY <1>1, <1>3, <1>5 DEF TransportsHeld
<1>6. ASSUME NEW t \in TransportId, owner'[t] # NoSession, owner'[t] \notin replaced' \cup overtaken'
      PROVE  /\ link'[t] # "none" \/ (\E d \in Conn : WillConnect(d, t)') => Reachable(t)'
             /\ \A d, e \in Conn : tr'[d] = t /\ ClosedByDelete(d)' => ~WaitsToConnect(e, t)'
  <2>1. owner[t] # NoSession /\ owner[t] \notin replaced \cup overtaken
    BY <1>1, <1>6
  <2>2. CASE t = tr[c]
    <3>1. \A d \in Conn : ~WaitsToConnect(d, t)
      BY <1>3, <2>1, <2>2 DEF TransportsHeld
    <3>2. \A d \in Conn : ~WillConnect(d, t)
      BY <1>1, <1>2, <2>2, <3>1 DEF WillConnect, LockDiscipline, HoldsLock, Op
    <3>3. link'[t] = "none"
      BY <1>1, <1>2, <2>2 DEF TypeOK
    <3> QED
      BY <1>3, <3>1, <3>2, <3>3
  <2>3. CASE t # tr[c]
    <3>1. Reachable(t) => Reachable(t)'
      BY <1>1, <1>3, <2>3 DEF Reachable
    <3>2. link'[t] = link[t]
      BY <1>1, <2>3 DEF TypeOK
    <3> QED
      BY <1>1, <1>3, <2>1, <3>1, <3>2 DEF TransportsHeld
  <2> QED
    BY <2>2, <2>3
<1> QED
  BY <1>4, <1>5, <1>6 DEF TransportsHeld

(* What nothing refers to has no connection, or is of a session that has   *)
(* been replaced or overtaken.                                             *)
LEMMA TransportsHeldDrop ==
  ASSUME Base, TransportsHeld, NEW t \in TransportId, DropTransport(t)
  PROVE  TransportsHeld'
<1> USE DEF Base
<1>1. /\ owner[t] # NoSession /\ owner' = [owner EXCEPT ![t] = NoSession]
      /\ link' = [link EXCEPT ![t] = "none"]
      /\ UNCHANGED <<transport, pc, op, tr, replaced, overtaken>>
      /\ \A s \in SessionId : transport[s] # t
      /\ \A c \in Conn : tr[c] # t
      /\ leaked' \in {leaked, leaked \cup {owner[t]}} /\ (link[t] = "none" => leaked' = leaked)
  BY DEF DropTransport, Referenced
<1>2. owner[t] \in SessionId
  BY <1>1 DEF TypeOK
<1>3. link[t] = "none" \/ owner[t] \in replaced \cup overtaken
  BY <1>1, <1>2 DEF TransportsHeld, Reachable
<1>4. NoConnectionLeaks'
  BY <1>1, <1>3 DEF TransportsHeld, NoConnectionLeaks
<1>5. \A d \in Conn : ClosedByDelete(d)' = ClosedByDelete(d)
  BY <1>1 DEF ClosedByDelete
<1>6. ASSUME NEW u \in TransportId, owner'[u] # NoSession
      PROVE  /\ u # t /\ owner'[u] = owner[u] /\ link'[u] = link[u] /\ Reachable(u)' = Reachable(u)
             /\ \A d \in Conn : WillConnect(d, u)' = WillConnect(d, u) /\ WaitsToConnect(d, u)' = WaitsToConnect(d, u)
  <2>1. u # t /\ owner'[u] = owner[u] /\ link'[u] = link[u]
    BY <1>1, <1>6 DEF TypeOK
  <2> QED
    BY <1>1, <1>5, <2>1 DEF Reachable, WillConnect, WaitsToConnect
<1> QED
  BY <1>1, <1>4, <1>5, <1>6 DEF TransportsHeld

(* Every step keeps the connections where a request can close them.        *)
LEMMA TransportsHeldStep ==
  ASSUME Base, TransportsHeld, [Next]_vars
  PROVE  TransportsHeld'
<1> USE DEF Base
<1>1. ASSUME NEW c \in Conn,
             \/ Open(c) \/ ListSessions(c) \/ Close(c) \/ LoadFetch(c) \/ LoadDone(c) \/ CleanupDone(c)
             \/ \E s \in SessionId : LoadListed(c, s) \/ LoadAbsent(c, s) \/ Create(c, s)
      PROVE  TransportsHeld'
  <2>1. /\ pc[c] \notin HasTransport /\ pc'[c] \notin HasTransport
        /\ UNCHANGED <<transport, owner, link, op, tr, history>>
        /\ \A d \in Conn \ {c} : pc'[d] = pc[d]
    BY <1>1
       DEF Open, ListSessions, Close, LeaveWebSocket, LeaveWebTransport, LoadFetch, LoadDone, CleanupDone,
           LoadListed, LoadAbsent, Create, Goto, HasTransport, HoldsLock, Op, TypeOK
  <2>2. ~ClosedByDelete(c) /\ ~ClosedByDelete(c)' /\ pc'[c] # "delete_db"
    BY <2>1 DEF ClosedByDelete, HasTransport, HoldsLock, Op
  <2>3. \A t \in TransportId : ~WillConnect(c, t)' /\ ~WaitsToConnect(c, t)'
    BY <2>1 DEF WillConnect, WaitsToConnect, HasTransport, HoldsLock, Op
  <2> QED
    BY <2>1, <2>2, <2>3, TransportsHeldMove
<1>2. ASSUME NEW c \in Conn, NEW s \in SessionId, Connect(c, s) PROVE TransportsHeld'
  <2>1. /\ pc[c] = "idle" /\ pc'[c] = "connect_db" /\ UNCHANGED <<transport, owner, link, op, history>>
        /\ InMemory(s) /\ tr'[c] = transport[s] /\ \A d \in Conn \ {c} : pc'[d] = pc[d] /\ tr'[d] = tr[d]
    BY <1>2 DEF Connect, Goto, TypeOK
  <2>2. \A t \in TransportId : WillConnect(c, t)' \/ WaitsToConnect(c, t)' => transport[owner[t]] = t
    BY <2>1 DEF WillConnect, WaitsToConnect, Ownership
  <2> QED
    BY <2>1, <2>2, TransportsHeldMove DEF ClosedByDelete
<1>3. ASSUME NEW c \in Conn, NEW s \in SessionId,
             \/ Disconnect(c, s) \/ CleanupDisconnect(c, s) \/ Refresh(c, s)
             \/ \E p \in Pane : Input(c, s, p)
      PROVE  TransportsHeld'
  <2>1. /\ pc[c] \in {"idle", "cleanup"} /\ UNCHANGED <<transport, owner, link, history>>
        /\ pc'[c] \in {"idle", "cleanup"} \/ (pc'[c] = "lock" /\ op'[c] \notin {"delete", "connect"})
        /\ \A d \in Conn \ {c} : UNCHANGED <<pc[d], op[d], tr[d]>>
    BY <1>3
       DEF Disconnect, CleanupDisconnect, BeginDisconnect, Refresh, Input, AwaitLock, Goto, TypeOK
  <2>2. ~ClosedByDelete(c) /\ ~ClosedByDelete(c)' /\ pc'[c] # "delete_db"
    BY <2>1 DEF ClosedByDelete
  <2>3. \A t \in TransportId : ~WillConnect(c, t)' /\ ~WaitsToConnect(c, t)'
    BY <2>1 DEF WillConnect, WaitsToConnect
  <2> QED
    BY <2>1, <2>2, <2>3, TransportsHeldMove
<1>4. ASSUME NEW c \in Conn, ConnectDb(c) \/ Lock(c) PROVE TransportsHeld'
  <2>1. /\ UNCHANGED <<transport, owner, link, tr, history>>
        /\ \/ pc[c] = "connect_db" /\ pc'[c] = "lock" /\ op'[c] = "connect"
           \/ pc[c] = "lock" /\ pc'[c] = op[c] /\ op[c] \in Op /\ op' = op
        /\ \A d \in Conn \ {c} : UNCHANGED <<pc[d], op[d]>>
    BY <1>4 DEF ConnectDb, Lock, AwaitLock, Goto, Suspended, TypeOK
  <2>2. ClosedByDelete(c)' = ClosedByDelete(c) /\ pc'[c] # "delete_db"
    BY <2>1 DEF ClosedByDelete, Op
  <2>3. \A t \in TransportId : /\ WillConnect(c, t)' => WillConnect(c, t)
                               /\ WaitsToConnect(c, t)' => WaitsToConnect(c, t)
    BY <2>1 DEF WillConnect, WaitsToConnect, Op
  <2> QED
    BY <2>1, <2>2, <2>3, TransportsHeldMove
<1>5. ASSUME NEW c \in Conn,
             \/ ConnectClose(c) \/ ConnectOk(c) \/ ConnectFail(c) \/ ConnectPublish(c)
             \/ DisconnectTransport(c) \/ DisconnectMap(c)
      PROVE  TransportsHeld'
  <2>1. /\ UNCHANGED <<transport, owner, op, tr, history>>
        /\ pc[c] \in {"connect", "attached", "list", "disconnect", "disconnect_map"}
        /\ pc'[c] \in {"attached", "list", "error_db", "connected_db", "disconnect_map", "disconnected_db"}
        /\ pc'[c] = "attached" => pc[c] = "connect"
        /\ \A d \in Conn \ {c} : pc'[d] = pc[d]
    BY <1>5
       DEF ConnectClose, ConnectOk, Connected, ConnectFail, ConnectPublish, DisconnectTransport,
           DisconnectMap, Goto, TypeOK
  <2>2. \/ link' = link
        \/ link' = [link EXCEPT ![tr[c]] = "none"]
        \/ pc[c] \in {"connect", "attached"} /\ link' = [link EXCEPT ![tr[c]] = "up"]
    BY <1>5
       DEF ConnectClose, ConnectOk, Connected, ConnectFail, TransportError, ConnectPublish,
           DisconnectTransport, DisconnectMap
  <2>3. \A t \in TransportId : link'[t] # "none" => link[t] # "none" \/ WillConnect(c, t)
    BY <2>2 DEF WillConnect, TypeOK
  <2>4. ~ClosedByDelete(c) /\ ~ClosedByDelete(c)' /\ pc'[c] # "delete_db"
    BY <2>1 DEF ClosedByDelete
  <2>5. \A t \in TransportId : (WillConnect(c, t)' => WillConnect(c, t)) /\ ~WaitsToConnect(c, t)'
    BY <2>1 DEF WillConnect, WaitsToConnect
  <2> QED
    BY <2>1, <2>3, <2>4, <2>5, TransportsHeldMove
<1>6. ASSUME NEW c \in Conn,
             \/ ConnectedDb(c) \/ ErrorDb(c) \/ DisconnectedDb(c) \/ DeleteDb(c)
             \/ RefreshTransport(c) \/ InputTransport(c)
      PROVE  TransportsHeld'
  <2>1. /\ UNCHANGED <<transport, owner, link, history>>
        /\ pc[c] \in {"connected_db", "error_db", "disconnected_db", "delete_db", "refresh", "input"}
        /\ pc'[c] \in {"idle", "cleanup"}
        /\ \A d \in Conn \ {c} : UNCHANGED <<pc[d], op[d], tr[d]>>
    BY <1>6
       DEF ConnectedDb, ErrorDb, DisconnectedDb, DeleteDb, RefreshTransport, InputTransport,
           ReturnUnlocking, Return, Goto, TypeOK
  <2>2. ~ClosedByDelete(c) /\ ~ClosedByDelete(c)' /\ pc'[c] # "delete_db"
    BY <2>1 DEF ClosedByDelete
  <2>3. \A t \in TransportId : ~WillConnect(c, t)' /\ ~WaitsToConnect(c, t)'
    BY <2>1 DEF WillConnect, WaitsToConnect
  <2> QED
    BY <2>1, <2>2, <2>3, TransportsHeldMove
<1>7. ASSUME NEW c \in Conn, NEW s \in SessionId, Delete(c, s) PROVE TransportsHeld'
  <2>1. CASE InMemory(s)
    BY <1>7, <2>1, TransportsHeldDelete
  <2>2. CASE ~InMemory(s)
    <3>1. /\ pc[c] = "idle" /\ UNCHANGED <<owner, link, history, pc, op, tr>>
          /\ transport' = [transport EXCEPT ![s] = NoTransport]
      BY <1>7, <2>2 DEF Delete
    <3>2. transport[s] = NoTransport
      BY <2>2 DEF EntryShape
    <3>3. transport' = transport
      BY <3>1, <3>2 DEF TypeOK
    <3>4. ~ClosedByDelete(c) /\ ~ClosedByDelete(c)' /\ pc'[c] # "delete_db"
      BY <3>1 DEF ClosedByDelete
    <3>5. \A t \in TransportId : ~WillConnect(c, t)' /\ ~WaitsToConnect(c, t)'
      BY <3>1 DEF WillConnect, WaitsToConnect
    <3> QED
      BY <3>1, <3>3, <3>4, <3>5, TransportsHeldMove
  <2> QED
    BY <2>1, <2>2
<1>8. ASSUME NEW t \in TransportId, LinkEnds(t) PROVE TransportsHeld'
  <2>1. /\ UNCHANGED <<transport, owner, pc, op, tr, history>>
        /\ \A u \in TransportId : link'[u] # "none" => link[u] # "none"
    BY <1>8 DEF LinkEnds, TypeOK
  <2> QED
    BY <2>1 DEF TransportsHeld, NoConnectionLeaks, Reachable, ClosedByDelete, WillConnect, WaitsToConnect
<1>9. ASSUME Restart PROVE TransportsHeld'
  BY <1>9 DEF Restart, TransportsHeld, NoConnectionLeaks, ClosedByDelete
<1>10. CASE UNCHANGED vars
  BY <1>10
     DEF vars, TransportsHeld, NoConnectionLeaks, Reachable, ClosedByDelete, WillConnect, WaitsToConnect
<1> QED
  BY <1>1, <1>2, <1>3, <1>4, <1>5, <1>6, <1>7, <1>8, <1>9, <1>10, TransportsHeldInsert,
     TransportsHeldClose, TransportsHeldDrop
     DEF Next, Advance, Client

(* A connection that the server has opened can always be closed by some    *)
(* request, unless a load has overwritten the entry of another (which it   *)
(* does when a socket opens while another one loads) or a delete overtook  *)
(* a connect: for any number of tabs, whichever statements fail.           *)
THEOREM ConnectionsAreHeld == Spec => []NoConnectionLeaks
<1> DEFINE Inv == Base /\ TransportsHeld
<1>1. Init => Inv
  <2>1. Init => TransportsHeld
    BY DEF Init, TransportsHeld, NoConnectionLeaks, ClosedByDelete
  <2> QED
    BY <2>1, InitBase
<1>2. Inv /\ [Next]_vars => Inv'
  BY BaseStep, TransportsHeldStep
<1>3. Inv => NoConnectionLeaks
  BY DEF TransportsHeld
<1> QED
  BY <1>1, <1>2, <1>3, PTL DEF Spec

=============================================================================
