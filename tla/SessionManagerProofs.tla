------------------------ MODULE SessionManagerProofs ------------------------
(***************************************************************************)
(* Machine-checked proofs about SessionManager, for every number of        *)
(* sessions, panes, connections and transports.                            *)
(***************************************************************************)
EXTENDS SessionManager, TLAPS

USE DEF sessions, shared, objects, tasks, history

-----------------------------------------------------------------------------
(* What the helpers do to the types.                                       *)

(* Routing listed panes keeps the type of the routing table.               *)
LEMMA RouteType ==
  ASSUME TypeOK, NEW s \in SessionId, NEW panes \in SUBSET Pane, Route(s, panes)
  PROVE  pane_to_session' \in [Pane -> SessionId \cup {NoSession}]
  BY DEF TypeOK, Route

(* retain only clears routes.                                              *)
LEMMA UnrouteType ==
  ASSUME TypeOK, NEW s \in SessionId, Unroute(s)
  PROVE  pane_to_session' \in [Pane -> SessionId \cup {NoSession}]
  BY DEF TypeOK, Unroute

(* get_mut and a status keep the type of the map.                          *)
LEMMA SetStatusType ==
  ASSUME TypeOK, NEW s \in SessionId, NEW st \in Status, SetStatus(s, st)
  PROVE  status' \in [SessionId -> Status \cup {"none"}]
  BY DEF TypeOK, SetStatus

(* get_mut and a pane list keep the type of the map.                       *)
LEMMA SetPanesType ==
  ASSUME TypeOK, NEW s \in SessionId, NEW panes \in SUBSET Pane, SetPanes(s, panes)
  PROVE  tmux_sessions' \in [SessionId -> SUBSET Pane]
  BY DEF TypeOK, SetPanes

(* An insert writes one well-typed entry and allocates one transport.      *)
LEMMA InsertEntryType ==
  ASSUME TypeOK, NEW s \in SessionId, NEW st \in Status \cup {"none"}, InsertEntry(s, st)
  PROVE  /\ status' \in [SessionId -> Status \cup {"none"}]
         /\ transport' \in [SessionId -> TransportId \cup {NoTransport}]
         /\ tmux_sessions' \in [SessionId -> SUBSET Pane]
         /\ owner' \in [TransportId -> SessionId \cup {NoSession}]
         /\ replaced' \in SUBSET SessionId
         /\ UNCHANGED <<link, holder, overtaken, leaked>>
  BY DEF TypeOK, InsertEntry

-----------------------------------------------------------------------------
(* Type correctness.                                                       *)

(* Every step keeps the types; load_put and the connect steps need to know *)
(* that a suspended request has its session.                               *)
LEMMA TypeStep ==
  ASSUME TypeOK, Suspended, [Next]_vars
  PROVE  TypeOK'
  <1>1. ASSUME NEW c \in Conn, Open(c) PROVE TypeOK'
    BY <1>1, HostPanesAssumption
       DEF Open, Goto, TypeOK, Pc, HoldsLock, Op, Status, Suspended, HasTransport
  <1>2. ASSUME NEW c \in Conn, ListSessions(c) PROVE TypeOK'
    BY <1>2, HostPanesAssumption
       DEF ListSessions, Goto, TypeOK, Pc, HoldsLock, Op, Status, Suspended,
           HasTransport
  <1>3. ASSUME NEW c \in Conn, LoadFetch(c) PROVE TypeOK'
    <2>1. fetched' \in [Conn -> [SessionId -> Status \cup {"none"}]]
      BY <1>3 DEF LoadFetch, TypeOK
    <2>2. QED
      BY <1>3, <2>1 DEF LoadFetch, Goto, TypeOK, Pc
  <1>4. ASSUME NEW c \in Conn, NEW s \in SessionId, LoadListed(c, s) PROVE TypeOK'
    <2>1. fetched' \in [Conn -> [SessionId -> Status \cup {"none"}]]
      BY <1>4 DEF LoadListed, TypeOK
    <2>2. found' \in [Conn -> SUBSET SessionId]
      BY <1>4 DEF LoadListed, TypeOK
    <2>3. QED
      BY <1>4, <2>1, <2>2 DEF LoadListed, TypeOK
  <1>5. ASSUME NEW c \in Conn, NEW s \in SessionId, LoadAbsent(c, s) PROVE TypeOK'
    BY <1>5, HostPanesAssumption
       DEF LoadAbsent, Goto, InMemory, TypeOK, Pc, HoldsLock, Op, Status, Suspended,
           HasTransport
  <1>6. ASSUME NEW c \in Conn, LoadPut(c) PROVE TypeOK'
    <2>1. sid[c] \in SessionId
      BY <1>6 DEF LoadPut, Suspended, HasTransport
    <2>2. StatusOfRow(fetched[c][sid[c]]) \in Status \cup {"none"}
      BY <2>1 DEF TypeOK, StatusOfRow, Status
    <2>3. fetched' \in [Conn -> [SessionId -> Status \cup {"none"}]]
      BY <1>6, <2>1 DEF LoadPut, TypeOK
    <2>4. QED
      BY <1>6, <2>1, <2>2, <2>3, InsertEntryType DEF LoadPut, Goto, TypeOK, Pc
  <1>7. ASSUME NEW c \in Conn, LoadDone(c) PROVE TypeOK'
    BY <1>7, HostPanesAssumption
       DEF LoadDone, Goto, TypeOK, Pc, HoldsLock, Op, Status, Suspended, HasTransport
  <1>8. ASSUME NEW c \in Conn, NEW s \in SessionId, Create(c, s) PROVE TypeOK'
    BY <1>8, HostPanesAssumption
       DEF Create, Goto, TypeOK, Pc, HoldsLock, Op, Status, Suspended, HasTransport
  <1>9. ASSUME NEW c \in Conn, CreatePut(c) PROVE TypeOK'
    BY <1>9, InsertEntryType, HostPanesAssumption
       DEF CreatePut, Goto, Return, TypeOK, Pc, HoldsLock, Op, Status, Suspended,
           HasTransport
  <1>10. ASSUME NEW c \in Conn, NEW s \in SessionId, Connect(c, s) PROVE TypeOK'
    BY <1>10, HostPanesAssumption
       DEF Connect, Goto, SetStatus, InMemory, TypeOK, Pc, HoldsLock, Op, Status,
           Suspended, HasTransport
  <1>11. ASSUME NEW c \in Conn, ConnectDb(c) PROVE TypeOK'
    BY <1>11, HostPanesAssumption
       DEF ConnectDb, Goto, UpdateRow, AwaitLock, TypeOK, Pc, HoldsLock, Op, Status,
           Suspended, HasTransport
  <1>12. ASSUME NEW c \in Conn, Lock(c) PROVE TypeOK'
    BY <1>12, HostPanesAssumption
       DEF Lock, Goto, TypeOK, Pc, HoldsLock, Op, Status, Suspended, HasTransport
  <1>13. ASSUME NEW c \in Conn, ConnectClose(c) PROVE TypeOK'
    BY <1>13, HostPanesAssumption
       DEF ConnectClose, Goto, TypeOK, Pc, HoldsLock, Op, Status, Suspended, HasTransport
  <1>14. ASSUME NEW c \in Conn, ConnectOk(c) PROVE TypeOK'
    BY <1>14, HostPanesAssumption
       DEF ConnectOk, Connected, Goto, TypeOK, Pc, HoldsLock, Op, Status, Suspended, HasTransport
  <1>15. ASSUME NEW c \in Conn, ConnectFail(c) PROVE TypeOK'
    BY <1>15, HostPanesAssumption
       DEF ConnectFail, Goto, SetStatus, InMemory, TransportError, TypeOK, Pc,
           HoldsLock, Op, Status, Suspended, HasTransport
  <1>16. ASSUME NEW c \in Conn, ConnectPublish(c) PROVE TypeOK'
    <2>1. sid[c] \in SessionId
      BY <1>16 DEF ConnectPublish, Suspended, HasTransport, HoldsLock
    <2>2. PICK panes \in SUBSET Pane :
            Route(sid[c], panes) /\ SetStatus(sid[c], "connected") /\ SetPanes(sid[c], panes)
      BY <1>16, <2>1, HostPanesAssumption DEF ConnectPublish
    <2>3. /\ pane_to_session' \in [Pane -> SessionId \cup {NoSession}]
          /\ status' \in [SessionId -> Status \cup {"none"}]
          /\ tmux_sessions' \in [SessionId -> SUBSET Pane]
      BY <2>1, <2>2, RouteType, SetStatusType, SetPanesType DEF Status
    <2>4. QED
      BY <1>16, <2>3 DEF ConnectPublish, Goto, TypeOK, Pc, HoldsLock
  <1>17. ASSUME NEW c \in Conn, ConnectedDb(c) PROVE TypeOK'
    BY <1>17, HostPanesAssumption
       DEF ConnectedDb, Goto, UpdateRow, ReturnUnlocking, Return, TypeOK, Pc,
           HoldsLock, Op, Status, Suspended, HasTransport
  <1>18. ASSUME NEW c \in Conn, ErrorDb(c) PROVE TypeOK'
    BY <1>18, HostPanesAssumption
       DEF ErrorDb, Goto, UpdateRow, ReturnUnlocking, Return, TypeOK, Pc, HoldsLock,
           Op, Status, Suspended, HasTransport
  <1>19. ASSUME NEW c \in Conn, NEW s \in SessionId, Disconnect(c, s) PROVE TypeOK'
    <2>1. pane_to_session' \in [Pane -> SessionId \cup {NoSession}]
      BY <1>19, UnrouteType DEF Disconnect, BeginDisconnect
    <2>2. CASE UNCHANGED <<pc, op, sid, tr>>
      BY <1>19, <2>1, <2>2
         DEF Disconnect, BeginDisconnect, TypeOK, Pc, HoldsLock, Op, Status
    <2>3. CASE \E o \in Op : AwaitLock(c, o, s, transport[s])
      BY <1>19, <2>1, <2>3
         DEF Disconnect, BeginDisconnect, AwaitLock, Goto, TypeOK, Pc, HoldsLock, Op,
             Status
    <2>4. QED
      BY <1>19, <2>2, <2>3 DEF Disconnect, BeginDisconnect, Op
  <1>20. ASSUME NEW c \in Conn, DisconnectTransport(c) PROVE TypeOK'
    BY <1>20, HostPanesAssumption
       DEF DisconnectTransport, Goto, SetStatus, SetPanes, InMemory, TypeOK, Pc,
           HoldsLock, Op, Status, Suspended, HasTransport
  <1>21. ASSUME NEW c \in Conn, DisconnectMap(c) PROVE TypeOK'
    BY <1>21, HostPanesAssumption
       DEF DisconnectMap, Goto, SetStatus, SetPanes, InMemory, TypeOK, Pc,
           HoldsLock, Op, Status, Suspended, HasTransport
  <1>22. ASSUME NEW c \in Conn, DisconnectedDb(c) PROVE TypeOK'
    BY <1>22, HostPanesAssumption
       DEF DisconnectedDb, Goto, UpdateRow, ReturnUnlocking, Return, TypeOK, Pc,
           HoldsLock, Op, Status, Suspended, HasTransport
  <1>23. ASSUME NEW c \in Conn, NEW s \in SessionId, Delete(c, s) PROVE TypeOK'
    <2>1. pane_to_session' \in [Pane -> SessionId \cup {NoSession}]
      BY <1>23, UnrouteType DEF Delete
    <2>2. CASE UNCHANGED <<pc, op, sid, tr>>
      BY <1>23, <2>1, <2>2 DEF Delete, TypeOK, Pc, HoldsLock, Op, Status
    <2>3. CASE \E o \in Op : AwaitLock(c, o, s, transport[s])
      BY <1>23, <2>1, <2>3 DEF Delete, AwaitLock, Goto, TypeOK, Pc, HoldsLock, Op, Status
    <2>4. QED
      BY <1>23, <2>2, <2>3 DEF Delete, Op
  <1>24. ASSUME NEW c \in Conn, DeleteTransport(c) PROVE TypeOK'
    BY <1>24, HostPanesAssumption
       DEF DeleteTransport, Goto, TypeOK, Pc, HoldsLock, Op, Status, Suspended,
           HasTransport
  <1>25. ASSUME NEW c \in Conn, DeleteDb(c) PROVE TypeOK'
    BY <1>25, HostPanesAssumption
       DEF DeleteDb, Goto, ReturnUnlocking, Return, TypeOK, Pc, HoldsLock, Op, Status,
           Suspended, HasTransport
  <1>26. ASSUME NEW c \in Conn, NEW s \in SessionId, Refresh(c, s) PROVE TypeOK'
    BY <1>26, HostPanesAssumption
       DEF Refresh, AwaitLock, Goto, InMemory, TypeOK, Pc, HoldsLock, Op, Status,
           Suspended, HasTransport
  <1>27. ASSUME NEW c \in Conn, RefreshTransport(c) PROVE TypeOK'
    BY <1>27, RouteType, SetPanesType, HostPanesAssumption
       DEF RefreshTransport, Goto, ReturnUnlocking, Return, TypeOK, Pc, HoldsLock, Op,
           Status, Suspended, HasTransport
  <1>28. ASSUME NEW c \in Conn, NEW s \in SessionId, NEW p \in Pane, Input(c, s, p)
         PROVE  TypeOK'
    BY <1>28, HostPanesAssumption
       DEF Input, AwaitLock, Goto, InMemory, TypeOK, Pc, HoldsLock, Op, Status,
           Suspended, HasTransport
  <1>29. ASSUME NEW c \in Conn, InputTransport(c) PROVE TypeOK'
    BY <1>29, HostPanesAssumption
       DEF InputTransport, ReturnUnlocking, Return, Goto, TypeOK, Pc, HoldsLock, Op,
           Status, Suspended, HasTransport
  <1>30. ASSUME NEW c \in Conn, Close(c) PROVE TypeOK'
    BY <1>30, HostPanesAssumption
       DEF Close, LeaveWebSocket, LeaveWebTransport,
           Goto, TypeOK, Pc, HoldsLock, Op, Status, Suspended, HasTransport
  <1>31. ASSUME NEW c \in Conn, NEW s \in SessionId, CleanupDisconnect(c, s) PROVE TypeOK'
    <2>1. pane_to_session' \in [Pane -> SessionId \cup {NoSession}]
      BY <1>31, UnrouteType DEF CleanupDisconnect, BeginDisconnect
    <2>2. CASE UNCHANGED <<pc, op, sid, tr>>
      BY <1>31, <2>1, <2>2
         DEF CleanupDisconnect, BeginDisconnect, TypeOK, Pc, HoldsLock, Op, Status
    <2>3. CASE \E o \in Op : AwaitLock(c, o, s, transport[s])
      BY <1>31, <2>1, <2>3
         DEF CleanupDisconnect, BeginDisconnect, AwaitLock, Goto, TypeOK, Pc,
             HoldsLock, Op, Status
    <2>4. QED
      BY <1>31, <2>2, <2>3 DEF CleanupDisconnect, BeginDisconnect, Op
  <1>32. ASSUME NEW c \in Conn, CleanupDone(c) PROVE TypeOK'
    BY <1>32, HostPanesAssumption
       DEF CleanupDone, Goto, TypeOK, Pc, HoldsLock, Op, Status, Suspended,
           HasTransport
  <1>33. ASSUME NEW t \in TransportId, DropTransport(t) PROVE TypeOK'
    BY <1>33, HostPanesAssumption
       DEF DropTransport, Referenced, TypeOK, Pc, HoldsLock, Op, Status, Suspended,
           HasTransport
  <1>34. ASSUME NEW t \in TransportId, LinkEnds(t) PROVE TypeOK'
    BY <1>34, HostPanesAssumption
       DEF LinkEnds, TypeOK, Pc, HoldsLock, Op, Status, Suspended,
           HasTransport
  <1>35. ASSUME Restart PROVE TypeOK'
    BY <1>35, HostPanesAssumption
       DEF Restart, NoRows, TypeOK, Pc, HoldsLock, Op, Status, Suspended, HasTransport
  <1>36. CASE UNCHANGED vars
    BY <1>36 DEF vars, TypeOK, Pc, HoldsLock, Op, Status, Suspended, HasTransport
  <1>. QED
    BY <1>1, <1>2, <1>3, <1>4, <1>5, <1>6, <1>7, <1>8, <1>9, <1>10, <1>11, <1>12,
       <1>13, <1>14, <1>15, <1>16, <1>17, <1>18, <1>19, <1>20, <1>21, <1>22,
       <1>23, <1>24, <1>25, <1>26, <1>27, <1>28, <1>29, <1>30, <1>31, <1>32,
       <1>33, <1>34, <1>35, <1>36
       DEF Next, Advance, Client

-----------------------------------------------------------------------------
(* Every step leaves each request with what its next step needs.           *)
LEMMA SuspendedStep ==
  ASSUME TypeOK, Suspended, EntryShape, [Next]_vars
  PROVE  Suspended'
  <1>1. ASSUME NEW c \in Conn, Open(c) PROVE Suspended'
    BY <1>1, NullAssumption
       DEF Open, Goto, TypeOK, Suspended, EntryShape, InMemory, HasTransport,
           HoldsLock, Op
  <1>2. ASSUME NEW c \in Conn, ListSessions(c) PROVE Suspended'
    BY <1>2, NullAssumption
       DEF ListSessions, Goto, TypeOK, Suspended, EntryShape, InMemory, HasTransport,
           HoldsLock, Op
  <1>3. ASSUME NEW c \in Conn, LoadFetch(c) PROVE Suspended'
    BY <1>3, NullAssumption
       DEF LoadFetch, Goto, TypeOK, Suspended, EntryShape, InMemory, HasTransport,
           HoldsLock, Op
  <1>4. ASSUME NEW c \in Conn, NEW s \in SessionId, LoadListed(c, s) PROVE Suspended'
    BY <1>4, NullAssumption
       DEF LoadListed, InMemory, TypeOK, Suspended, EntryShape, HasTransport,
           HoldsLock, Op
  <1>5. ASSUME NEW c \in Conn, NEW s \in SessionId, LoadAbsent(c, s) PROVE Suspended'
    BY <1>5, NullAssumption
       DEF LoadAbsent, Goto, InMemory, TypeOK, Suspended, EntryShape, HasTransport,
           HoldsLock, Op
  <1>6. ASSUME NEW c \in Conn, LoadPut(c) PROVE Suspended'
    BY <1>6, NullAssumption
       DEF LoadPut, Goto, InsertEntry, StatusOfRow, InMemory, TypeOK, Suspended,
           EntryShape, HasTransport, HoldsLock, Op
  <1>7. ASSUME NEW c \in Conn, LoadDone(c) PROVE Suspended'
    BY <1>7, NullAssumption
       DEF LoadDone, Goto, TypeOK, Suspended, EntryShape, InMemory, HasTransport,
           HoldsLock, Op
  <1>8. ASSUME NEW c \in Conn, NEW s \in SessionId, Create(c, s) PROVE Suspended'
    BY <1>8, NullAssumption
       DEF Create, Goto, TypeOK, Suspended, EntryShape, InMemory, HasTransport,
           HoldsLock, Op
  <1>9. ASSUME NEW c \in Conn, CreatePut(c) PROVE Suspended'
    BY <1>9, NullAssumption
       DEF CreatePut, Goto, InsertEntry, Return, InMemory, TypeOK, Suspended,
           EntryShape, HasTransport, HoldsLock, Op
  <1>10. ASSUME NEW c \in Conn, NEW s \in SessionId, Connect(c, s) PROVE Suspended'
    BY <1>10, NullAssumption
       DEF Connect, Goto, SetStatus, InMemory, TypeOK, Suspended, EntryShape,
           HasTransport, HoldsLock, Op
  <1>11. ASSUME NEW c \in Conn, ConnectDb(c) PROVE Suspended'
    BY <1>11, NullAssumption
       DEF ConnectDb, Goto, UpdateRow, AwaitLock, TypeOK, Suspended, EntryShape,
           InMemory, HasTransport, HoldsLock, Op
  <1>12. ASSUME NEW c \in Conn, Lock(c) PROVE Suspended'
    BY <1>12, NullAssumption
       DEF Lock, Goto, TypeOK, Suspended, EntryShape, InMemory, HasTransport,
           HoldsLock, Op
  <1>13. ASSUME NEW c \in Conn, ConnectClose(c) PROVE Suspended'
    BY <1>13, NullAssumption
       DEF ConnectClose, Goto, TypeOK, Suspended, EntryShape, InMemory, HasTransport,
           HoldsLock, Op
  <1>14. ASSUME NEW c \in Conn, ConnectOk(c) PROVE Suspended'
    BY <1>14, NullAssumption
       DEF ConnectOk, Connected, Goto, TypeOK, Suspended, EntryShape, InMemory, HasTransport,
           HoldsLock, Op
  <1>15. ASSUME NEW c \in Conn, ConnectFail(c) PROVE Suspended'
    BY <1>15, NullAssumption
       DEF ConnectFail, Goto, SetStatus, InMemory, TransportError, TypeOK, Suspended,
           EntryShape, HasTransport, HoldsLock, Op
  <1>16. ASSUME NEW c \in Conn, ConnectPublish(c) PROVE Suspended'
    BY <1>16, NullAssumption
       DEF ConnectPublish, Goto, Route, SetStatus, SetPanes, InMemory, TypeOK,
           Suspended, EntryShape, HasTransport, HoldsLock, Op
  <1>17. ASSUME NEW c \in Conn, ConnectedDb(c) PROVE Suspended'
    BY <1>17, NullAssumption
       DEF ConnectedDb, Goto, UpdateRow, ReturnUnlocking, Return, TypeOK, Suspended,
           EntryShape, InMemory, HasTransport, HoldsLock, Op
  <1>18. ASSUME NEW c \in Conn, ErrorDb(c) PROVE Suspended'
    BY <1>18, NullAssumption
       DEF ErrorDb, Goto, UpdateRow, ReturnUnlocking, Return, TypeOK, Suspended,
           EntryShape, InMemory, HasTransport, HoldsLock, Op
  <1>19. ASSUME NEW c \in Conn, NEW s \in SessionId, Disconnect(c, s) PROVE Suspended'
    BY <1>19, NullAssumption
       DEF Disconnect, BeginDisconnect, Unroute, AwaitLock, Goto, InMemory, TypeOK,
           Suspended, EntryShape, HasTransport, HoldsLock, Op
  <1>20. ASSUME NEW c \in Conn, DisconnectTransport(c) PROVE Suspended'
    BY <1>20, NullAssumption
       DEF DisconnectTransport, Goto, SetStatus, SetPanes, InMemory, TypeOK, Suspended,
           EntryShape, HasTransport, HoldsLock, Op
  <1>21. ASSUME NEW c \in Conn, DisconnectMap(c) PROVE Suspended'
    BY <1>21, NullAssumption
       DEF DisconnectMap, Goto, SetStatus, SetPanes, InMemory, TypeOK, Suspended,
           EntryShape, HasTransport, HoldsLock, Op
  <1>22. ASSUME NEW c \in Conn, DisconnectedDb(c) PROVE Suspended'
    BY <1>22, NullAssumption
       DEF DisconnectedDb, Goto, UpdateRow, ReturnUnlocking, Return, TypeOK, Suspended,
           EntryShape, InMemory, HasTransport, HoldsLock, Op
  <1>23. ASSUME NEW c \in Conn, NEW s \in SessionId, Delete(c, s) PROVE Suspended'
    BY <1>23, NullAssumption
       DEF Delete, Unroute, AwaitLock, Goto, InMemory, TypeOK, Suspended, EntryShape,
           HasTransport, HoldsLock, Op
  <1>24. ASSUME NEW c \in Conn, DeleteTransport(c) PROVE Suspended'
    BY <1>24, NullAssumption
       DEF DeleteTransport, Goto, TypeOK, Suspended, EntryShape, InMemory,
           HasTransport, HoldsLock, Op
  <1>25. ASSUME NEW c \in Conn, DeleteDb(c) PROVE Suspended'
    BY <1>25, NullAssumption
       DEF DeleteDb, Goto, ReturnUnlocking, Return, TypeOK, Suspended, EntryShape,
           InMemory, HasTransport, HoldsLock, Op
  <1>26. ASSUME NEW c \in Conn, NEW s \in SessionId, Refresh(c, s) PROVE Suspended'
    BY <1>26, NullAssumption
       DEF Refresh, AwaitLock, Goto, InMemory, TypeOK, Suspended, EntryShape,
           HasTransport, HoldsLock, Op
  <1>27. ASSUME NEW c \in Conn, RefreshTransport(c) PROVE Suspended'
    BY <1>27, NullAssumption
       DEF RefreshTransport, Goto, Route, SetPanes, InMemory, ReturnUnlocking, Return,
           TypeOK, Suspended, EntryShape, HasTransport, HoldsLock, Op
  <1>28. ASSUME NEW c \in Conn, NEW s \in SessionId, NEW p \in Pane, Input(c, s, p)
         PROVE  Suspended'
    BY <1>28, NullAssumption
       DEF Input, AwaitLock, Goto, InMemory, TypeOK, Suspended, EntryShape,
           HasTransport, HoldsLock, Op
  <1>29. ASSUME NEW c \in Conn, InputTransport(c) PROVE Suspended'
    BY <1>29, NullAssumption
       DEF InputTransport, ReturnUnlocking, Return, Goto, TypeOK, Suspended,
           EntryShape, InMemory, HasTransport, HoldsLock, Op
  <1>30. ASSUME NEW c \in Conn, Close(c) PROVE Suspended'
    BY <1>30, NullAssumption
       DEF Close, LeaveWebSocket, LeaveWebTransport,
           Goto, TypeOK, Suspended, EntryShape, InMemory, HasTransport,
           HoldsLock, Op
  <1>31. ASSUME NEW c \in Conn, NEW s \in SessionId, CleanupDisconnect(c, s)
         PROVE  Suspended'
    BY <1>31, NullAssumption
       DEF CleanupDisconnect, BeginDisconnect, Unroute, AwaitLock, Goto, InMemory,
           TypeOK, Suspended, EntryShape, HasTransport, HoldsLock, Op
  <1>32. ASSUME NEW c \in Conn, CleanupDone(c) PROVE Suspended'
    BY <1>32, NullAssumption
       DEF CleanupDone, Goto, TypeOK, Suspended, EntryShape, InMemory, HasTransport,
           HoldsLock, Op
  <1>33. ASSUME NEW t \in TransportId, DropTransport(t) PROVE Suspended'
    BY <1>33, NullAssumption
       DEF DropTransport, Referenced, TypeOK, Suspended, EntryShape, InMemory,
           HasTransport, HoldsLock, Op
  <1>34. ASSUME NEW t \in TransportId, LinkEnds(t) PROVE Suspended'
    BY <1>34, NullAssumption
       DEF LinkEnds, TypeOK, Suspended, EntryShape, InMemory,
           HasTransport, HoldsLock, Op
  <1>35. ASSUME Restart PROVE Suspended'
    BY <1>35, NullAssumption
       DEF Restart, NoRows, TypeOK, Suspended, EntryShape, InMemory, HasTransport,
           HoldsLock, Op
  <1>36. CASE UNCHANGED vars
    BY <1>36 DEF vars, TypeOK, Suspended, EntryShape, InMemory, HasTransport, HoldsLock, Op
  <1>. QED
    BY <1>1, <1>2, <1>3, <1>4, <1>5, <1>6, <1>7, <1>8, <1>9, <1>10, <1>11, <1>12,
       <1>13, <1>14, <1>15, <1>16, <1>17, <1>18, <1>19, <1>20, <1>21, <1>22,
       <1>23, <1>24, <1>25, <1>26, <1>27, <1>28, <1>29, <1>30, <1>31, <1>32,
       <1>33, <1>34, <1>35, <1>36
       DEF Next, Advance, Client

(* The fields of an entry come and go together.                            *)
LEMMA EntryShapeStep ==
  ASSUME TypeOK, Suspended, EntryShape, [Next]_vars
  PROVE  EntryShape'
  <1>1. ASSUME NEW c \in Conn, Open(c) PROVE EntryShape'
    BY <1>1, NullAssumption DEF Open, Goto, TypeOK, Suspended, EntryShape, InMemory, Status
  <1>2. ASSUME NEW c \in Conn, ListSessions(c) PROVE EntryShape'
    BY <1>2, NullAssumption
       DEF ListSessions, Goto, TypeOK, Suspended, EntryShape, InMemory, Status
  <1>3. ASSUME NEW c \in Conn, LoadFetch(c) PROVE EntryShape'
    BY <1>3, NullAssumption
       DEF LoadFetch, Goto, TypeOK, Suspended, EntryShape, InMemory, Status
  <1>4. ASSUME NEW c \in Conn, NEW s \in SessionId, LoadListed(c, s) PROVE EntryShape'
    BY <1>4, NullAssumption DEF LoadListed, InMemory, TypeOK, Suspended, EntryShape, Status
  <1>5. ASSUME NEW c \in Conn, NEW s \in SessionId, LoadAbsent(c, s) PROVE EntryShape'
    BY <1>5, NullAssumption
       DEF LoadAbsent, Goto, InMemory, TypeOK, Suspended, EntryShape, Status
  <1>6. ASSUME NEW c \in Conn, LoadPut(c) PROVE EntryShape'
    BY <1>6, NullAssumption
       DEF LoadPut, Goto, InsertEntry, StatusOfRow, InMemory, TypeOK, Suspended,
           EntryShape, Status
  <1>7. ASSUME NEW c \in Conn, LoadDone(c) PROVE EntryShape'
    BY <1>7, NullAssumption
       DEF LoadDone, Goto, TypeOK, Suspended, EntryShape, InMemory, Status
  <1>8. ASSUME NEW c \in Conn, NEW s \in SessionId, Create(c, s) PROVE EntryShape'
    BY <1>8, NullAssumption
       DEF Create, Goto, TypeOK, Suspended, EntryShape, InMemory, Status
  <1>9. ASSUME NEW c \in Conn, CreatePut(c) PROVE EntryShape'
    BY <1>9, NullAssumption
       DEF CreatePut, Goto, InsertEntry, Return, InMemory, TypeOK, Suspended,
           EntryShape, Status
  <1>10. ASSUME NEW c \in Conn, NEW s \in SessionId, Connect(c, s) PROVE EntryShape'
    BY <1>10, NullAssumption
       DEF Connect, Goto, SetStatus, InMemory, TypeOK, Suspended, EntryShape, Status
  <1>11. ASSUME NEW c \in Conn, ConnectDb(c) PROVE EntryShape'
    BY <1>11, NullAssumption
       DEF ConnectDb, Goto, UpdateRow, AwaitLock, TypeOK, Suspended, EntryShape,
           InMemory, Status
  <1>12. ASSUME NEW c \in Conn, Lock(c) PROVE EntryShape'
    BY <1>12, NullAssumption DEF Lock, Goto, TypeOK, Suspended, EntryShape, InMemory, Status
  <1>13. ASSUME NEW c \in Conn, ConnectClose(c) PROVE EntryShape'
    BY <1>13, NullAssumption
       DEF ConnectClose, Goto, TypeOK, Suspended, EntryShape, InMemory, Status
  <1>14. ASSUME NEW c \in Conn, ConnectOk(c) PROVE EntryShape'
    BY <1>14, NullAssumption
       DEF ConnectOk, Connected, Goto, TypeOK, Suspended, EntryShape, InMemory, Status
  <1>15. ASSUME NEW c \in Conn, ConnectFail(c) PROVE EntryShape'
    BY <1>15, NullAssumption
       DEF ConnectFail, Goto, SetStatus, InMemory, TransportError, TypeOK, Suspended,
           EntryShape, Status
  <1>16. ASSUME NEW c \in Conn, ConnectPublish(c) PROVE EntryShape'
    BY <1>16, NullAssumption
       DEF ConnectPublish, Goto, Route, SetStatus, SetPanes, InMemory, TypeOK,
           Suspended, EntryShape, Status
  <1>17. ASSUME NEW c \in Conn, ConnectedDb(c) PROVE EntryShape'
    BY <1>17, NullAssumption
       DEF ConnectedDb, Goto, UpdateRow, ReturnUnlocking, Return, TypeOK, Suspended,
           EntryShape, InMemory, Status
  <1>18. ASSUME NEW c \in Conn, ErrorDb(c) PROVE EntryShape'
    BY <1>18, NullAssumption
       DEF ErrorDb, Goto, UpdateRow, ReturnUnlocking, Return, TypeOK, Suspended,
           EntryShape, InMemory, Status
  <1>19. ASSUME NEW c \in Conn, NEW s \in SessionId, Disconnect(c, s) PROVE EntryShape'
    BY <1>19, NullAssumption
       DEF Disconnect, BeginDisconnect, Unroute, AwaitLock, Goto, InMemory, TypeOK,
           Suspended, EntryShape, Status
  <1>20. ASSUME NEW c \in Conn, DisconnectTransport(c) PROVE EntryShape'
    BY <1>20, NullAssumption
       DEF DisconnectTransport, Goto, SetStatus, SetPanes, InMemory, TypeOK, Suspended,
           EntryShape, Status
  <1>21. ASSUME NEW c \in Conn, DisconnectMap(c) PROVE EntryShape'
    BY <1>21, NullAssumption
       DEF DisconnectMap, Goto, SetStatus, SetPanes, InMemory, TypeOK, Suspended,
           EntryShape, Status
  <1>22. ASSUME NEW c \in Conn, DisconnectedDb(c) PROVE EntryShape'
    BY <1>22, NullAssumption
       DEF DisconnectedDb, Goto, UpdateRow, ReturnUnlocking, Return, TypeOK, Suspended,
           EntryShape, InMemory, Status
  <1>23. ASSUME NEW c \in Conn, NEW s \in SessionId, Delete(c, s) PROVE EntryShape'
    BY <1>23, NullAssumption
       DEF Delete, Unroute, AwaitLock, Goto, InMemory, TypeOK, Suspended, EntryShape,
           Status
  <1>24. ASSUME NEW c \in Conn, DeleteTransport(c) PROVE EntryShape'
    BY <1>24, NullAssumption
       DEF DeleteTransport, Goto, TypeOK, Suspended, EntryShape, InMemory, Status
  <1>25. ASSUME NEW c \in Conn, DeleteDb(c) PROVE EntryShape'
    BY <1>25, NullAssumption
       DEF DeleteDb, Goto, ReturnUnlocking, Return, TypeOK, Suspended, EntryShape,
           InMemory, Status
  <1>26. ASSUME NEW c \in Conn, NEW s \in SessionId, Refresh(c, s) PROVE EntryShape'
    BY <1>26, NullAssumption
       DEF Refresh, AwaitLock, Goto, InMemory, TypeOK, Suspended, EntryShape, Status
  <1>27. ASSUME NEW c \in Conn, RefreshTransport(c) PROVE EntryShape'
    BY <1>27, NullAssumption
       DEF RefreshTransport, Goto, Route, SetPanes, InMemory, ReturnUnlocking, Return,
           TypeOK, Suspended, EntryShape, Status
  <1>28. ASSUME NEW c \in Conn, NEW s \in SessionId, NEW p \in Pane, Input(c, s, p)
         PROVE  EntryShape'
    BY <1>28, NullAssumption
       DEF Input, AwaitLock, Goto, InMemory, TypeOK, Suspended, EntryShape, Status
  <1>29. ASSUME NEW c \in Conn, InputTransport(c) PROVE EntryShape'
    BY <1>29, NullAssumption
       DEF InputTransport, ReturnUnlocking, Return, Goto, TypeOK, Suspended,
           EntryShape, InMemory, Status
  <1>30. ASSUME NEW c \in Conn, Close(c) PROVE EntryShape'
    BY <1>30, NullAssumption
       DEF Close, LeaveWebSocket, LeaveWebTransport,
           Goto, TypeOK, Suspended, EntryShape, InMemory, Status
  <1>31. ASSUME NEW c \in Conn, NEW s \in SessionId, CleanupDisconnect(c, s)
         PROVE  EntryShape'
    BY <1>31, NullAssumption
       DEF CleanupDisconnect, BeginDisconnect, Unroute, AwaitLock, Goto, InMemory,
           TypeOK, Suspended, EntryShape, Status
  <1>32. ASSUME NEW c \in Conn, CleanupDone(c) PROVE EntryShape'
    BY <1>32, NullAssumption
       DEF CleanupDone, Goto, TypeOK, Suspended, EntryShape, InMemory, Status
  <1>33. ASSUME NEW t \in TransportId, DropTransport(t) PROVE EntryShape'
    BY <1>33, NullAssumption
       DEF DropTransport, Referenced, TypeOK, Suspended, EntryShape, InMemory, Status
  <1>34. ASSUME NEW t \in TransportId, LinkEnds(t) PROVE EntryShape'
    BY <1>34, NullAssumption
       DEF LinkEnds, TypeOK, Suspended, EntryShape, InMemory, Status
  <1>35. ASSUME Restart PROVE EntryShape'
    BY <1>35, NullAssumption
       DEF Restart, NoRows, TypeOK, Suspended, EntryShape, InMemory, Status
  <1>36. CASE UNCHANGED vars
    BY <1>36 DEF vars, TypeOK, Suspended, EntryShape, InMemory, Status
  <1>. QED
    BY <1>1, <1>2, <1>3, <1>4, <1>5, <1>6, <1>7, <1>8, <1>9, <1>10, <1>11, <1>12,
       <1>13, <1>14, <1>15, <1>16, <1>17, <1>18, <1>19, <1>20, <1>21, <1>22,
       <1>23, <1>24, <1>25, <1>26, <1>27, <1>28, <1>29, <1>30, <1>31, <1>32,
       <1>33, <1>34, <1>35, <1>36
       DEF Next, Advance, Client

(* A request that neither holds nor takes a mutex does not disturb it.     *)
LEMMA LockFrame ==
  ASSUME TypeOK, LockDiscipline, NEW c \in Conn, pc[c] \notin HoldsLock,
         NEW l \in Pc \ HoldsLock, Goto(c, l), UNCHANGED holder,
         \A d \in Conn \ {c} : tr'[d] = tr[d]
  PROVE  LockDiscipline'
  BY NullAssumption DEF TypeOK, LockDiscipline, Goto

(* Every step keeps the mutexes disciplined.                               *)
LEMMA LockStep ==
  ASSUME TypeOK, Suspended, LockDiscipline, [Next]_vars
  PROVE  LockDiscipline'
  <1>1. ASSUME NEW c \in Conn, Open(c) PROVE LockDiscipline'
    BY <1>1, NullAssumption
       DEF Open, Goto, TypeOK, Suspended, LockDiscipline, HasTransport, HoldsLock, Op
  <1>2. ASSUME NEW c \in Conn, ListSessions(c) PROVE LockDiscipline'
    BY <1>2, NullAssumption
       DEF ListSessions, Goto, TypeOK, Suspended, LockDiscipline, HasTransport,
           HoldsLock, Op
  <1>3. ASSUME NEW c \in Conn, LoadFetch(c) PROVE LockDiscipline'
    <2>1. PICK l \in Pc \ HoldsLock : Goto(c, l)
      BY <1>3 DEF LoadFetch, Pc, HoldsLock, Op
    <2>2. pc[c] \notin HoldsLock /\ UNCHANGED <<holder, tr>>
      BY <1>3 DEF LoadFetch, HoldsLock, Op
    <2>3. QED
      BY <2>1, <2>2, LockFrame
  <1>4. ASSUME NEW c \in Conn, NEW s \in SessionId, LoadListed(c, s) PROVE LockDiscipline'
    BY <1>4, NullAssumption
       DEF LoadListed, InMemory, TypeOK, Suspended, LockDiscipline, HasTransport,
           HoldsLock, Op
  <1>5. ASSUME NEW c \in Conn, NEW s \in SessionId, LoadAbsent(c, s) PROVE LockDiscipline'
    BY <1>5, NullAssumption
       DEF LoadAbsent, Goto, InMemory, TypeOK, Suspended, LockDiscipline, HasTransport,
           HoldsLock, Op
  <1>6. ASSUME NEW c \in Conn, LoadPut(c) PROVE LockDiscipline'
    BY <1>6, NullAssumption
       DEF LoadPut, Goto, InsertEntry, StatusOfRow, InMemory, TypeOK, Suspended,
           LockDiscipline, HasTransport, HoldsLock, Op
  <1>7. ASSUME NEW c \in Conn, LoadDone(c) PROVE LockDiscipline'
    BY <1>7, NullAssumption
       DEF LoadDone, Goto, TypeOK, Suspended, LockDiscipline, HasTransport, HoldsLock,
           Op
  <1>8. ASSUME NEW c \in Conn, NEW s \in SessionId, Create(c, s) PROVE LockDiscipline'
    BY <1>8, NullAssumption
       DEF Create, Goto, TypeOK, Suspended, LockDiscipline, HasTransport, HoldsLock, Op
  <1>9. ASSUME NEW c \in Conn, CreatePut(c) PROVE LockDiscipline'
    BY <1>9, NullAssumption
       DEF CreatePut, Goto, InsertEntry, Return, InMemory, TypeOK, Suspended,
           LockDiscipline, HasTransport, HoldsLock, Op
  <1>10. ASSUME NEW c \in Conn, NEW s \in SessionId, Connect(c, s) PROVE LockDiscipline'
    BY <1>10, NullAssumption
       DEF Connect, Goto, SetStatus, InMemory, TypeOK, Suspended, LockDiscipline,
           HasTransport, HoldsLock, Op
  <1>11. ASSUME NEW c \in Conn, ConnectDb(c) PROVE LockDiscipline'
    BY <1>11, NullAssumption
       DEF ConnectDb, Goto, UpdateRow, AwaitLock, TypeOK, Suspended, LockDiscipline,
           HasTransport, HoldsLock, Op
  <1>12. ASSUME NEW c \in Conn, Lock(c) PROVE LockDiscipline'
    BY <1>12, NullAssumption
       DEF Lock, Goto, TypeOK, Suspended, LockDiscipline, HasTransport, HoldsLock, Op
  <1>13. ASSUME NEW c \in Conn, ConnectClose(c) PROVE LockDiscipline'
    BY <1>13, NullAssumption
       DEF ConnectClose, Goto, TypeOK, Suspended, LockDiscipline, HasTransport, HoldsLock,
           Op
  <1>14. ASSUME NEW c \in Conn, ConnectOk(c) PROVE LockDiscipline'
    BY <1>14, NullAssumption
       DEF ConnectOk, Connected, Goto, TypeOK, Suspended, LockDiscipline, HasTransport, HoldsLock,
           Op
  <1>15. ASSUME NEW c \in Conn, ConnectFail(c) PROVE LockDiscipline'
    BY <1>15, NullAssumption
       DEF ConnectFail, Goto, SetStatus, InMemory, TransportError, TypeOK, Suspended,
           LockDiscipline, HasTransport, HoldsLock, Op
  <1>16. ASSUME NEW c \in Conn, ConnectPublish(c) PROVE LockDiscipline'
    BY <1>16, NullAssumption
       DEF ConnectPublish, Goto, Route, SetStatus, SetPanes, InMemory, TypeOK,
           Suspended, LockDiscipline, HasTransport, HoldsLock, Op
  <1>17. ASSUME NEW c \in Conn, ConnectedDb(c) PROVE LockDiscipline'
    BY <1>17, NullAssumption
       DEF ConnectedDb, Goto, UpdateRow, ReturnUnlocking, Return, TypeOK, Suspended,
           LockDiscipline, HasTransport, HoldsLock, Op
  <1>18. ASSUME NEW c \in Conn, ErrorDb(c) PROVE LockDiscipline'
    BY <1>18, NullAssumption
       DEF ErrorDb, Goto, UpdateRow, ReturnUnlocking, Return, TypeOK, Suspended,
           LockDiscipline, HasTransport, HoldsLock, Op
  <1>19. ASSUME NEW c \in Conn, NEW s \in SessionId, Disconnect(c, s) PROVE LockDiscipline'
    <2>1. pc[c] \notin HoldsLock /\ UNCHANGED holder
      BY <1>19 DEF Disconnect, BeginDisconnect, HoldsLock, Op
    <2>2. CASE UNCHANGED <<pc, tr>>
      BY <2>1, <2>2 DEF LockDiscipline
    <2>3. CASE \E o \in Op : AwaitLock(c, o, s, transport[s])
      <3>1. Goto(c, "lock") /\ \A d \in Conn \ {c} : tr'[d] = tr[d]
        BY <2>3 DEF AwaitLock, TypeOK
      <3>2. "lock" \in Pc \ HoldsLock
        BY DEF Pc, HoldsLock, Op
      <3>3. QED
        BY <2>1, <3>1, <3>2, LockFrame
    <2>4. QED
      BY <1>19, <2>2, <2>3 DEF Disconnect, BeginDisconnect, Op
  <1>20. ASSUME NEW c \in Conn, DisconnectTransport(c) PROVE LockDiscipline'
    BY <1>20, NullAssumption
       DEF DisconnectTransport, Goto, SetStatus, SetPanes, InMemory, TypeOK, Suspended,
           LockDiscipline, HasTransport, HoldsLock, Op
  <1>21. ASSUME NEW c \in Conn, DisconnectMap(c) PROVE LockDiscipline'
    BY <1>21, NullAssumption
       DEF DisconnectMap, Goto, SetStatus, SetPanes, InMemory, TypeOK, Suspended,
           LockDiscipline, HasTransport, HoldsLock, Op
  <1>22. ASSUME NEW c \in Conn, DisconnectedDb(c) PROVE LockDiscipline'
    BY <1>22, NullAssumption
       DEF DisconnectedDb, Goto, UpdateRow, ReturnUnlocking, Return, TypeOK, Suspended,
           LockDiscipline, HasTransport, HoldsLock, Op
  <1>23. ASSUME NEW c \in Conn, NEW s \in SessionId, Delete(c, s) PROVE LockDiscipline'
    <2>1. pc[c] \notin HoldsLock /\ UNCHANGED holder
      BY <1>23 DEF Delete, HoldsLock, Op
    <2>2. CASE UNCHANGED <<pc, tr>>
      BY <2>1, <2>2 DEF LockDiscipline
    <2>3. CASE \E o \in Op : AwaitLock(c, o, s, transport[s])
      <3>1. Goto(c, "lock") /\ \A d \in Conn \ {c} : tr'[d] = tr[d]
        BY <2>3 DEF AwaitLock, TypeOK
      <3>2. "lock" \in Pc \ HoldsLock
        BY DEF Pc, HoldsLock, Op
      <3>3. QED
        BY <2>1, <3>1, <3>2, LockFrame
    <2>4. QED
      BY <1>23, <2>2, <2>3 DEF Delete, Op
  <1>24. ASSUME NEW c \in Conn, DeleteTransport(c) PROVE LockDiscipline'
    BY <1>24, NullAssumption
       DEF DeleteTransport, Goto, TypeOK, Suspended, LockDiscipline, HasTransport,
           HoldsLock, Op
  <1>25. ASSUME NEW c \in Conn, DeleteDb(c) PROVE LockDiscipline'
    BY <1>25, NullAssumption
       DEF DeleteDb, Goto, ReturnUnlocking, Return, TypeOK, Suspended, LockDiscipline,
           HasTransport, HoldsLock, Op
  <1>26. ASSUME NEW c \in Conn, NEW s \in SessionId, Refresh(c, s) PROVE LockDiscipline'
    BY <1>26, NullAssumption
       DEF Refresh, AwaitLock, Goto, InMemory, TypeOK, Suspended, LockDiscipline,
           HasTransport, HoldsLock, Op
  <1>27. ASSUME NEW c \in Conn, RefreshTransport(c) PROVE LockDiscipline'
    BY <1>27, NullAssumption
       DEF RefreshTransport, Goto, Route, SetPanes, InMemory, ReturnUnlocking, Return,
           TypeOK, Suspended, LockDiscipline, HasTransport, HoldsLock, Op
  <1>28. ASSUME NEW c \in Conn, NEW s \in SessionId, NEW p \in Pane, Input(c, s, p)
         PROVE  LockDiscipline'
    BY <1>28, NullAssumption
       DEF Input, AwaitLock, Goto, InMemory, TypeOK, Suspended, LockDiscipline,
           HasTransport, HoldsLock, Op
  <1>29. ASSUME NEW c \in Conn, InputTransport(c) PROVE LockDiscipline'
    BY <1>29, NullAssumption
       DEF InputTransport, ReturnUnlocking, Return, Goto, TypeOK, Suspended,
           LockDiscipline, HasTransport, HoldsLock, Op
  <1>30. ASSUME NEW c \in Conn, Close(c) PROVE LockDiscipline'
    <2>1. /\ pc[c] = "idle"
          /\ UNCHANGED <<holder, tr>>
          /\ \E l \in {"load", "closed"} : pc' = [pc EXCEPT ![c] = l]
      BY <1>30 DEF Close, LeaveWebSocket, LeaveWebTransport, Goto, objects
    <2>2. \A d \in Conn : (pc'[d] \in HoldsLock) = (pc[d] \in HoldsLock)
      BY <2>1 DEF TypeOK, HoldsLock, Op
    <2>. QED BY <2>1, <2>2, NullAssumption DEF LockDiscipline, TypeOK
  <1>31. ASSUME NEW c \in Conn, NEW s \in SessionId, CleanupDisconnect(c, s)
         PROVE  LockDiscipline'
    <2>1. pc[c] \notin HoldsLock /\ UNCHANGED holder
      BY <1>31 DEF CleanupDisconnect, BeginDisconnect, HoldsLock, Op
    <2>2. CASE UNCHANGED <<pc, tr>>
      BY <2>1, <2>2 DEF LockDiscipline
    <2>3. CASE \E o \in Op : AwaitLock(c, o, s, transport[s])
      <3>1. Goto(c, "lock") /\ \A d \in Conn \ {c} : tr'[d] = tr[d]
        BY <2>3 DEF AwaitLock, TypeOK
      <3>2. "lock" \in Pc \ HoldsLock
        BY DEF Pc, HoldsLock, Op
      <3>3. QED
        BY <2>1, <3>1, <3>2, LockFrame
    <2>4. QED
      BY <1>31, <2>2, <2>3 DEF CleanupDisconnect, BeginDisconnect, Op
  <1>32. ASSUME NEW c \in Conn, CleanupDone(c) PROVE LockDiscipline'
    BY <1>32, NullAssumption
       DEF CleanupDone, Goto, TypeOK, Suspended, LockDiscipline, HasTransport,
           HoldsLock, Op
  <1>33. ASSUME NEW t \in TransportId, DropTransport(t) PROVE LockDiscipline'
    BY <1>33, NullAssumption
       DEF DropTransport, Referenced, TypeOK, Suspended, LockDiscipline, HasTransport,
           HoldsLock, Op
  <1>34. ASSUME NEW t \in TransportId, LinkEnds(t) PROVE LockDiscipline'
    BY <1>34, NullAssumption
       DEF LinkEnds, TypeOK, Suspended, LockDiscipline, HasTransport,
           HoldsLock, Op
  <1>35. ASSUME Restart PROVE LockDiscipline'
    BY <1>35, NullAssumption
       DEF Restart, NoRows, TypeOK, Suspended, LockDiscipline, HasTransport, HoldsLock,
           Op
  <1>36. CASE UNCHANGED vars
    BY <1>36 DEF vars, TypeOK, Suspended, LockDiscipline, HasTransport, HoldsLock, Op
  <1>. QED
    BY <1>1, <1>2, <1>3, <1>4, <1>5, <1>6, <1>7, <1>8, <1>9, <1>10, <1>11, <1>12,
       <1>13, <1>14, <1>15, <1>16, <1>17, <1>18, <1>19, <1>20, <1>21, <1>22,
       <1>23, <1>24, <1>25, <1>26, <1>27, <1>28, <1>29, <1>30, <1>31, <1>32,
       <1>33, <1>34, <1>35, <1>36
       DEF Next, Advance, Client

(* A request that clones the Arc of an entry refers to its transport.      *)
LEMMA OwnershipFrame ==
  ASSUME TypeOK, EntryShape, Ownership,
         NEW c \in Conn, NEW s \in SessionId, NEW o \in Op,
         InMemory(s), AwaitLock(c, o, s, transport[s]), UNCHANGED owner,
         \A x \in SessionId : InMemory(x)' => InMemory(x) /\ transport'[x] = transport[x]
  PROVE  Ownership'
  <1>1. transport[s] # NoTransport /\ owner[transport[s]] = s
    BY DEF EntryShape, Ownership
  <1>2. \A x \in SessionId : InMemory(x)' => owner'[transport'[x]] = x
    BY DEF Ownership
  <1>3. tr' = [tr EXCEPT ![c] = transport[s]] /\ sid' = [sid EXCEPT ![c] = s]
    BY DEF AwaitLock
  <1>4. \A d \in Conn : tr'[d] # NoTransport => owner'[tr'[d]] # NoSession
    BY <1>1, <1>3, NullAssumption DEF Ownership, TypeOK
  <1>5. \A d \in Conn \ {c} : pc'[d] = pc[d] /\ op'[d] = op[d]
    BY DEF AwaitLock, Goto, TypeOK
  <1>6. \A d \in Conn : WorksOn(d)' => owner'[tr'[d]] = sid'[d]
    BY <1>1, <1>3, <1>5 DEF Ownership, WorksOn, TypeOK
  <1>7. QED
    BY <1>2, <1>4, <1>6 DEF Ownership

(* Every step keeps references on allocated transports of their session.   *)
LEMMA OwnershipStep ==
  ASSUME TypeOK, Suspended, EntryShape, Ownership, [Next]_vars
  PROVE  Ownership'
  <1>1. ASSUME NEW c \in Conn, Open(c) PROVE Ownership'
    BY <1>1, NullAssumption
       DEF Open, Goto, TypeOK, Suspended, EntryShape, InMemory, Ownership, WorksOn,
           HasTransport, HoldsLock, Op, Status
  <1>2. ASSUME NEW c \in Conn, ListSessions(c) PROVE Ownership'
    BY <1>2, NullAssumption
       DEF ListSessions, Goto, TypeOK, Suspended, EntryShape, InMemory, Ownership,
           WorksOn, HasTransport, HoldsLock, Op, Status
  <1>3. ASSUME NEW c \in Conn, LoadFetch(c) PROVE Ownership'
    BY <1>3, NullAssumption
       DEF LoadFetch, Goto, TypeOK, Suspended, EntryShape, InMemory, Ownership,
           WorksOn, HasTransport, HoldsLock, Op, Status
  <1>4. ASSUME NEW c \in Conn, NEW s \in SessionId, LoadListed(c, s) PROVE Ownership'
    BY <1>4, NullAssumption
       DEF LoadListed, InMemory, TypeOK, Suspended, EntryShape, Ownership, WorksOn,
           HasTransport, HoldsLock, Op, Status
  <1>5. ASSUME NEW c \in Conn, NEW s \in SessionId, LoadAbsent(c, s) PROVE Ownership'
    BY <1>5, NullAssumption
       DEF LoadAbsent, Goto, InMemory, TypeOK, Suspended, EntryShape, Ownership,
           WorksOn, HasTransport, HoldsLock, Op, Status
  <1>6. ASSUME NEW c \in Conn, LoadPut(c) PROVE Ownership'
    BY <1>6, NullAssumption
       DEF LoadPut, Goto, InsertEntry, StatusOfRow, InMemory, TypeOK, Suspended,
           EntryShape, Ownership, WorksOn, HasTransport, HoldsLock, Op, Status
  <1>7. ASSUME NEW c \in Conn, LoadDone(c) PROVE Ownership'
    BY <1>7, NullAssumption
       DEF LoadDone, Goto, TypeOK, Suspended, EntryShape, InMemory, Ownership, WorksOn,
           HasTransport, HoldsLock, Op, Status
  <1>8. ASSUME NEW c \in Conn, NEW s \in SessionId, Create(c, s) PROVE Ownership'
    BY <1>8, NullAssumption
       DEF Create, Goto, TypeOK, Suspended, EntryShape, InMemory, Ownership, WorksOn,
           HasTransport, HoldsLock, Op, Status
  <1>9. ASSUME NEW c \in Conn, CreatePut(c) PROVE Ownership'
    BY <1>9, NullAssumption
       DEF CreatePut, Goto, InsertEntry, Return, InMemory, TypeOK, Suspended,
           EntryShape, Ownership, WorksOn, HasTransport, HoldsLock, Op, Status
  <1>10. ASSUME NEW c \in Conn, NEW s \in SessionId, Connect(c, s) PROVE Ownership'
    BY <1>10, NullAssumption
       DEF Connect, Goto, SetStatus, InMemory, TypeOK, Suspended, EntryShape,
           Ownership, WorksOn, HasTransport, HoldsLock, Op, Status
  <1>11. ASSUME NEW c \in Conn, ConnectDb(c) PROVE Ownership'
    <2>1. UNCHANGED <<status, transport, owner, sid, tr>>
      BY <1>11 DEF ConnectDb, AwaitLock, TypeOK
    <2>2. WorksOn(c) /\ \A d \in Conn \ {c} : WorksOn(d)' = WorksOn(d)
      BY <1>11 DEF ConnectDb, AwaitLock, Goto, WorksOn, HasTransport, TypeOK
    <2>3. QED
      BY <2>1, <2>2 DEF Ownership, InMemory
  <1>12. ASSUME NEW c \in Conn, Lock(c) PROVE Ownership'
    BY <1>12, NullAssumption
       DEF Lock, Goto, TypeOK, Suspended, EntryShape, InMemory, Ownership, WorksOn,
           HasTransport, HoldsLock, Op, Status
  <1>13. ASSUME NEW c \in Conn, ConnectClose(c) PROVE Ownership'
    BY <1>13, NullAssumption
       DEF ConnectClose, Goto, TypeOK, Suspended, EntryShape, InMemory, Ownership,
           WorksOn, HasTransport, HoldsLock, Op, Status
  <1>14. ASSUME NEW c \in Conn, ConnectOk(c) PROVE Ownership'
    BY <1>14, NullAssumption
       DEF ConnectOk, Connected, Goto, TypeOK, Suspended, EntryShape, InMemory, Ownership,
           WorksOn, HasTransport, HoldsLock, Op, Status
  <1>15. ASSUME NEW c \in Conn, ConnectFail(c) PROVE Ownership'
    BY <1>15, NullAssumption
       DEF ConnectFail, Goto, SetStatus, InMemory, TransportError, TypeOK, Suspended,
           EntryShape, Ownership, WorksOn, HasTransport, HoldsLock, Op, Status
  <1>16. ASSUME NEW c \in Conn, ConnectPublish(c) PROVE Ownership'
    BY <1>16, NullAssumption
       DEF ConnectPublish, Goto, Route, SetStatus, SetPanes, InMemory, TypeOK,
           Suspended, EntryShape, Ownership, WorksOn, HasTransport, HoldsLock, Op,
           Status
  <1>17. ASSUME NEW c \in Conn, ConnectedDb(c) PROVE Ownership'
    BY <1>17, NullAssumption
       DEF ConnectedDb, Goto, UpdateRow, ReturnUnlocking, Return, TypeOK, Suspended,
           EntryShape, InMemory, Ownership, WorksOn, HasTransport, HoldsLock, Op,
           Status
  <1>18. ASSUME NEW c \in Conn, ErrorDb(c) PROVE Ownership'
    BY <1>18, NullAssumption
       DEF ErrorDb, Goto, UpdateRow, ReturnUnlocking, Return, TypeOK, Suspended,
           EntryShape, InMemory, Ownership, WorksOn, HasTransport, HoldsLock, Op,
           Status
  <1>19. ASSUME NEW c \in Conn, NEW s \in SessionId, Disconnect(c, s) PROVE Ownership'
    <2>1. UNCHANGED owner /\ \A x \in SessionId : InMemory(x)' => InMemory(x) /\ transport'[x] = transport[x]
      BY <1>19 DEF Disconnect, BeginDisconnect, InMemory, TypeOK
    <2>2. CASE UNCHANGED <<pc, op, sid, tr>>
      BY <2>1, <2>2 DEF Ownership, WorksOn
    <2>3. CASE InMemory(s) /\ \E o \in Op : AwaitLock(c, o, s, transport[s])
      BY <2>1, <2>3, OwnershipFrame
    <2>4. QED
      BY <1>19, <2>2, <2>3 DEF Disconnect, BeginDisconnect, Op
  <1>20. ASSUME NEW c \in Conn, DisconnectTransport(c) PROVE Ownership'
    BY <1>20, NullAssumption
       DEF DisconnectTransport, Goto, SetStatus, SetPanes, InMemory, TypeOK, Suspended,
           EntryShape, Ownership, WorksOn, HasTransport, HoldsLock, Op, Status
  <1>21. ASSUME NEW c \in Conn, DisconnectMap(c) PROVE Ownership'
    BY <1>21, NullAssumption
       DEF DisconnectMap, Goto, SetStatus, SetPanes, InMemory, TypeOK, Suspended,
           EntryShape, Ownership, WorksOn, HasTransport, HoldsLock, Op, Status
  <1>22. ASSUME NEW c \in Conn, DisconnectedDb(c) PROVE Ownership'
    BY <1>22, NullAssumption
       DEF DisconnectedDb, Goto, UpdateRow, ReturnUnlocking, Return, TypeOK, Suspended,
           EntryShape, InMemory, Ownership, WorksOn, HasTransport, HoldsLock, Op,
           Status
  <1>23. ASSUME NEW c \in Conn, NEW s \in SessionId, Delete(c, s) PROVE Ownership'
    <2>1. UNCHANGED owner /\ \A x \in SessionId : InMemory(x)' => InMemory(x) /\ transport'[x] = transport[x]
      BY <1>23 DEF Delete, InMemory, TypeOK
    <2>2. CASE UNCHANGED <<pc, op, sid, tr>>
      BY <2>1, <2>2 DEF Ownership, WorksOn
    <2>3. CASE InMemory(s) /\ \E o \in Op : AwaitLock(c, o, s, transport[s])
      BY <2>1, <2>3, OwnershipFrame
    <2>4. QED
      BY <1>23, <2>2, <2>3 DEF Delete, Op
  <1>24. ASSUME NEW c \in Conn, DeleteTransport(c) PROVE Ownership'
    BY <1>24, NullAssumption
       DEF DeleteTransport, Goto, TypeOK, Suspended, EntryShape, InMemory, Ownership,
           WorksOn, HasTransport, HoldsLock, Op, Status
  <1>25. ASSUME NEW c \in Conn, DeleteDb(c) PROVE Ownership'
    BY <1>25, NullAssumption
       DEF DeleteDb, Goto, ReturnUnlocking, Return, TypeOK, Suspended, EntryShape,
           InMemory, Ownership, WorksOn, HasTransport, HoldsLock, Op, Status
  <1>26. ASSUME NEW c \in Conn, NEW s \in SessionId, Refresh(c, s) PROVE Ownership'
    BY <1>26, NullAssumption
       DEF Refresh, AwaitLock, Goto, InMemory, TypeOK, Suspended, EntryShape,
           Ownership, WorksOn, HasTransport, HoldsLock, Op, Status
  <1>27. ASSUME NEW c \in Conn, RefreshTransport(c) PROVE Ownership'
    BY <1>27, NullAssumption
       DEF RefreshTransport, Goto, Route, SetPanes, InMemory, ReturnUnlocking, Return,
           TypeOK, Suspended, EntryShape, Ownership, WorksOn, HasTransport, HoldsLock,
           Op, Status
  <1>28. ASSUME NEW c \in Conn, NEW s \in SessionId, NEW p \in Pane, Input(c, s, p)
         PROVE  Ownership'
    BY <1>28, NullAssumption
       DEF Input, AwaitLock, Goto, InMemory, TypeOK, Suspended, EntryShape, Ownership,
           WorksOn, HasTransport, HoldsLock, Op, Status
  <1>29. ASSUME NEW c \in Conn, InputTransport(c) PROVE Ownership'
    BY <1>29, NullAssumption
       DEF InputTransport, ReturnUnlocking, Return, Goto, TypeOK, Suspended,
           EntryShape, InMemory, Ownership, WorksOn, HasTransport, HoldsLock, Op,
           Status
  <1>30. ASSUME NEW c \in Conn, Close(c) PROVE Ownership'
    BY <1>30, NullAssumption
       DEF Close, LeaveWebSocket, LeaveWebTransport,
           Goto, TypeOK, Suspended, EntryShape, InMemory, Ownership, WorksOn,
           HasTransport, HoldsLock, Op, Status
  <1>31. ASSUME NEW c \in Conn, NEW s \in SessionId, CleanupDisconnect(c, s)
         PROVE  Ownership'
    <2>1. UNCHANGED owner /\ \A x \in SessionId : InMemory(x)' => InMemory(x) /\ transport'[x] = transport[x]
      BY <1>31 DEF CleanupDisconnect, BeginDisconnect, InMemory, TypeOK
    <2>2. CASE UNCHANGED <<pc, op, sid, tr>>
      BY <2>1, <2>2 DEF Ownership, WorksOn
    <2>3. CASE InMemory(s) /\ \E o \in Op : AwaitLock(c, o, s, transport[s])
      BY <2>1, <2>3, OwnershipFrame
    <2>4. QED
      BY <1>31, <2>2, <2>3 DEF CleanupDisconnect, BeginDisconnect, Op
  <1>32. ASSUME NEW c \in Conn, CleanupDone(c) PROVE Ownership'
    BY <1>32, NullAssumption
       DEF CleanupDone, Goto, TypeOK, Suspended, EntryShape, InMemory, Ownership,
           WorksOn, HasTransport, HoldsLock, Op, Status
  <1>33. ASSUME NEW t \in TransportId, DropTransport(t) PROVE Ownership'
    BY <1>33, NullAssumption
       DEF DropTransport, Referenced, TypeOK, Suspended, EntryShape, InMemory,
           Ownership, WorksOn, HasTransport, HoldsLock, Op, Status
  <1>34. ASSUME NEW t \in TransportId, LinkEnds(t) PROVE Ownership'
    BY <1>34, NullAssumption
       DEF LinkEnds, TypeOK, Suspended, EntryShape, InMemory,
           Ownership, WorksOn, HasTransport, HoldsLock, Op, Status
  <1>35. ASSUME Restart PROVE Ownership'
    BY <1>35, NullAssumption
       DEF Restart, NoRows, TypeOK, Suspended, EntryShape, InMemory, Ownership,
           WorksOn, HasTransport, HoldsLock, Op, Status
  <1>36. CASE UNCHANGED vars
    BY <1>36
       DEF vars, TypeOK, Suspended, EntryShape, InMemory, Ownership, WorksOn,
           HasTransport, HoldsLock, Op, Status
  <1>. QED
    BY <1>1, <1>2, <1>3, <1>4, <1>5, <1>6, <1>7, <1>8, <1>9, <1>10, <1>11, <1>12,
       <1>13, <1>14, <1>15, <1>16, <1>17, <1>18, <1>19, <1>20, <1>21, <1>22,
       <1>23, <1>24, <1>25, <1>26, <1>27, <1>28, <1>29, <1>30, <1>31, <1>32,
       <1>33, <1>34, <1>35, <1>36
       DEF Next, Advance, Client

(* No step makes up a uuid.                                                *)
LEMMA IssuedStep ==
  ASSUME TypeOK, Suspended, Issued, [Next]_vars
  PROVE  Issued'
  <1>1. ASSUME NEW c \in Conn, Open(c) PROVE Issued'
    BY <1>1, NullAssumption
       DEF Open, Goto, TypeOK, Suspended, Issued, HasTransport, HoldsLock, Op, NoRows
  <1>2. ASSUME NEW c \in Conn, ListSessions(c) PROVE Issued'
    BY <1>2, NullAssumption
       DEF ListSessions, Goto, TypeOK, Suspended, Issued, HasTransport, HoldsLock, Op,
           NoRows
  <1>3. ASSUME NEW c \in Conn, LoadFetch(c) PROVE Issued'
    <2>1. UNCHANGED <<rows, issued, owner, sid>> /\ \A d \in Conn : fetched'[d] \in {fetched[d], rows}
      BY <1>3 DEF LoadFetch, TypeOK
    <2>2. \A d \in Conn : pc'[d] \in {"load_put", "create_put"} => pc[d] \in {"load_put", "create_put"}
      BY <1>3 DEF LoadFetch, Goto, TypeOK
    <2>3. QED
      BY <2>1, <2>2 DEF Issued
  <1>4. ASSUME NEW c \in Conn, NEW s \in SessionId, LoadListed(c, s) PROVE Issued'
    BY <1>4, NullAssumption
       DEF LoadListed, InMemory, TypeOK, Suspended, Issued, HasTransport, HoldsLock,
           Op, NoRows
  <1>5. ASSUME NEW c \in Conn, NEW s \in SessionId, LoadAbsent(c, s) PROVE Issued'
    BY <1>5, NullAssumption
       DEF LoadAbsent, Goto, InMemory, TypeOK, Suspended, Issued, HasTransport,
           HoldsLock, Op, NoRows
  <1>6. ASSUME NEW c \in Conn, LoadPut(c) PROVE Issued'
    BY <1>6, NullAssumption
       DEF LoadPut, Goto, InsertEntry, StatusOfRow, InMemory, TypeOK, Suspended,
           Issued, HasTransport, HoldsLock, Op, NoRows
  <1>7. ASSUME NEW c \in Conn, LoadDone(c) PROVE Issued'
    BY <1>7, NullAssumption
       DEF LoadDone, Goto, TypeOK, Suspended, Issued, HasTransport, HoldsLock, Op,
           NoRows
  <1>8. ASSUME NEW c \in Conn, NEW s \in SessionId, Create(c, s) PROVE Issued'
    BY <1>8, NullAssumption
       DEF Create, Goto, TypeOK, Suspended, Issued, HasTransport, HoldsLock, Op, NoRows
  <1>9. ASSUME NEW c \in Conn, CreatePut(c) PROVE Issued'
    BY <1>9, NullAssumption
       DEF CreatePut, Goto, InsertEntry, Return, InMemory, TypeOK, Suspended, Issued,
           HasTransport, HoldsLock, Op, NoRows
  <1>10. ASSUME NEW c \in Conn, NEW s \in SessionId, Connect(c, s) PROVE Issued'
    BY <1>10, NullAssumption
       DEF Connect, Goto, SetStatus, InMemory, TypeOK, Suspended, Issued, HasTransport,
           HoldsLock, Op, NoRows
  <1>11. ASSUME NEW c \in Conn, ConnectDb(c) PROVE Issued'
    BY <1>11, NullAssumption
       DEF ConnectDb, Goto, UpdateRow, AwaitLock, TypeOK, Suspended, Issued,
           HasTransport, HoldsLock, Op, NoRows
  <1>12. ASSUME NEW c \in Conn, Lock(c) PROVE Issued'
    <2>1. /\ UNCHANGED <<rows, owner, issued, sid, fetched>>
          /\ pc' = [pc EXCEPT ![c] = op[c]] /\ op[c] \in Op
      BY <1>12 DEF Lock, Goto, Suspended
    <2>2. \A d \in Conn : pc'[d] \in {"load_put", "create_put"} => pc[d] = pc'[d]
      BY <2>1 DEF TypeOK, Op
    <2> QED
      BY <2>1, <2>2 DEF Issued
  <1>13. ASSUME NEW c \in Conn, ConnectClose(c) PROVE Issued'
    BY <1>13, NullAssumption
       DEF ConnectClose, Goto, TypeOK, Suspended, Issued, HasTransport, HoldsLock, Op,
           NoRows
  <1>14. ASSUME NEW c \in Conn, ConnectOk(c) PROVE Issued'
    BY <1>14, NullAssumption
       DEF ConnectOk, Connected, Goto, TypeOK, Suspended, Issued, HasTransport, HoldsLock, Op,
           NoRows
  <1>15. ASSUME NEW c \in Conn, ConnectFail(c) PROVE Issued'
    BY <1>15, NullAssumption
       DEF ConnectFail, Goto, SetStatus, InMemory, TransportError, TypeOK, Suspended,
           Issued, HasTransport, HoldsLock, Op, NoRows
  <1>16. ASSUME NEW c \in Conn, ConnectPublish(c) PROVE Issued'
    BY <1>16, NullAssumption
       DEF ConnectPublish, Goto, Route, SetStatus, SetPanes, InMemory, TypeOK,
           Suspended, Issued, HasTransport, HoldsLock, Op, NoRows
  <1>17. ASSUME NEW c \in Conn, ConnectedDb(c) PROVE Issued'
    BY <1>17, NullAssumption
       DEF ConnectedDb, Goto, UpdateRow, ReturnUnlocking, Return, TypeOK, Suspended,
           Issued, HasTransport, HoldsLock, Op, NoRows
  <1>18. ASSUME NEW c \in Conn, ErrorDb(c) PROVE Issued'
    BY <1>18, NullAssumption
       DEF ErrorDb, Goto, UpdateRow, ReturnUnlocking, Return, TypeOK, Suspended,
           Issued, HasTransport, HoldsLock, Op, NoRows
  <1>19. ASSUME NEW c \in Conn, NEW s \in SessionId, Disconnect(c, s) PROVE Issued'
    BY <1>19, NullAssumption
       DEF Disconnect, BeginDisconnect, Unroute, AwaitLock, Goto, InMemory, TypeOK,
           Suspended, Issued, HasTransport, HoldsLock, Op, NoRows
  <1>20. ASSUME NEW c \in Conn, DisconnectTransport(c) PROVE Issued'
    BY <1>20, NullAssumption
       DEF DisconnectTransport, Goto, SetStatus, SetPanes, InMemory, TypeOK, Suspended,
           Issued, HasTransport, HoldsLock, Op, NoRows
  <1>21. ASSUME NEW c \in Conn, DisconnectMap(c) PROVE Issued'
    BY <1>21, NullAssumption
       DEF DisconnectMap, Goto, SetStatus, SetPanes, InMemory, TypeOK, Suspended,
           Issued, HasTransport, HoldsLock, Op, NoRows
  <1>22. ASSUME NEW c \in Conn, DisconnectedDb(c) PROVE Issued'
    BY <1>22, NullAssumption
       DEF DisconnectedDb, Goto, UpdateRow, ReturnUnlocking, Return, TypeOK, Suspended,
           Issued, HasTransport, HoldsLock, Op, NoRows
  <1>23. ASSUME NEW c \in Conn, NEW s \in SessionId, Delete(c, s) PROVE Issued'
    BY <1>23, NullAssumption
       DEF Delete, Unroute, AwaitLock, Goto, InMemory, TypeOK, Suspended, Issued,
           HasTransport, HoldsLock, Op, NoRows
  <1>24. ASSUME NEW c \in Conn, DeleteTransport(c) PROVE Issued'
    BY <1>24, NullAssumption
       DEF DeleteTransport, Goto, TypeOK, Suspended, Issued, HasTransport, HoldsLock,
           Op, NoRows
  <1>25. ASSUME NEW c \in Conn, DeleteDb(c) PROVE Issued'
    BY <1>25, NullAssumption
       DEF DeleteDb, Goto, ReturnUnlocking, Return, TypeOK, Suspended, Issued,
           HasTransport, HoldsLock, Op, NoRows
  <1>26. ASSUME NEW c \in Conn, NEW s \in SessionId, Refresh(c, s) PROVE Issued'
    BY <1>26, NullAssumption
       DEF Refresh, AwaitLock, Goto, InMemory, TypeOK, Suspended, Issued, HasTransport,
           HoldsLock, Op, NoRows
  <1>27. ASSUME NEW c \in Conn, RefreshTransport(c) PROVE Issued'
    BY <1>27, NullAssumption
       DEF RefreshTransport, Goto, Route, SetPanes, InMemory, ReturnUnlocking, Return,
           TypeOK, Suspended, Issued, HasTransport, HoldsLock, Op, NoRows
  <1>28. ASSUME NEW c \in Conn, NEW s \in SessionId, NEW p \in Pane, Input(c, s, p)
         PROVE  Issued'
    BY <1>28, NullAssumption
       DEF Input, AwaitLock, Goto, InMemory, TypeOK, Suspended, Issued, HasTransport,
           HoldsLock, Op, NoRows
  <1>29. ASSUME NEW c \in Conn, InputTransport(c) PROVE Issued'
    BY <1>29, NullAssumption
       DEF InputTransport, ReturnUnlocking, Return, Goto, TypeOK, Suspended, Issued,
           HasTransport, HoldsLock, Op, NoRows
  <1>30. ASSUME NEW c \in Conn, Close(c) PROVE Issued'
    BY <1>30, NullAssumption
       DEF Close, LeaveWebSocket, LeaveWebTransport,
           Goto, TypeOK, Suspended, Issued, HasTransport, HoldsLock, Op, NoRows
  <1>31. ASSUME NEW c \in Conn, NEW s \in SessionId, CleanupDisconnect(c, s) PROVE Issued'
    BY <1>31, NullAssumption
       DEF CleanupDisconnect, BeginDisconnect, Unroute, AwaitLock, Goto, InMemory,
           TypeOK, Suspended, Issued, HasTransport, HoldsLock, Op, NoRows
  <1>32. ASSUME NEW c \in Conn, CleanupDone(c) PROVE Issued'
    BY <1>32, NullAssumption
       DEF CleanupDone, Goto, TypeOK, Suspended, Issued, HasTransport, HoldsLock, Op,
           NoRows
  <1>33. ASSUME NEW t \in TransportId, DropTransport(t) PROVE Issued'
    BY <1>33, NullAssumption
       DEF DropTransport, Referenced, TypeOK, Suspended, Issued, HasTransport,
           HoldsLock, Op, NoRows
  <1>34. ASSUME NEW t \in TransportId, LinkEnds(t) PROVE Issued'
    BY <1>34, NullAssumption
       DEF LinkEnds, TypeOK, Suspended, Issued, HasTransport,
           HoldsLock, Op, NoRows
  <1>35. ASSUME Restart PROVE Issued'
    BY <1>35, NullAssumption
       DEF Restart, NoRows, TypeOK, Suspended, Issued, HasTransport, HoldsLock, Op
  <1>36. CASE UNCHANGED vars
    BY <1>36 DEF vars, TypeOK, Suspended, Issued, HasTransport, HoldsLock, Op, NoRows
  <1>. QED
    BY <1>1, <1>2, <1>3, <1>4, <1>5, <1>6, <1>7, <1>8, <1>9, <1>10, <1>11, <1>12,
       <1>13, <1>14, <1>15, <1>16, <1>17, <1>18, <1>19, <1>20, <1>21, <1>22,
       <1>23, <1>24, <1>25, <1>26, <1>27, <1>28, <1>29, <1>30, <1>31, <1>32,
       <1>33, <1>34, <1>35, <1>36
       DEF Next, Advance, Client

(* Nobody closes a transport whose connect is being published.             *)
LEMMA UpStep ==
  ASSUME TypeOK, Suspended, EntryShape, Ownership, LockDiscipline, UpWhilePublishing, [Next]_vars
  PROVE  UpWhilePublishing'
  <1>1. ASSUME NEW c \in Conn, Open(c) PROVE UpWhilePublishing'
    BY <1>1, NullAssumption
       DEF Open, Goto, TypeOK, Suspended, Ownership, LockDiscipline, UpWhilePublishing,
           HasTransport, HoldsLock, Op
  <1>2. ASSUME NEW c \in Conn, ListSessions(c) PROVE UpWhilePublishing'
    BY <1>2, NullAssumption
       DEF ListSessions, Goto, TypeOK, Suspended, Ownership, LockDiscipline,
           UpWhilePublishing, HasTransport, HoldsLock, Op
  <1>3. ASSUME NEW c \in Conn, LoadFetch(c) PROVE UpWhilePublishing'
    BY <1>3, NullAssumption
       DEF LoadFetch, Goto, TypeOK, Suspended, Ownership, LockDiscipline,
           UpWhilePublishing, HasTransport, HoldsLock, Op
  <1>4. ASSUME NEW c \in Conn, NEW s \in SessionId, LoadListed(c, s)
        PROVE  UpWhilePublishing'
    BY <1>4, NullAssumption
       DEF LoadListed, InMemory, TypeOK, Suspended, Ownership, LockDiscipline,
           UpWhilePublishing, HasTransport, HoldsLock, Op
  <1>5. ASSUME NEW c \in Conn, NEW s \in SessionId, LoadAbsent(c, s)
        PROVE  UpWhilePublishing'
    BY <1>5, NullAssumption
       DEF LoadAbsent, Goto, InMemory, TypeOK, Suspended, Ownership, LockDiscipline,
           UpWhilePublishing, HasTransport, HoldsLock, Op
  <1>6. ASSUME NEW c \in Conn, LoadPut(c) PROVE UpWhilePublishing'
    BY <1>6, NullAssumption
       DEF LoadPut, Goto, InsertEntry, StatusOfRow, InMemory, TypeOK, Suspended,
           Ownership, LockDiscipline, UpWhilePublishing, HasTransport, HoldsLock, Op
  <1>7. ASSUME NEW c \in Conn, LoadDone(c) PROVE UpWhilePublishing'
    BY <1>7, NullAssumption
       DEF LoadDone, Goto, TypeOK, Suspended, Ownership, LockDiscipline,
           UpWhilePublishing, HasTransport, HoldsLock, Op
  <1>8. ASSUME NEW c \in Conn, NEW s \in SessionId, Create(c, s) PROVE UpWhilePublishing'
    BY <1>8, NullAssumption
       DEF Create, Goto, TypeOK, Suspended, Ownership, LockDiscipline,
           UpWhilePublishing, HasTransport, HoldsLock, Op
  <1>9. ASSUME NEW c \in Conn, CreatePut(c) PROVE UpWhilePublishing'
    BY <1>9, NullAssumption
       DEF CreatePut, Goto, InsertEntry, Return, InMemory, TypeOK, Suspended,
           Ownership, LockDiscipline, UpWhilePublishing, HasTransport, HoldsLock, Op
  <1>10. ASSUME NEW c \in Conn, NEW s \in SessionId, Connect(c, s) PROVE UpWhilePublishing'
    BY <1>10, NullAssumption
       DEF Connect, Goto, SetStatus, InMemory, TypeOK, Suspended, Ownership,
           LockDiscipline, UpWhilePublishing, HasTransport, HoldsLock, Op
  <1>11. ASSUME NEW c \in Conn, ConnectDb(c) PROVE UpWhilePublishing'
    BY <1>11, NullAssumption
       DEF ConnectDb, Goto, UpdateRow, AwaitLock, TypeOK, Suspended, Ownership,
           LockDiscipline, UpWhilePublishing, HasTransport, HoldsLock, Op
  <1>12. ASSUME NEW c \in Conn, Lock(c) PROVE UpWhilePublishing'
    <2>1. pc'[c] \in Op /\ \A d \in Conn \ {c} : pc'[d] = pc[d]
      BY <1>12 DEF Lock, Goto, TypeOK, Suspended
    <2>2. QED
      BY <1>12, <2>1 DEF Lock, UpWhilePublishing, Op
  <1>13. ASSUME NEW c \in Conn, ConnectClose(c) PROVE UpWhilePublishing'
    BY <1>13, NullAssumption
       DEF ConnectClose, Goto, TypeOK, Suspended, Ownership, LockDiscipline,
           UpWhilePublishing, HasTransport, HoldsLock, Op
  <1>14. ASSUME NEW c \in Conn, ConnectOk(c) PROVE UpWhilePublishing'
    BY <1>14, NullAssumption
       DEF ConnectOk, Connected, Goto, TypeOK, Suspended, Ownership, LockDiscipline,
           UpWhilePublishing, HasTransport, HoldsLock, Op
  <1>15. ASSUME NEW c \in Conn, ConnectFail(c) PROVE UpWhilePublishing'
    <2>1. \A t \in TransportId : link[t] # "none" => link'[t] # "none"
      BY <1>15 DEF ConnectFail, TransportError, TypeOK
    <2>2. UNCHANGED tr /\ \A d \in Conn : pc'[d] \in {"list", "connected_db"} => pc[d] = pc'[d]
      BY <1>15 DEF ConnectFail, Goto, TypeOK
    <2>3. \A d \in Conn : pc[d] \in {"list", "connected_db"} => tr[d] \in TransportId
      BY DEF TypeOK, Suspended, HasTransport, HoldsLock
    <2>4. QED
      BY <2>1, <2>2, <2>3 DEF UpWhilePublishing
  <1>16. ASSUME NEW c \in Conn, ConnectPublish(c) PROVE UpWhilePublishing'
    BY <1>16, NullAssumption
       DEF ConnectPublish, Goto, Route, SetStatus, SetPanes, InMemory, TypeOK,
           Suspended, Ownership, LockDiscipline, UpWhilePublishing, HasTransport,
           HoldsLock, Op
  <1>17. ASSUME NEW c \in Conn, ConnectedDb(c) PROVE UpWhilePublishing'
    BY <1>17, NullAssumption
       DEF ConnectedDb, Goto, UpdateRow, ReturnUnlocking, Return, TypeOK, Suspended,
           Ownership, LockDiscipline, UpWhilePublishing, HasTransport, HoldsLock, Op
  <1>18. ASSUME NEW c \in Conn, ErrorDb(c) PROVE UpWhilePublishing'
    BY <1>18, NullAssumption
       DEF ErrorDb, Goto, UpdateRow, ReturnUnlocking, Return, TypeOK, Suspended,
           Ownership, LockDiscipline, UpWhilePublishing, HasTransport, HoldsLock, Op
  <1>19. ASSUME NEW c \in Conn, NEW s \in SessionId, Disconnect(c, s)
         PROVE  UpWhilePublishing'
    BY <1>19, NullAssumption
       DEF Disconnect, BeginDisconnect, Unroute, AwaitLock, Goto, InMemory, TypeOK,
           Suspended, Ownership, LockDiscipline, UpWhilePublishing, HasTransport,
           HoldsLock, Op
  <1>20. ASSUME NEW c \in Conn, DisconnectTransport(c) PROVE UpWhilePublishing'
    BY <1>20, NullAssumption
       DEF DisconnectTransport, Goto, SetStatus, SetPanes, InMemory, TypeOK, Suspended,
           Ownership, LockDiscipline, UpWhilePublishing, HasTransport, HoldsLock, Op
  <1>21. ASSUME NEW c \in Conn, DisconnectMap(c) PROVE UpWhilePublishing'
    BY <1>21, NullAssumption
       DEF DisconnectMap, Goto, SetStatus, SetPanes, InMemory, TypeOK, Suspended,
           Ownership, LockDiscipline, UpWhilePublishing, HasTransport, HoldsLock, Op
  <1>22. ASSUME NEW c \in Conn, DisconnectedDb(c) PROVE UpWhilePublishing'
    BY <1>22, NullAssumption
       DEF DisconnectedDb, Goto, UpdateRow, ReturnUnlocking, Return, TypeOK, Suspended,
           Ownership, LockDiscipline, UpWhilePublishing, HasTransport, HoldsLock, Op
  <1>23. ASSUME NEW c \in Conn, NEW s \in SessionId, Delete(c, s) PROVE UpWhilePublishing'
    BY <1>23, NullAssumption
       DEF Delete, Unroute, AwaitLock, Goto, InMemory, TypeOK, Suspended, Ownership,
           LockDiscipline, UpWhilePublishing, HasTransport, HoldsLock, Op
  <1>24. ASSUME NEW c \in Conn, DeleteTransport(c) PROVE UpWhilePublishing'
    BY <1>24, NullAssumption
       DEF DeleteTransport, Goto, TypeOK, Suspended, Ownership, LockDiscipline,
           UpWhilePublishing, HasTransport, HoldsLock, Op
  <1>25. ASSUME NEW c \in Conn, DeleteDb(c) PROVE UpWhilePublishing'
    BY <1>25, NullAssumption
       DEF DeleteDb, Goto, ReturnUnlocking, Return, TypeOK, Suspended, Ownership,
           LockDiscipline, UpWhilePublishing, HasTransport, HoldsLock, Op
  <1>26. ASSUME NEW c \in Conn, NEW s \in SessionId, Refresh(c, s) PROVE UpWhilePublishing'
    BY <1>26, NullAssumption
       DEF Refresh, AwaitLock, Goto, InMemory, TypeOK, Suspended, Ownership,
           LockDiscipline, UpWhilePublishing, HasTransport, HoldsLock, Op
  <1>27. ASSUME NEW c \in Conn, RefreshTransport(c) PROVE UpWhilePublishing'
    BY <1>27, NullAssumption
       DEF RefreshTransport, Goto, Route, SetPanes, InMemory, ReturnUnlocking, Return,
           TypeOK, Suspended, Ownership, LockDiscipline, UpWhilePublishing,
           HasTransport, HoldsLock, Op
  <1>28. ASSUME NEW c \in Conn, NEW s \in SessionId, NEW p \in Pane, Input(c, s, p)
         PROVE  UpWhilePublishing'
    BY <1>28, NullAssumption
       DEF Input, AwaitLock, Goto, InMemory, TypeOK, Suspended, Ownership,
           LockDiscipline, UpWhilePublishing, HasTransport, HoldsLock, Op
  <1>29. ASSUME NEW c \in Conn, InputTransport(c) PROVE UpWhilePublishing'
    BY <1>29, NullAssumption
       DEF InputTransport, ReturnUnlocking, Return, Goto, TypeOK, Suspended, Ownership,
           LockDiscipline, UpWhilePublishing, HasTransport, HoldsLock, Op
  <1>30. ASSUME NEW c \in Conn, Close(c) PROVE UpWhilePublishing'
    BY <1>30, NullAssumption
       DEF Close, LeaveWebSocket, LeaveWebTransport,
           Goto, TypeOK, Suspended, Ownership, LockDiscipline,
           UpWhilePublishing, HasTransport, HoldsLock, Op
  <1>31. ASSUME NEW c \in Conn, NEW s \in SessionId, CleanupDisconnect(c, s)
         PROVE  UpWhilePublishing'
    BY <1>31, NullAssumption
       DEF CleanupDisconnect, BeginDisconnect, Unroute, AwaitLock, Goto, InMemory,
           TypeOK, Suspended, Ownership, LockDiscipline, UpWhilePublishing,
           HasTransport, HoldsLock, Op
  <1>32. ASSUME NEW c \in Conn, CleanupDone(c) PROVE UpWhilePublishing'
    BY <1>32, NullAssumption
       DEF CleanupDone, Goto, TypeOK, Suspended, Ownership, LockDiscipline,
           UpWhilePublishing, HasTransport, HoldsLock, Op
  <1>33. ASSUME NEW t \in TransportId, DropTransport(t) PROVE UpWhilePublishing'
    BY <1>33, NullAssumption
       DEF DropTransport, Referenced, TypeOK, Suspended, Ownership, LockDiscipline,
           UpWhilePublishing, HasTransport, HoldsLock, Op
  <1>34. ASSUME NEW t \in TransportId, LinkEnds(t) PROVE UpWhilePublishing'
    BY <1>34, NullAssumption
       DEF LinkEnds, TypeOK, Suspended, Ownership, LockDiscipline,
           UpWhilePublishing, HasTransport, HoldsLock, Op
  <1>35. ASSUME Restart PROVE UpWhilePublishing'
    BY <1>35, NullAssumption
       DEF Restart, NoRows, TypeOK, Suspended, Ownership, LockDiscipline,
           UpWhilePublishing, HasTransport, HoldsLock, Op
  <1>36. CASE UNCHANGED vars
    BY <1>36
       DEF vars, TypeOK, Suspended, Ownership, LockDiscipline, UpWhilePublishing,
           HasTransport, HoldsLock, Op
  <1>. QED
    BY <1>1, <1>2, <1>3, <1>4, <1>5, <1>6, <1>7, <1>8, <1>9, <1>10, <1>11, <1>12,
       <1>13, <1>14, <1>15, <1>16, <1>17, <1>18, <1>19, <1>20, <1>21, <1>22,
       <1>23, <1>24, <1>25, <1>26, <1>27, <1>28, <1>29, <1>30, <1>31, <1>32,
       <1>33, <1>34, <1>35, <1>36
       DEF Next, Advance, Client

(* Steps that only remove rows and keep the deletes keep Retained.         *)
LEMMA RetainedFrame ==
  ASSUME TypeOK, Retained, UNCHANGED <<owner, transport, replaced>>,
         \A s \in SessionId : rows'[s] # "none" => rows[s] # "none",
         \A d \in Conn, t \in TransportId : Deleting(d, t) => Deleting(d, t)'
  PROVE  Retained'
  BY DEF TypeOK, Retained


(* Every step keeps the transports of a session that has a row.            *)
LEMMA RetainedStep ==
  ASSUME TypeOK, Suspended, EntryShape, Ownership, Issued, Retained, ~DbMayFail, [Next]_vars
  PROVE  Retained'
  <1>1. ASSUME NEW c \in Conn, Open(c) PROVE Retained'
    <2>1. \A x \in SessionId : rows'[x] # "none" => rows[x] # "none"
      BY <1>1 DEF Open, TypeOK
    <2>2. UNCHANGED <<owner, transport, replaced>>
      BY <1>1 DEF Open
    <2>3. \A d \in Conn, t \in TransportId : Deleting(d, t) => Deleting(d, t)'
      BY <1>1 DEF Open, Goto, Deleting, TypeOK
    <2>4. QED
      BY <2>1, <2>2, <2>3, RetainedFrame
  <1>2. ASSUME NEW c \in Conn, ListSessions(c) PROVE Retained'
    <2>1. \A x \in SessionId : rows'[x] # "none" => rows[x] # "none"
      BY <1>2 DEF ListSessions, TypeOK
    <2>2. UNCHANGED <<owner, transport, replaced>>
      BY <1>2 DEF ListSessions
    <2>3. \A d \in Conn, t \in TransportId : Deleting(d, t) => Deleting(d, t)'
      BY <1>2 DEF ListSessions, Goto, Deleting, TypeOK
    <2>4. QED
      BY <2>1, <2>2, <2>3, RetainedFrame
  <1>3. ASSUME NEW c \in Conn, LoadFetch(c) PROVE Retained'
    <2>1. \A x \in SessionId : rows'[x] # "none" => rows[x] # "none"
      BY <1>3 DEF LoadFetch, TypeOK
    <2>2. UNCHANGED <<owner, transport, replaced>>
      BY <1>3 DEF LoadFetch
    <2>3. \A d \in Conn, t \in TransportId : Deleting(d, t) => Deleting(d, t)'
      BY <1>3 DEF LoadFetch, Goto, Deleting, TypeOK
    <2>4. QED
      BY <2>1, <2>2, <2>3, RetainedFrame
  <1>4. ASSUME NEW c \in Conn, NEW s \in SessionId, LoadListed(c, s) PROVE Retained'
    <2>1. \A x \in SessionId : rows'[x] # "none" => rows[x] # "none"
      BY <1>4 DEF LoadListed, TypeOK
    <2>2. UNCHANGED <<owner, transport, replaced>>
      BY <1>4 DEF LoadListed
    <2>3. \A d \in Conn, t \in TransportId : Deleting(d, t) => Deleting(d, t)'
      BY <1>4 DEF LoadListed, Goto, Deleting, TypeOK
    <2>4. QED
      BY <2>1, <2>2, <2>3, RetainedFrame
  <1>5. ASSUME NEW c \in Conn, NEW s \in SessionId, LoadAbsent(c, s) PROVE Retained'
    <2>1. \A x \in SessionId : rows'[x] # "none" => rows[x] # "none"
      BY <1>5 DEF LoadAbsent, TypeOK
    <2>2. UNCHANGED <<owner, transport, replaced>>
      BY <1>5 DEF LoadAbsent
    <2>3. \A d \in Conn, t \in TransportId : Deleting(d, t) => Deleting(d, t)'
      BY <1>5 DEF LoadAbsent, Goto, Deleting, TypeOK
    <2>4. QED
      BY <2>1, <2>2, <2>3, RetainedFrame
  <1>6. ASSUME NEW c \in Conn, LoadPut(c) PROVE Retained'
    <2>1. PICK u \in TransportId :
            /\ owner[u] = NoSession
            /\ owner' = [owner EXCEPT ![u] = sid[c]]
            /\ transport' = [transport EXCEPT ![sid[c]] = u]
            /\ replaced' = IF InMemory(sid[c]) THEN replaced \cup {sid[c]} ELSE replaced
      BY <1>6 DEF LoadPut, InsertEntry
    <2>2. sid[c] \in SessionId /\ UNCHANGED rows
      BY <1>6 DEF LoadPut, Suspended
    <2>3. \A d \in Conn, t \in TransportId : Deleting(d, t) => Deleting(d, t)'
      BY <1>6 DEF LoadPut, Goto, Deleting, TypeOK
    <2>4. SUFFICES ASSUME NEW t \in TransportId, owner'[t] # NoSession, owner'[t] \notin replaced',
                          rows[owner'[t]] # "none"
                   PROVE  transport'[owner'[t]] = t \/ \E d \in Conn : Deleting(d, t)'
      BY <2>2 DEF Retained
    <2>5. CASE t = u
      BY <2>1, <2>2, <2>5 DEF TypeOK
    <2>6. CASE t # u
      <3>1. owner'[t] = owner[t] /\ owner[t] \in SessionId /\ owner[t] \notin replaced
        BY <2>1, <2>4, <2>6 DEF TypeOK
      <3>2. transport[owner[t]] = t \/ \E d \in Conn : Deleting(d, t)
        BY <2>4, <3>1, NullAssumption DEF Retained
      <3>3. CASE owner[t] = sid[c]
        <4>1. ~InMemory(sid[c])
          BY <2>1, <2>4, <3>1, <3>3
        <4>2. transport[sid[c]] = NoTransport
          BY <2>2, <4>1 DEF EntryShape
        <4>3. QED
          BY <2>3, <3>2, <3>3, <4>2, NullAssumption
      <3>4. CASE owner[t] # sid[c]
        BY <2>1, <2>3, <3>1, <3>2, <3>4 DEF TypeOK
      <3>5. QED
        BY <3>3, <3>4
    <2>7. QED
      BY <2>5, <2>6
  <1>7. ASSUME NEW c \in Conn, LoadDone(c) PROVE Retained'
    <2>1. \A x \in SessionId : rows'[x] # "none" => rows[x] # "none"
      BY <1>7 DEF LoadDone, TypeOK
    <2>2. UNCHANGED <<owner, transport, replaced>>
      BY <1>7 DEF LoadDone
    <2>3. \A d \in Conn, t \in TransportId : Deleting(d, t) => Deleting(d, t)'
      BY <1>7 DEF LoadDone, Goto, Deleting, TypeOK
    <2>4. QED
      BY <2>1, <2>2, <2>3, RetainedFrame
  <1>8. ASSUME NEW c \in Conn, NEW s \in SessionId, Create(c, s) PROVE Retained'
    <2>1. s \notin issued /\ rows' = [rows EXCEPT ![s] = "created"] /\ UNCHANGED <<owner, transport, replaced>>
      BY <1>8 DEF Create
    <2>2. \A d \in Conn, t \in TransportId : Deleting(d, t) => Deleting(d, t)'
      BY <1>8 DEF Create, Goto, Deleting, TypeOK
    <2>3. \A t \in TransportId : owner[t] # s
      BY <2>1, NullAssumption DEF Issued
    <2>4. \A t \in TransportId : owner[t] # NoSession /\ rows'[owner[t]] # "none" => rows[owner[t]] # "none"
      BY <2>1, <2>3 DEF TypeOK
    <2>5. QED
      BY <2>1, <2>2, <2>4 DEF Retained
  <1>9. ASSUME NEW c \in Conn, CreatePut(c) PROVE Retained'
    <2>1. PICK u \in TransportId :
            /\ owner[u] = NoSession
            /\ owner' = [owner EXCEPT ![u] = sid[c]]
            /\ transport' = [transport EXCEPT ![sid[c]] = u]
            /\ replaced' = IF InMemory(sid[c]) THEN replaced \cup {sid[c]} ELSE replaced
      BY <1>9 DEF CreatePut, InsertEntry
    <2>2. sid[c] \in SessionId /\ UNCHANGED rows
      BY <1>9 DEF CreatePut, Suspended
    <2>3. \A d \in Conn, t \in TransportId : Deleting(d, t) => Deleting(d, t)'
      BY <1>9 DEF CreatePut, Return, Goto, Deleting, TypeOK
    <2>4. SUFFICES ASSUME NEW t \in TransportId, owner'[t] # NoSession, owner'[t] \notin replaced',
                          rows[owner'[t]] # "none"
                   PROVE  transport'[owner'[t]] = t \/ \E d \in Conn : Deleting(d, t)'
      BY <2>2 DEF Retained
    <2>5. CASE t = u
      BY <2>1, <2>2, <2>5 DEF TypeOK
    <2>6. CASE t # u
      <3>1. owner'[t] = owner[t] /\ owner[t] \in SessionId /\ owner[t] \notin replaced
        BY <2>1, <2>4, <2>6 DEF TypeOK
      <3>2. transport[owner[t]] = t \/ \E d \in Conn : Deleting(d, t)
        BY <2>4, <3>1, NullAssumption DEF Retained
      <3>3. CASE owner[t] = sid[c]
        <4>1. ~InMemory(sid[c])
          BY <2>1, <2>4, <3>1, <3>3
        <4>2. transport[sid[c]] = NoTransport
          BY <2>2, <4>1 DEF EntryShape
        <4>3. QED
          BY <2>3, <3>2, <3>3, <4>2, NullAssumption
      <3>4. CASE owner[t] # sid[c]
        BY <2>1, <2>3, <3>1, <3>2, <3>4 DEF TypeOK
      <3>5. QED
        BY <3>3, <3>4
    <2>7. QED
      BY <2>5, <2>6
  <1>10. ASSUME NEW c \in Conn, NEW s \in SessionId, Connect(c, s) PROVE Retained'
    <2>1. \A x \in SessionId : rows'[x] # "none" => rows[x] # "none"
      BY <1>10 DEF Connect, TypeOK
    <2>2. UNCHANGED <<owner, transport, replaced>>
      BY <1>10 DEF Connect
    <2>3. \A d \in Conn, t \in TransportId : Deleting(d, t) => Deleting(d, t)'
      BY <1>10 DEF Connect, Goto, Deleting, TypeOK
    <2>4. QED
      BY <2>1, <2>2, <2>3, RetainedFrame
  <1>11. ASSUME NEW c \in Conn, ConnectDb(c) PROVE Retained'
    <2>1. \A s \in SessionId : rows'[s] # "none" => rows[s] # "none"
      BY <1>11 DEF ConnectDb, UpdateRow, TypeOK
    <2>2. UNCHANGED <<owner, transport, replaced>>
      BY <1>11 DEF ConnectDb
    <2>3. \A d \in Conn, t \in TransportId : Deleting(d, t) => Deleting(d, t)'
      BY <1>11 DEF ConnectDb, AwaitLock, Goto, Deleting, TypeOK
    <2>4. QED
      BY <2>1, <2>2, <2>3, RetainedFrame
  <1>12. ASSUME NEW c \in Conn, Lock(c) PROVE Retained'
    <2>1. \A x \in SessionId : rows'[x] # "none" => rows[x] # "none"
      BY <1>12 DEF Lock, TypeOK
    <2>2. UNCHANGED <<owner, transport, replaced>>
      BY <1>12 DEF Lock
    <2>3. \A d \in Conn, t \in TransportId : Deleting(d, t) => Deleting(d, t)'
      BY <1>12 DEF Lock, Goto, Deleting, Suspended, TypeOK
    <2>4. QED
      BY <2>1, <2>2, <2>3, RetainedFrame
  <1>13. ASSUME NEW c \in Conn, ConnectClose(c) PROVE Retained'
    <2>1. \A x \in SessionId : rows'[x] # "none" => rows[x] # "none"
      BY <1>13 DEF ConnectClose, TypeOK
    <2>2. UNCHANGED <<owner, transport, replaced>>
      BY <1>13 DEF ConnectClose
    <2>3. \A d \in Conn, t \in TransportId : Deleting(d, t) => Deleting(d, t)'
      BY <1>13 DEF ConnectClose, Goto, Deleting, TypeOK
    <2>4. QED
      BY <2>1, <2>2, <2>3, RetainedFrame
  <1>14. ASSUME NEW c \in Conn, ConnectOk(c) PROVE Retained'
    <2>1. \A x \in SessionId : rows'[x] # "none" => rows[x] # "none"
      BY <1>14 DEF ConnectOk, Connected, TypeOK
    <2>2. UNCHANGED <<owner, transport, replaced>>
      BY <1>14 DEF ConnectOk, Connected
    <2>3. \A d \in Conn, t \in TransportId : Deleting(d, t) => Deleting(d, t)'
      BY <1>14 DEF ConnectOk, Connected, Goto, Deleting, TypeOK
    <2>4. QED
      BY <2>1, <2>2, <2>3, RetainedFrame
  <1>15. ASSUME NEW c \in Conn, ConnectFail(c) PROVE Retained'
    <2>1. \A x \in SessionId : rows'[x] # "none" => rows[x] # "none"
      BY <1>15 DEF ConnectFail, TypeOK
    <2>2. UNCHANGED <<owner, transport, replaced>>
      BY <1>15 DEF ConnectFail
    <2>3. \A d \in Conn, t \in TransportId : Deleting(d, t) => Deleting(d, t)'
      BY <1>15 DEF ConnectFail, Goto, Deleting, TypeOK
    <2>4. QED
      BY <2>1, <2>2, <2>3, RetainedFrame
  <1>16. ASSUME NEW c \in Conn, ConnectPublish(c) PROVE Retained'
    <2>1. \A x \in SessionId : rows'[x] # "none" => rows[x] # "none"
      BY <1>16 DEF ConnectPublish, TypeOK
    <2>2. UNCHANGED <<owner, transport, replaced>>
      BY <1>16 DEF ConnectPublish
    <2>3. \A d \in Conn, t \in TransportId : Deleting(d, t) => Deleting(d, t)'
      BY <1>16 DEF ConnectPublish, Goto, Deleting, TypeOK
    <2>4. QED
      BY <2>1, <2>2, <2>3, RetainedFrame
  <1>17. ASSUME NEW c \in Conn, ConnectedDb(c) PROVE Retained'
    <2>1. \A s \in SessionId : rows'[s] # "none" => rows[s] # "none"
      BY <1>17 DEF ConnectedDb, UpdateRow, TypeOK
    <2>2. UNCHANGED <<owner, transport, replaced>>
      BY <1>17 DEF ConnectedDb
    <2>3. \A d \in Conn, t \in TransportId : Deleting(d, t) => Deleting(d, t)'
      BY <1>17 DEF ConnectedDb, ReturnUnlocking, Return, Goto, Deleting, TypeOK
    <2>4. QED
      BY <2>1, <2>2, <2>3, RetainedFrame
  <1>18. ASSUME NEW c \in Conn, ErrorDb(c) PROVE Retained'
    <2>1. \A s \in SessionId : rows'[s] # "none" => rows[s] # "none"
      BY <1>18 DEF ErrorDb, UpdateRow, TypeOK
    <2>2. UNCHANGED <<owner, transport, replaced>>
      BY <1>18 DEF ErrorDb
    <2>3. \A d \in Conn, t \in TransportId : Deleting(d, t) => Deleting(d, t)'
      BY <1>18 DEF ErrorDb, ReturnUnlocking, Return, Goto, Deleting, TypeOK
    <2>4. QED
      BY <2>1, <2>2, <2>3, RetainedFrame
  <1>19. ASSUME NEW c \in Conn, NEW s \in SessionId, Disconnect(c, s) PROVE Retained'
    <2>1. \A x \in SessionId : rows'[x] # "none" => rows[x] # "none"
      BY <1>19 DEF Disconnect, BeginDisconnect, TypeOK
    <2>2. UNCHANGED <<owner, transport, replaced>>
      BY <1>19 DEF Disconnect, BeginDisconnect
    <2>3. \A d \in Conn, t \in TransportId : Deleting(d, t) => Deleting(d, t)'
      BY <1>19 DEF Disconnect, BeginDisconnect, AwaitLock, Goto, Deleting, TypeOK
    <2>4. QED
      BY <2>1, <2>2, <2>3, RetainedFrame
  <1>20. ASSUME NEW c \in Conn, DisconnectTransport(c) PROVE Retained'
    <2>1. \A x \in SessionId : rows'[x] # "none" => rows[x] # "none"
      BY <1>20 DEF DisconnectTransport, TypeOK
    <2>2. UNCHANGED <<owner, transport, replaced>>
      BY <1>20 DEF DisconnectTransport
    <2>3. \A d \in Conn, t \in TransportId : Deleting(d, t) => Deleting(d, t)'
      BY <1>20 DEF DisconnectTransport, Goto, Deleting, TypeOK
    <2>4. QED
      BY <2>1, <2>2, <2>3, RetainedFrame
  <1>21. ASSUME NEW c \in Conn, DisconnectMap(c) PROVE Retained'
    <2>1. \A x \in SessionId : rows'[x] # "none" => rows[x] # "none"
      BY <1>21 DEF DisconnectMap, TypeOK
    <2>2. UNCHANGED <<owner, transport, replaced>>
      BY <1>21 DEF DisconnectMap
    <2>3. \A d \in Conn, t \in TransportId : Deleting(d, t) => Deleting(d, t)'
      BY <1>21 DEF DisconnectMap, Goto, Deleting, TypeOK
    <2>4. QED
      BY <2>1, <2>2, <2>3, RetainedFrame
  <1>22. ASSUME NEW c \in Conn, DisconnectedDb(c) PROVE Retained'
    <2>1. \A s \in SessionId : rows'[s] # "none" => rows[s] # "none"
      BY <1>22 DEF DisconnectedDb, UpdateRow, TypeOK
    <2>2. UNCHANGED <<owner, transport, replaced>>
      BY <1>22 DEF DisconnectedDb
    <2>3. \A d \in Conn, t \in TransportId : Deleting(d, t) => Deleting(d, t)'
      BY <1>22 DEF DisconnectedDb, ReturnUnlocking, Return, Goto, Deleting, TypeOK
    <2>4. QED
      BY <2>1, <2>2, <2>3, RetainedFrame
  <1>23. ASSUME NEW c \in Conn, NEW s \in SessionId, Delete(c, s) PROVE Retained'
    <2>1. transport' = [transport EXCEPT ![s] = NoTransport] /\ UNCHANGED <<rows, owner, replaced>>
      BY <1>23 DEF Delete
    <2>2. \A d \in Conn, t \in TransportId : Deleting(d, t) => Deleting(d, t)'
      BY <1>23 DEF Delete, AwaitLock, Goto, Deleting, TypeOK
    <2>3. InMemory(s) => pc'[c] = "lock" /\ op'[c] = "delete" /\ tr'[c] = transport[s]
      BY <1>23 DEF Delete, AwaitLock, Goto, Deleting, TypeOK
    <2>4. SUFFICES ASSUME NEW t \in TransportId, owner[t] # NoSession, owner[t] \notin replaced,
                          rows[owner[t]] # "none"
                   PROVE  transport'[owner[t]] = t \/ \E d \in Conn : Deleting(d, t)'
      BY <2>1 DEF Retained
    <2>5. transport[owner[t]] = t \/ \E d \in Conn : Deleting(d, t)
      BY <2>4 DEF Retained
    <2>6. CASE owner[t] # s
      BY <2>1, <2>2, <2>4, <2>5, <2>6 DEF TypeOK
    <2>7. CASE owner[t] = s
      <3>1. transport[s] = t => InMemory(s)
        BY NullAssumption DEF EntryShape
      <3>2. QED
        BY <2>2, <2>3, <2>5, <2>7, <3>1 DEF Deleting
    <2>8. QED
      BY <2>6, <2>7
  <1>24. ASSUME NEW c \in Conn, DeleteTransport(c) PROVE Retained'
    <2>1. \A x \in SessionId : rows'[x] # "none" => rows[x] # "none"
      BY <1>24 DEF DeleteTransport, TypeOK
    <2>2. UNCHANGED <<owner, transport, replaced>>
      BY <1>24 DEF DeleteTransport
    <2>3. \A d \in Conn, t \in TransportId : Deleting(d, t) => Deleting(d, t)'
      BY <1>24 DEF DeleteTransport, Goto, Deleting, TypeOK
    <2>4. QED
      BY <2>1, <2>2, <2>3, RetainedFrame
  <1>25. ASSUME NEW c \in Conn, DeleteDb(c) PROVE Retained'
    <2>1. rows' = [rows EXCEPT ![sid[c]] = "none"] /\ UNCHANGED <<owner, transport, replaced>>
      BY <1>25 DEF DeleteDb
    <2>2. sid[c] \in SessionId /\ owner[tr[c]] = sid[c]
      BY <1>25 DEF DeleteDb, Suspended, Ownership, WorksOn, HasTransport, HoldsLock
    <2>3. \A d \in Conn \ {c}, t \in TransportId : Deleting(d, t) => Deleting(d, t)'
      BY <1>25 DEF DeleteDb, ReturnUnlocking, Return, Goto, Deleting, TypeOK
    <2>4. SUFFICES ASSUME NEW t \in TransportId, owner[t] \in SessionId, owner[t] \notin replaced,
                          rows'[owner[t]] # "none"
                   PROVE  transport[owner[t]] = t \/ \E d \in Conn : Deleting(d, t)'
      BY <2>1, NullAssumption DEF Retained, TypeOK
    <2>5. owner[t] # sid[c] /\ rows[owner[t]] # "none"
      BY <2>1, <2>2, <2>4 DEF TypeOK
    <2>6. ~Deleting(c, t)
      BY <2>2, <2>5 DEF Deleting
    <2>7. QED
      BY <2>3, <2>4, <2>5, <2>6, NullAssumption DEF Retained
  <1>26. ASSUME NEW c \in Conn, NEW s \in SessionId, Refresh(c, s) PROVE Retained'
    <2>1. \A x \in SessionId : rows'[x] # "none" => rows[x] # "none"
      BY <1>26 DEF Refresh, TypeOK
    <2>2. UNCHANGED <<owner, transport, replaced>>
      BY <1>26 DEF Refresh
    <2>3. \A d \in Conn, t \in TransportId : Deleting(d, t) => Deleting(d, t)'
      BY <1>26 DEF Refresh, AwaitLock, Goto, Deleting, TypeOK
    <2>4. QED
      BY <2>1, <2>2, <2>3, RetainedFrame
  <1>27. ASSUME NEW c \in Conn, RefreshTransport(c) PROVE Retained'
    <2>1. \A x \in SessionId : rows'[x] # "none" => rows[x] # "none"
      BY <1>27 DEF RefreshTransport, TypeOK
    <2>2. UNCHANGED <<owner, transport, replaced>>
      BY <1>27 DEF RefreshTransport
    <2>3. \A d \in Conn, t \in TransportId : Deleting(d, t) => Deleting(d, t)'
      BY <1>27 DEF RefreshTransport, ReturnUnlocking, Return, Goto, Deleting, TypeOK
    <2>4. QED
      BY <2>1, <2>2, <2>3, RetainedFrame
  <1>28. ASSUME NEW c \in Conn, NEW s \in SessionId, NEW p \in Pane, Input(c, s, p)
         PROVE  Retained'
    <2>1. \A x \in SessionId : rows'[x] # "none" => rows[x] # "none"
      BY <1>28 DEF Input, TypeOK
    <2>2. UNCHANGED <<owner, transport, replaced>>
      BY <1>28 DEF Input
    <2>3. \A d \in Conn, t \in TransportId : Deleting(d, t) => Deleting(d, t)'
      BY <1>28 DEF Input, AwaitLock, Goto, Deleting, TypeOK
    <2>4. QED
      BY <2>1, <2>2, <2>3, RetainedFrame
  <1>29. ASSUME NEW c \in Conn, InputTransport(c) PROVE Retained'
    <2>1. \A x \in SessionId : rows'[x] # "none" => rows[x] # "none"
      BY <1>29 DEF InputTransport, TypeOK
    <2>2. UNCHANGED <<owner, transport, replaced>>
      BY <1>29 DEF InputTransport
    <2>3. \A d \in Conn, t \in TransportId : Deleting(d, t) => Deleting(d, t)'
      BY <1>29 DEF InputTransport, ReturnUnlocking, Return, Goto, Deleting, TypeOK
    <2>4. QED
      BY <2>1, <2>2, <2>3, RetainedFrame
  <1>30. ASSUME NEW c \in Conn, Close(c) PROVE Retained'
    <2>1. \A x \in SessionId : rows'[x] # "none" => rows[x] # "none"
      BY <1>30 DEF Close, LeaveWebSocket, LeaveWebTransport, TypeOK
    <2>2. UNCHANGED <<owner, transport, replaced>>
      BY <1>30 DEF Close, LeaveWebSocket, LeaveWebTransport
    <2>3. \A d \in Conn, t \in TransportId : Deleting(d, t) => Deleting(d, t)'
      BY <1>30 DEF Close, LeaveWebSocket, LeaveWebTransport, Goto, Deleting, TypeOK
    <2>4. QED
      BY <2>1, <2>2, <2>3, RetainedFrame
  <1>31. ASSUME NEW c \in Conn, NEW s \in SessionId, CleanupDisconnect(c, s) PROVE Retained'
    <2>1. \A x \in SessionId : rows'[x] # "none" => rows[x] # "none"
      BY <1>31 DEF CleanupDisconnect, BeginDisconnect, TypeOK
    <2>2. UNCHANGED <<owner, transport, replaced>>
      BY <1>31 DEF CleanupDisconnect, BeginDisconnect
    <2>3. \A d \in Conn, t \in TransportId : Deleting(d, t) => Deleting(d, t)'
      BY <1>31 DEF CleanupDisconnect, BeginDisconnect, AwaitLock, Goto, Deleting, TypeOK
    <2>4. QED
      BY <2>1, <2>2, <2>3, RetainedFrame
  <1>32. ASSUME NEW c \in Conn, CleanupDone(c) PROVE Retained'
    <2>1. \A x \in SessionId : rows'[x] # "none" => rows[x] # "none"
      BY <1>32 DEF CleanupDone, TypeOK
    <2>2. UNCHANGED <<owner, transport, replaced>>
      BY <1>32 DEF CleanupDone
    <2>3. \A d \in Conn, t \in TransportId : Deleting(d, t) => Deleting(d, t)'
      BY <1>32 DEF CleanupDone, Goto, Deleting, TypeOK
    <2>4. QED
      BY <2>1, <2>2, <2>3, RetainedFrame
  <1>33. ASSUME NEW t \in TransportId, DropTransport(t) PROVE Retained'
    <2>1. owner' = [owner EXCEPT ![t] = NoSession] /\ UNCHANGED <<rows, transport, pc, op, tr, replaced>>
      BY <1>33 DEF DropTransport
    <2>2. \A u \in TransportId : owner'[u] # NoSession => owner'[u] = owner[u]
      BY <2>1 DEF TypeOK
    <2>3. \A d \in Conn, u \in TransportId : Deleting(d, u) => Deleting(d, u)'
      BY <2>1 DEF Deleting
    <2>4. QED
      BY <2>1, <2>2, <2>3 DEF Retained
  <1>34. ASSUME NEW t \in TransportId, LinkEnds(t) PROVE Retained'
    BY <1>34 DEF LinkEnds, Retained, Deleting
  <1>35. ASSUME Restart PROVE Retained'
    BY <1>35, NullAssumption
       DEF Restart, NoRows, TypeOK, Suspended, EntryShape, InMemory, Ownership,
           WorksOn, Issued, Retained, Deleting, HasTransport, HoldsLock, Op, Status
  <1>36. CASE UNCHANGED vars
    BY <1>36
       DEF vars, TypeOK, Suspended, EntryShape, InMemory, Ownership, WorksOn, Issued,
           Retained, Deleting, HasTransport, HoldsLock, Op, Status
  <1>. QED
    BY <1>1, <1>2, <1>3, <1>4, <1>5, <1>6, <1>7, <1>8, <1>9, <1>10, <1>11, <1>12,
       <1>13, <1>14, <1>15, <1>16, <1>17, <1>18, <1>19, <1>20, <1>21, <1>22,
       <1>23, <1>24, <1>25, <1>26, <1>27, <1>28, <1>29, <1>30, <1>31, <1>32,
       <1>33, <1>34, <1>35, <1>36
       DEF Next, Advance, Client

(* The request of d has closed the connection of its transport, and has    *)
(* yet to store another or to write the row.                               *)
Closing(d) == pc[d] \in Reconnects \cup Closes

(* Steps that close nothing and write no connected row keep the rows backed. *)
LEMMA BackedFrame ==
  ASSUME TypeOK, ConnectedRowIsBacked,
         \A s \in SessionId \ replaced' : rows'[s] = "connected" => rows[s] = "connected" /\ s \notin replaced,
         \A t \in TransportId : /\ owner[t] # NoSession => owner'[t] = owner[t]
                                /\ link[t] # "none" => link'[t] # "none",
         \A d \in Conn : Closing(d) => Closing(d)' /\ UNCHANGED tr[d]
  PROVE  ConnectedRowIsBacked'
  <1>1. SUFFICES ASSUME NEW s \in SessionId \ replaced', rows'[s] = "connected"
                 PROVE  Backed(s)'
    BY DEF ConnectedRowIsBacked
  <1>2. PICK t \in TransportId : owner[t] = s /\ (link[t] # "none" \/ \E d \in Conn : tr[d] = t /\ Closing(d))
    BY <1>1 DEF ConnectedRowIsBacked, Backed, Closing
  <1>3. owner'[t] = s /\ (link'[t] # "none" \/ \E d \in Conn : tr'[d] = t /\ Closing(d)')
    BY <1>2, NullAssumption
  <1>4. QED
    BY <1>3 DEF Backed, Closing

(* Every step keeps connected rows backed.                                 *)
LEMMA BackedStep ==
  ASSUME TypeOK, Suspended, Ownership, UpWhilePublishing, Retained, ConnectedRowIsBacked, ~DbMayFail, [Next]_vars
  PROVE  ConnectedRowIsBacked'
  <1>1. ASSUME NEW c \in Conn, Open(c) PROVE ConnectedRowIsBacked'
    <2>1. \A x \in SessionId \ replaced' : rows'[x] = "connected" => rows[x] = "connected" /\ x \notin replaced
      BY <1>1 DEF Open, Goto, TypeOK
    <2>2. \A t \in TransportId : /\ owner[t] # NoSession => owner'[t] = owner[t]
                                 /\ link[t] # "none" => link'[t] # "none"
      BY <1>1 DEF Open, Goto, TypeOK
    <2>3. \A d \in Conn : Closing(d) => Closing(d)' /\ UNCHANGED tr[d]
      BY <1>1 DEF Open, Goto, Closing, Reconnects, Closes, TypeOK
    <2>4. QED
      BY <2>1, <2>2, <2>3, BackedFrame
  <1>2. ASSUME NEW c \in Conn, ListSessions(c) PROVE ConnectedRowIsBacked'
    <2>1. \A x \in SessionId \ replaced' : rows'[x] = "connected" => rows[x] = "connected" /\ x \notin replaced
      BY <1>2 DEF ListSessions, Goto, TypeOK
    <2>2. \A t \in TransportId : /\ owner[t] # NoSession => owner'[t] = owner[t]
                                 /\ link[t] # "none" => link'[t] # "none"
      BY <1>2 DEF ListSessions, Goto, TypeOK
    <2>3. \A d \in Conn : Closing(d) => Closing(d)' /\ UNCHANGED tr[d]
      BY <1>2 DEF ListSessions, Goto, Closing, Reconnects, Closes, TypeOK
    <2>4. QED
      BY <2>1, <2>2, <2>3, BackedFrame
  <1>3. ASSUME NEW c \in Conn, LoadFetch(c) PROVE ConnectedRowIsBacked'
    <2>1. \A x \in SessionId \ replaced' : rows'[x] = "connected" => rows[x] = "connected" /\ x \notin replaced
      BY <1>3 DEF LoadFetch, Goto, TypeOK
    <2>2. \A t \in TransportId : /\ owner[t] # NoSession => owner'[t] = owner[t]
                                 /\ link[t] # "none" => link'[t] # "none"
      BY <1>3 DEF LoadFetch, Goto, TypeOK
    <2>3. \A d \in Conn : Closing(d) => Closing(d)' /\ UNCHANGED tr[d]
      BY <1>3 DEF LoadFetch, Goto, Closing, Reconnects, Closes, TypeOK
    <2>4. QED
      BY <2>1, <2>2, <2>3, BackedFrame
  <1>4. ASSUME NEW c \in Conn, NEW s \in SessionId, LoadListed(c, s)
        PROVE  ConnectedRowIsBacked'
    BY <1>4, NullAssumption DEF LoadListed, InMemory, TypeOK, ConnectedRowIsBacked, Backed
  <1>5. ASSUME NEW c \in Conn, NEW s \in SessionId, LoadAbsent(c, s)
        PROVE  ConnectedRowIsBacked'
    <2>1. \A x \in SessionId \ replaced' : rows'[x] = "connected" => rows[x] = "connected" /\ x \notin replaced
      BY <1>5 DEF LoadAbsent, Goto, TypeOK
    <2>2. \A t \in TransportId : /\ owner[t] # NoSession => owner'[t] = owner[t]
                                 /\ link[t] # "none" => link'[t] # "none"
      BY <1>5 DEF LoadAbsent, Goto, TypeOK
    <2>3. \A d \in Conn : Closing(d) => Closing(d)' /\ UNCHANGED tr[d]
      BY <1>5 DEF LoadAbsent, Goto, Closing, Reconnects, Closes, TypeOK
    <2>4. QED
      BY <2>1, <2>2, <2>3, BackedFrame
  <1>6. ASSUME NEW c \in Conn, LoadPut(c) PROVE ConnectedRowIsBacked'
    <2>1. \A x \in SessionId \ replaced' : rows'[x] = "connected" => rows[x] = "connected" /\ x \notin replaced
      BY <1>6 DEF LoadPut, InsertEntry, Goto, TypeOK
    <2>2. \A t \in TransportId : /\ owner[t] # NoSession => owner'[t] = owner[t]
                                 /\ link[t] # "none" => link'[t] # "none"
      BY <1>6 DEF LoadPut, InsertEntry, Goto, TypeOK
    <2>3. \A d \in Conn : Closing(d) => Closing(d)' /\ UNCHANGED tr[d]
      BY <1>6 DEF LoadPut, InsertEntry, Goto, Closing, Reconnects, Closes, TypeOK
    <2>4. QED
      BY <2>1, <2>2, <2>3, BackedFrame
  <1>7. ASSUME NEW c \in Conn, LoadDone(c) PROVE ConnectedRowIsBacked'
    <2>1. \A x \in SessionId \ replaced' : rows'[x] = "connected" => rows[x] = "connected" /\ x \notin replaced
      BY <1>7 DEF LoadDone, Goto, TypeOK
    <2>2. \A t \in TransportId : /\ owner[t] # NoSession => owner'[t] = owner[t]
                                 /\ link[t] # "none" => link'[t] # "none"
      BY <1>7 DEF LoadDone, Goto, TypeOK
    <2>3. \A d \in Conn : Closing(d) => Closing(d)' /\ UNCHANGED tr[d]
      BY <1>7 DEF LoadDone, Goto, Closing, Reconnects, Closes, TypeOK
    <2>4. QED
      BY <2>1, <2>2, <2>3, BackedFrame
  <1>8. ASSUME NEW c \in Conn, NEW s \in SessionId, Create(c, s) PROVE ConnectedRowIsBacked'
    <2>1. \A x \in SessionId \ replaced' : rows'[x] = "connected" => rows[x] = "connected" /\ x \notin replaced
      BY <1>8 DEF Create, Goto, TypeOK
    <2>2. \A t \in TransportId : /\ owner[t] # NoSession => owner'[t] = owner[t]
                                 /\ link[t] # "none" => link'[t] # "none"
      BY <1>8 DEF Create, Goto, TypeOK
    <2>3. \A d \in Conn : Closing(d) => Closing(d)' /\ UNCHANGED tr[d]
      BY <1>8 DEF Create, Goto, Closing, Reconnects, Closes, TypeOK
    <2>4. QED
      BY <2>1, <2>2, <2>3, BackedFrame
  <1>9. ASSUME NEW c \in Conn, CreatePut(c) PROVE ConnectedRowIsBacked'
    <2>1. \A x \in SessionId \ replaced' : rows'[x] = "connected" => rows[x] = "connected" /\ x \notin replaced
      BY <1>9 DEF CreatePut, InsertEntry, Return, Goto, TypeOK
    <2>2. \A t \in TransportId : /\ owner[t] # NoSession => owner'[t] = owner[t]
                                 /\ link[t] # "none" => link'[t] # "none"
      BY <1>9 DEF CreatePut, InsertEntry, Return, Goto, TypeOK
    <2>3. \A d \in Conn : Closing(d) => Closing(d)' /\ UNCHANGED tr[d]
      BY <1>9 DEF CreatePut, InsertEntry, Return, Goto, Closing, Reconnects, Closes, TypeOK
    <2>4. QED
      BY <2>1, <2>2, <2>3, BackedFrame
  <1>10. ASSUME NEW c \in Conn, NEW s \in SessionId, Connect(c, s)
         PROVE  ConnectedRowIsBacked'
    <2>1. \A x \in SessionId \ replaced' : rows'[x] = "connected" => rows[x] = "connected" /\ x \notin replaced
      BY <1>10 DEF Connect, Goto, SetStatus, TypeOK
    <2>2. \A t \in TransportId : /\ owner[t] # NoSession => owner'[t] = owner[t]
                                 /\ link[t] # "none" => link'[t] # "none"
      BY <1>10 DEF Connect, Goto, SetStatus, TypeOK
    <2>3. \A d \in Conn : Closing(d) => Closing(d)' /\ UNCHANGED tr[d]
      BY <1>10 DEF Connect, Goto, SetStatus, Closing, Reconnects, Closes, TypeOK
    <2>4. QED
      BY <2>1, <2>2, <2>3, BackedFrame
  <1>11. ASSUME NEW c \in Conn, ConnectDb(c) PROVE ConnectedRowIsBacked'
    <2>1. \A x \in SessionId \ replaced' : rows'[x] = "connected" => rows[x] = "connected" /\ x \notin replaced
      BY <1>11 DEF ConnectDb, AwaitLock, Goto, UpdateRow, TypeOK
    <2>2. \A t \in TransportId : /\ owner[t] # NoSession => owner'[t] = owner[t]
                                 /\ link[t] # "none" => link'[t] # "none"
      BY <1>11 DEF ConnectDb, AwaitLock, Goto, UpdateRow, TypeOK
    <2>3. \A d \in Conn : Closing(d) => Closing(d)' /\ UNCHANGED tr[d]
      BY <1>11 DEF ConnectDb, AwaitLock, Goto, UpdateRow, Closing, Reconnects, Closes, TypeOK
    <2>4. QED
      BY <2>1, <2>2, <2>3, BackedFrame
  <1>12. ASSUME NEW c \in Conn, Lock(c) PROVE ConnectedRowIsBacked'
    <2>1. \A x \in SessionId \ replaced' : rows'[x] = "connected" => rows[x] = "connected" /\ x \notin replaced
      BY <1>12 DEF Lock, Goto, TypeOK
    <2>2. \A t \in TransportId : /\ owner[t] # NoSession => owner'[t] = owner[t]
                                 /\ link[t] # "none" => link'[t] # "none"
      BY <1>12 DEF Lock, Goto, TypeOK
    <2>3. \A d \in Conn : Closing(d) => Closing(d)' /\ UNCHANGED tr[d]
      BY <1>12 DEF Lock, Goto, Closing, Reconnects, Closes, TypeOK
    <2>4. QED
      BY <2>1, <2>2, <2>3, BackedFrame
  <1>13. ASSUME NEW c \in Conn, ConnectClose(c) PROVE ConnectedRowIsBacked'
    <2>1. UNCHANGED <<rows, owner, replaced, tr>> /\ Closing(c)'
      BY <1>13 DEF ConnectClose, Goto, Closing, Reconnects, TypeOK
    <2>2. \A t \in TransportId \ {tr[c]} : link'[t] = link[t]
      BY <1>13 DEF ConnectClose, TypeOK
    <2>3. \A d \in Conn : Closing(d) => Closing(d)'
      BY <1>13, <2>1 DEF ConnectClose, Goto, Closing, TypeOK
    <2>4. QED
      BY <2>1, <2>2, <2>3 DEF ConnectedRowIsBacked, Backed, Closing
  <1>14. ASSUME NEW c \in Conn, ConnectOk(c) PROVE ConnectedRowIsBacked'
    <2>1. UNCHANGED <<rows, owner, replaced, tr>>
      BY <1>14 DEF ConnectOk
    <2>2. /\ tr[c] \in TransportId => link'[tr[c]] = "up"
          /\ \A t \in TransportId \ {tr[c]} : link'[t] = link[t]
      BY <1>14 DEF ConnectOk, Connected, TypeOK
    <2>3. \A d \in Conn \ {c} : Closing(d) => Closing(d)'
      BY <1>14 DEF ConnectOk, Connected, Goto, Closing, TypeOK
    <2>4. SUFFICES ASSUME NEW s \in SessionId \ replaced, rows[s] = "connected"
                   PROVE  Backed(s)'
      BY <2>1 DEF ConnectedRowIsBacked
    <2>5. PICK t \in TransportId : owner[t] = s /\ (link[t] # "none" \/ \E d \in Conn : tr[d] = t /\ Closing(d))
      BY <2>4 DEF ConnectedRowIsBacked, Backed, Closing
    <2>6. link'[t] # "none" \/ \E d \in Conn : tr[d] = t /\ Closing(d)'
      BY <2>2, <2>3, <2>5
    <2>7. QED
      BY <2>1, <2>5, <2>6 DEF Backed, Closing
  <1>15. ASSUME NEW c \in Conn, ConnectFail(c) PROVE ConnectedRowIsBacked'
    <2>1. \A x \in SessionId \ replaced' : rows'[x] = "connected" => rows[x] = "connected" /\ x \notin replaced
      BY <1>15 DEF ConnectFail, Goto, SetStatus, TransportError, TypeOK
    <2>2. \A t \in TransportId : /\ owner[t] # NoSession => owner'[t] = owner[t]
                                 /\ link[t] # "none" => link'[t] # "none"
      BY <1>15 DEF ConnectFail, Goto, SetStatus, TransportError, TypeOK
    <2>3. \A d \in Conn : Closing(d) => Closing(d)' /\ UNCHANGED tr[d]
      BY <1>15 DEF ConnectFail, Goto, SetStatus, TransportError, Closing, Reconnects, Closes, TypeOK
    <2>4. QED
      BY <2>1, <2>2, <2>3, BackedFrame
  <1>16. ASSUME NEW c \in Conn, ConnectPublish(c) PROVE ConnectedRowIsBacked'
    <2>1. \A x \in SessionId \ replaced' : rows'[x] = "connected" => rows[x] = "connected" /\ x \notin replaced
      BY <1>16 DEF ConnectPublish, Goto, TypeOK
    <2>2. \A t \in TransportId : /\ owner[t] # NoSession => owner'[t] = owner[t]
                                 /\ link[t] # "none" => link'[t] # "none"
      BY <1>16 DEF ConnectPublish, Goto, TypeOK
    <2>3. \A d \in Conn : Closing(d) => Closing(d)' /\ UNCHANGED tr[d]
      BY <1>16 DEF ConnectPublish, Goto, Closing, Reconnects, Closes, TypeOK
    <2>4. QED
      BY <2>1, <2>2, <2>3, BackedFrame
  <1>17. ASSUME NEW c \in Conn, ConnectedDb(c) PROVE ConnectedRowIsBacked'
    <2>1. sid[c] \in SessionId /\ tr[c] \in TransportId /\ owner[tr[c]] = sid[c] /\ link[tr[c]] # "none"
      BY <1>17
         DEF ConnectedDb, TypeOK, Suspended, Ownership, WorksOn, UpWhilePublishing,
             HasTransport, HoldsLock
    <2>2. \A s \in SessionId : s # sid[c] => rows'[s] = rows[s]
      BY <1>17, <2>1 DEF ConnectedDb, UpdateRow, TypeOK
    <2>3. UNCHANGED <<owner, link, replaced>>
      BY <1>17 DEF ConnectedDb
    <2>4. \A d \in Conn : Closing(d) => Closing(d)' /\ UNCHANGED tr[d]
      BY <1>17 DEF ConnectedDb, ReturnUnlocking, Return, Goto, Closing, Reconnects, Closes, TypeOK
    <2>5. SUFFICES ASSUME NEW s \in SessionId \ replaced, rows'[s] = "connected"
                   PROVE  Backed(s)'
      BY <2>3 DEF ConnectedRowIsBacked
    <2>6. CASE s = sid[c]
      BY <2>1, <2>3, <2>6 DEF Backed
    <2>7. CASE s # sid[c]
      <3>1. PICK t \in TransportId : owner[t] = s /\ (link[t] # "none" \/ \E d \in Conn : tr[d] = t /\ Closing(d))
        BY <2>2, <2>5, <2>7 DEF ConnectedRowIsBacked, Backed, Closing
      <3>2. QED
        BY <2>3, <2>4, <3>1 DEF Backed, Closing
    <2>8. QED
      BY <2>6, <2>7
  <1>18. ASSUME NEW c \in Conn, ErrorDb(c) PROVE ConnectedRowIsBacked'
    <2>1. \A x \in SessionId \ replaced' : rows'[x] = "connected" => rows[x] = "connected" /\ x \notin replaced
      BY <1>18 DEF ErrorDb, ReturnUnlocking, Return, Goto, UpdateRow, TypeOK
    <2>2. \A t \in TransportId : /\ owner[t] # NoSession => owner'[t] = owner[t]
                                 /\ link[t] # "none" => link'[t] # "none"
      BY <1>18 DEF ErrorDb, ReturnUnlocking, Return, Goto, UpdateRow, TypeOK
    <2>3. \A d \in Conn : Closing(d) => Closing(d)' /\ UNCHANGED tr[d]
      BY <1>18 DEF ErrorDb, ReturnUnlocking, Return, Goto, UpdateRow, Closing, Reconnects, Closes, TypeOK
    <2>4. QED
      BY <2>1, <2>2, <2>3, BackedFrame
  <1>19. ASSUME NEW c \in Conn, NEW s \in SessionId, Disconnect(c, s)
         PROVE  ConnectedRowIsBacked'
    <2>1. \A x \in SessionId \ replaced' : rows'[x] = "connected" => rows[x] = "connected" /\ x \notin replaced
      BY <1>19 DEF Disconnect, BeginDisconnect, AwaitLock, Goto, TypeOK
    <2>2. \A t \in TransportId : /\ owner[t] # NoSession => owner'[t] = owner[t]
                                 /\ link[t] # "none" => link'[t] # "none"
      BY <1>19 DEF Disconnect, BeginDisconnect, AwaitLock, Goto, TypeOK
    <2>3. \A d \in Conn : Closing(d) => Closing(d)' /\ UNCHANGED tr[d]
      BY <1>19 DEF Disconnect, BeginDisconnect, AwaitLock, Goto, Closing, Reconnects, Closes, TypeOK
    <2>4. QED
      BY <2>1, <2>2, <2>3, BackedFrame
  <1>20. ASSUME NEW c \in Conn, DisconnectTransport(c) PROVE ConnectedRowIsBacked'
    <2>1. UNCHANGED <<rows, owner, replaced, tr>> /\ Closing(c)'
      BY <1>20 DEF DisconnectTransport, Goto, Closing, Closes, TypeOK
    <2>2. \A t \in TransportId \ {tr[c]} : link'[t] = link[t]
      BY <1>20 DEF DisconnectTransport, TypeOK
    <2>3. \A d \in Conn : Closing(d) => Closing(d)'
      BY <1>20, <2>1 DEF DisconnectTransport, Goto, Closing, TypeOK
    <2>4. QED
      BY <2>1, <2>2, <2>3 DEF ConnectedRowIsBacked, Backed, Closing
  <1>21. ASSUME NEW c \in Conn, DisconnectMap(c) PROVE ConnectedRowIsBacked'
    <2>1. \A x \in SessionId \ replaced' : rows'[x] = "connected" => rows[x] = "connected" /\ x \notin replaced
      BY <1>21 DEF DisconnectMap, TypeOK
    <2>2. \A t \in TransportId : /\ owner[t] # NoSession => owner'[t] = owner[t]
                                 /\ link[t] # "none" => link'[t] # "none"
      BY <1>21 DEF DisconnectMap, TypeOK
    <2>3. \A d \in Conn : Closing(d) => Closing(d)' /\ UNCHANGED tr[d]
      BY <1>21 DEF DisconnectMap, Goto, Closing, Closes, TypeOK
    <2>4. QED
      BY <2>1, <2>2, <2>3, BackedFrame
  <1>22. ASSUME NEW c \in Conn, DisconnectedDb(c) PROVE ConnectedRowIsBacked'
    <2>1. sid[c] \in SessionId /\ tr[c] \in TransportId /\ owner[tr[c]] = sid[c]
      BY <1>22
         DEF DisconnectedDb, TypeOK, Suspended, Ownership, WorksOn, HasTransport,
             HoldsLock
    <2>2. rows'[sid[c]] # "connected" /\ \A x \in SessionId \ {sid[c]} : rows'[x] = rows[x]
      BY <1>22, <2>1 DEF DisconnectedDb, UpdateRow, TypeOK
    <2>3. UNCHANGED <<owner, link, replaced>>
      BY <1>22 DEF DisconnectedDb
    <2>4. \A d \in Conn \ {c} : Closing(d) => Closing(d)' /\ UNCHANGED tr[d]
      BY <1>22 DEF DisconnectedDb, ReturnUnlocking, Return, Goto, Closing, Reconnects, Closes, TypeOK
    <2>5. SUFFICES ASSUME NEW s \in SessionId \ replaced, rows'[s] = "connected"
                   PROVE  Backed(s)'
      BY <2>3 DEF ConnectedRowIsBacked
    <2>6. s # sid[c] /\ rows[s] = "connected"
      BY <2>1, <2>2, <2>5 DEF TypeOK
    <2>7. PICK t \in TransportId : owner[t] = s /\ (link[t] # "none" \/ \E d \in Conn : tr[d] = t /\ Closing(d))
      BY <2>6 DEF ConnectedRowIsBacked, Backed, Closing
    <2>8. t # tr[c]
      BY <2>1, <2>6, <2>7
    <2>9. link'[t] # "none" \/ \E d \in Conn : tr'[d] = t /\ Closing(d)'
      BY <2>3, <2>4, <2>7, <2>8
    <2>10. QED
      BY <2>3, <2>7, <2>9 DEF Backed, Closing
  <1>23. ASSUME NEW c \in Conn, NEW s \in SessionId, Delete(c, s)
         PROVE  ConnectedRowIsBacked'
    <2>1. \A x \in SessionId \ replaced' : rows'[x] = "connected" => rows[x] = "connected" /\ x \notin replaced
      BY <1>23 DEF Delete, AwaitLock, Goto, TypeOK
    <2>2. \A t \in TransportId : /\ owner[t] # NoSession => owner'[t] = owner[t]
                                 /\ link[t] # "none" => link'[t] # "none"
      BY <1>23 DEF Delete, AwaitLock, Goto, TypeOK
    <2>3. \A d \in Conn : Closing(d) => Closing(d)' /\ UNCHANGED tr[d]
      BY <1>23 DEF Delete, AwaitLock, Goto, Closing, Reconnects, Closes, TypeOK
    <2>4. QED
      BY <2>1, <2>2, <2>3, BackedFrame
  <1>24. ASSUME NEW c \in Conn, DeleteTransport(c) PROVE ConnectedRowIsBacked'
    <2>1. UNCHANGED <<rows, owner, replaced, tr>> /\ Closing(c)'
      BY <1>24 DEF DeleteTransport, Goto, Closing, Closes, TypeOK
    <2>2. \A t \in TransportId \ {tr[c]} : link'[t] = link[t]
      BY <1>24 DEF DeleteTransport, TypeOK
    <2>3. \A d \in Conn : Closing(d) => Closing(d)'
      BY <1>24, <2>1 DEF DeleteTransport, Goto, Closing, TypeOK
    <2>4. QED
      BY <2>1, <2>2, <2>3 DEF ConnectedRowIsBacked, Backed, Closing
  <1>25. ASSUME NEW c \in Conn, DeleteDb(c) PROVE ConnectedRowIsBacked'
    <2>1. sid[c] \in SessionId /\ tr[c] \in TransportId /\ owner[tr[c]] = sid[c]
      BY <1>25 DEF DeleteDb, TypeOK, Suspended, Ownership, WorksOn, HasTransport, HoldsLock
    <2>2. rows'[sid[c]] # "connected" /\ \A x \in SessionId \ {sid[c]} : rows'[x] = rows[x]
      BY <1>25, <2>1 DEF DeleteDb, UpdateRow, TypeOK
    <2>3. UNCHANGED <<owner, link, replaced>>
      BY <1>25 DEF DeleteDb
    <2>4. \A d \in Conn \ {c} : Closing(d) => Closing(d)' /\ UNCHANGED tr[d]
      BY <1>25 DEF DeleteDb, ReturnUnlocking, Return, Goto, Closing, Reconnects, Closes, TypeOK
    <2>5. SUFFICES ASSUME NEW s \in SessionId \ replaced, rows'[s] = "connected"
                   PROVE  Backed(s)'
      BY <2>3 DEF ConnectedRowIsBacked
    <2>6. s # sid[c] /\ rows[s] = "connected"
      BY <2>1, <2>2, <2>5 DEF TypeOK
    <2>7. PICK t \in TransportId : owner[t] = s /\ (link[t] # "none" \/ \E d \in Conn : tr[d] = t /\ Closing(d))
      BY <2>6 DEF ConnectedRowIsBacked, Backed, Closing
    <2>8. t # tr[c]
      BY <2>1, <2>6, <2>7
    <2>9. link'[t] # "none" \/ \E d \in Conn : tr'[d] = t /\ Closing(d)'
      BY <2>3, <2>4, <2>7, <2>8
    <2>10. QED
      BY <2>3, <2>7, <2>9 DEF Backed, Closing
  <1>26. ASSUME NEW c \in Conn, NEW s \in SessionId, Refresh(c, s)
         PROVE  ConnectedRowIsBacked'
    <2>1. \A x \in SessionId \ replaced' : rows'[x] = "connected" => rows[x] = "connected" /\ x \notin replaced
      BY <1>26 DEF Refresh, AwaitLock, Goto, TypeOK
    <2>2. \A t \in TransportId : /\ owner[t] # NoSession => owner'[t] = owner[t]
                                 /\ link[t] # "none" => link'[t] # "none"
      BY <1>26 DEF Refresh, AwaitLock, Goto, TypeOK
    <2>3. \A d \in Conn : Closing(d) => Closing(d)' /\ UNCHANGED tr[d]
      BY <1>26 DEF Refresh, AwaitLock, Goto, Closing, Reconnects, Closes, TypeOK
    <2>4. QED
      BY <2>1, <2>2, <2>3, BackedFrame
  <1>27. ASSUME NEW c \in Conn, RefreshTransport(c) PROVE ConnectedRowIsBacked'
    <2>1. \A x \in SessionId \ replaced' : rows'[x] = "connected" => rows[x] = "connected" /\ x \notin replaced
      BY <1>27 DEF RefreshTransport, ReturnUnlocking, Return, Goto, TypeOK
    <2>2. \A t \in TransportId : /\ owner[t] # NoSession => owner'[t] = owner[t]
                                 /\ link[t] # "none" => link'[t] # "none"
      BY <1>27 DEF RefreshTransport, ReturnUnlocking, Return, Goto, TypeOK
    <2>3. \A d \in Conn : Closing(d) => Closing(d)' /\ UNCHANGED tr[d]
      BY <1>27 DEF RefreshTransport, ReturnUnlocking, Return, Goto, Closing, Reconnects, Closes, TypeOK
    <2>4. QED
      BY <2>1, <2>2, <2>3, BackedFrame
  <1>28. ASSUME NEW c \in Conn, NEW s \in SessionId, NEW p \in Pane, Input(c, s, p)
         PROVE  ConnectedRowIsBacked'
    <2>1. \A x \in SessionId \ replaced' : rows'[x] = "connected" => rows[x] = "connected" /\ x \notin replaced
      BY <1>28 DEF Input, AwaitLock, Goto, TypeOK
    <2>2. \A t \in TransportId : /\ owner[t] # NoSession => owner'[t] = owner[t]
                                 /\ link[t] # "none" => link'[t] # "none"
      BY <1>28 DEF Input, AwaitLock, Goto, TypeOK
    <2>3. \A d \in Conn : Closing(d) => Closing(d)' /\ UNCHANGED tr[d]
      BY <1>28 DEF Input, AwaitLock, Goto, Closing, Reconnects, Closes, TypeOK
    <2>4. QED
      BY <2>1, <2>2, <2>3, BackedFrame
  <1>29. ASSUME NEW c \in Conn, InputTransport(c) PROVE ConnectedRowIsBacked'
    <2>1. \A x \in SessionId \ replaced' : rows'[x] = "connected" => rows[x] = "connected" /\ x \notin replaced
      BY <1>29 DEF InputTransport, ReturnUnlocking, Return, Goto, TypeOK
    <2>2. \A t \in TransportId : /\ owner[t] # NoSession => owner'[t] = owner[t]
                                 /\ link[t] # "none" => link'[t] # "none"
      BY <1>29 DEF InputTransport, ReturnUnlocking, Return, Goto, TypeOK
    <2>3. \A d \in Conn : Closing(d) => Closing(d)' /\ UNCHANGED tr[d]
      BY <1>29 DEF InputTransport, ReturnUnlocking, Return, Goto, Closing, Reconnects, Closes, TypeOK
    <2>4. QED
      BY <2>1, <2>2, <2>3, BackedFrame
  <1>30. ASSUME NEW c \in Conn, Close(c) PROVE ConnectedRowIsBacked'
    <2>1. \A x \in SessionId \ replaced' : rows'[x] = "connected" => rows[x] = "connected" /\ x \notin replaced
      BY <1>30 DEF Close, LeaveWebSocket, LeaveWebTransport, Goto, TypeOK
    <2>2. \A t \in TransportId : /\ owner[t] # NoSession => owner'[t] = owner[t]
                                 /\ link[t] # "none" => link'[t] # "none"
      BY <1>30 DEF Close, LeaveWebSocket, LeaveWebTransport, Goto, TypeOK
    <2>3. \A d \in Conn : Closing(d) => Closing(d)' /\ UNCHANGED tr[d]
      BY <1>30 DEF Close, LeaveWebSocket, LeaveWebTransport, Goto, Closing, Reconnects, Closes, TypeOK
    <2>4. QED
      BY <2>1, <2>2, <2>3, BackedFrame
  <1>31. ASSUME NEW c \in Conn, NEW s \in SessionId, CleanupDisconnect(c, s)
         PROVE  ConnectedRowIsBacked'
    <2>1. \A x \in SessionId \ replaced' : rows'[x] = "connected" => rows[x] = "connected" /\ x \notin replaced
      BY <1>31 DEF CleanupDisconnect, BeginDisconnect, AwaitLock, Goto, TypeOK
    <2>2. \A t \in TransportId : /\ owner[t] # NoSession => owner'[t] = owner[t]
                                 /\ link[t] # "none" => link'[t] # "none"
      BY <1>31 DEF CleanupDisconnect, BeginDisconnect, AwaitLock, Goto, TypeOK
    <2>3. \A d \in Conn : Closing(d) => Closing(d)' /\ UNCHANGED tr[d]
      BY <1>31 DEF CleanupDisconnect, BeginDisconnect, AwaitLock, Goto, Closing, Reconnects, Closes, TypeOK
    <2>4. QED
      BY <2>1, <2>2, <2>3, BackedFrame
  <1>32. ASSUME NEW c \in Conn, CleanupDone(c) PROVE ConnectedRowIsBacked'
    <2>1. \A x \in SessionId \ replaced' : rows'[x] = "connected" => rows[x] = "connected" /\ x \notin replaced
      BY <1>32 DEF CleanupDone, Goto, TypeOK
    <2>2. \A t \in TransportId : /\ owner[t] # NoSession => owner'[t] = owner[t]
                                 /\ link[t] # "none" => link'[t] # "none"
      BY <1>32 DEF CleanupDone, Goto, TypeOK
    <2>3. \A d \in Conn : Closing(d) => Closing(d)' /\ UNCHANGED tr[d]
      BY <1>32 DEF CleanupDone, Goto, Closing, Reconnects, Closes, TypeOK
    <2>4. QED
      BY <2>1, <2>2, <2>3, BackedFrame
  <1>33. ASSUME NEW t \in TransportId, DropTransport(t) PROVE ConnectedRowIsBacked'
    <2>1. owner' = [owner EXCEPT ![t] = NoSession] /\ link' = [link EXCEPT ![t] = "none"]
          /\ UNCHANGED <<rows, transport, pc, op, tr, replaced>>
      BY <1>33 DEF DropTransport
    <2>2. SUFFICES ASSUME NEW s \in SessionId \ replaced, rows[s] = "connected"
                   PROVE  Backed(s)'
      BY <2>1 DEF ConnectedRowIsBacked
    <2>3. PICK u \in TransportId : owner[u] = s /\ (link[u] # "none" \/ \E d \in Conn : tr[d] = u /\ Closing(d))
      BY <2>2 DEF ConnectedRowIsBacked, Backed, Closing
    <2>4. transport[s] = u \/ \E d \in Conn : Deleting(d, u)
      BY <2>2, <2>3, NullAssumption DEF Retained
    <2>5. u # t
      BY <1>33, <2>4 DEF DropTransport, Referenced, Deleting
    <2>6. owner'[u] = s /\ link'[u] = link[u]
      BY <2>1, <2>3, <2>5 DEF TypeOK
    <2>7. link'[u] # "none" \/ \E d \in Conn : tr'[d] = u /\ Closing(d)'
      BY <2>1, <2>3, <2>6 DEF Closing
    <2>8. QED
      BY <2>6, <2>7 DEF Backed, Closing
  <1>34. ASSUME NEW t \in TransportId, LinkEnds(t) PROVE ConnectedRowIsBacked'
    <2>1. \A x \in SessionId \ replaced' : rows'[x] = "connected" => rows[x] = "connected" /\ x \notin replaced
      BY <1>34 DEF LinkEnds
    <2>2. \A u \in TransportId : /\ owner[u] # NoSession => owner'[u] = owner[u]
                                 /\ link[u] # "none" => link'[u] # "none"
      BY <1>34 DEF LinkEnds, TypeOK
    <2>3. \A d \in Conn : Closing(d) => Closing(d)' /\ UNCHANGED tr[d]
      BY <1>34 DEF LinkEnds, Closing
    <2>4. QED
      BY <2>1, <2>2, <2>3, BackedFrame
  <1>35. ASSUME Restart PROVE ConnectedRowIsBacked'
    BY <1>35, NullAssumption DEF Restart, NoRows, TypeOK, ConnectedRowIsBacked, Backed
  <1>36. CASE UNCHANGED vars
    BY <1>36 DEF vars, TypeOK, ConnectedRowIsBacked, Backed
  <1>. QED
    BY <1>1, <1>2, <1>3, <1>4, <1>5, <1>6, <1>7, <1>8, <1>9, <1>10, <1>11, <1>12,
       <1>13, <1>14, <1>15, <1>16, <1>17, <1>18, <1>19, <1>20, <1>21, <1>22,
       <1>23, <1>24, <1>25, <1>26, <1>27, <1>28, <1>29, <1>30, <1>31, <1>32,
       <1>33, <1>34, <1>35, <1>36
       DEF Next, Advance, Client

(* Every step keeps the routes, and what is typed, on panes of the hosts.  *)
LEMMA RoutesStep ==
  ASSUME TypeOK, Suspended, EntryShape, Ownership, RoutesFollowHosts, [Next]_vars
  PROVE  RoutesFollowHosts'
  <1>1. ASSUME NEW c \in Conn, Open(c) PROVE RoutesFollowHosts'
    BY <1>1, HostPanesAssumption, NullAssumption
       DEF Open, Goto, TypeOK, Suspended, EntryShape, InMemory, Ownership, WorksOn,
           RoutesFollowHosts, Typing, HasTransport, HoldsLock, Op, Status
  <1>2. ASSUME NEW c \in Conn, ListSessions(c) PROVE RoutesFollowHosts'
    BY <1>2, HostPanesAssumption, NullAssumption
       DEF ListSessions, Goto, TypeOK, Suspended, EntryShape, InMemory, Ownership,
           WorksOn, RoutesFollowHosts, Typing, HasTransport, HoldsLock, Op, Status
  <1>3. ASSUME NEW c \in Conn, LoadFetch(c) PROVE RoutesFollowHosts'
    BY <1>3, HostPanesAssumption, NullAssumption
       DEF LoadFetch, Goto, TypeOK, Suspended, EntryShape, InMemory, Ownership,
           WorksOn, RoutesFollowHosts, Typing, HasTransport, HoldsLock, Op, Status
  <1>4. ASSUME NEW c \in Conn, NEW s \in SessionId, LoadListed(c, s)
        PROVE  RoutesFollowHosts'
    BY <1>4, HostPanesAssumption, NullAssumption
       DEF LoadListed, InMemory, TypeOK, Suspended, EntryShape, Ownership, WorksOn,
           RoutesFollowHosts, Typing, HasTransport, HoldsLock, Op, Status
  <1>5. ASSUME NEW c \in Conn, NEW s \in SessionId, LoadAbsent(c, s)
        PROVE  RoutesFollowHosts'
    BY <1>5, HostPanesAssumption, NullAssumption
       DEF LoadAbsent, Goto, InMemory, TypeOK, Suspended, EntryShape, Ownership,
           WorksOn, RoutesFollowHosts, Typing, HasTransport, HoldsLock, Op, Status
  <1>6. ASSUME NEW c \in Conn, LoadPut(c) PROVE RoutesFollowHosts'
    <2>0. sid[c] \in SessionId /\ ~Typing(c)'
      BY <1>6 DEF LoadPut, Goto, Typing, Suspended, TypeOK
    <2>1. \A x \in SessionId : tmux_sessions'[x] \subseteq HostPanes[x]
      BY <1>6, <2>0 DEF LoadPut, InsertEntry, TypeOK, RoutesFollowHosts
    <2>2. \A p \in Pane : pane_to_session'[p] # NoSession => p \in HostPanes[pane_to_session'[p]]
      BY <1>6, <2>0, NullAssumption DEF LoadPut, InsertEntry, TypeOK, RoutesFollowHosts
    <2>3. \A d \in Conn : Typing(d)' => typed'[d] \in HostPanes[sid'[d]] \cap HostPanes[owner'[tr'[d]]]
      <3>1. SUFFICES ASSUME NEW d \in Conn \ {c}, Typing(d)
                     PROVE  /\ typed'[d] = typed[d] /\ sid'[d] = sid[d]
                            /\ owner'[tr'[d]] = owner[tr[d]]
        BY <1>6, <2>0 DEF LoadPut, Goto, Typing, TypeOK, RoutesFollowHosts
      <3>2. tr[d] # NoTransport /\ owner[tr[d]] # NoSession
        BY <3>1 DEF Typing, Suspended, Ownership, HasTransport, HoldsLock, Op
      <3>3. QED
        BY <1>6, <3>2 DEF LoadPut, InsertEntry, TypeOK
    <2>4. QED
      BY <2>1, <2>2, <2>3 DEF RoutesFollowHosts
  <1>7. ASSUME NEW c \in Conn, LoadDone(c) PROVE RoutesFollowHosts'
    BY <1>7, HostPanesAssumption, NullAssumption
       DEF LoadDone, Goto, TypeOK, Suspended, EntryShape, InMemory, Ownership, WorksOn,
           RoutesFollowHosts, Typing, HasTransport, HoldsLock, Op, Status
  <1>8. ASSUME NEW c \in Conn, NEW s \in SessionId, Create(c, s) PROVE RoutesFollowHosts'
    BY <1>8, HostPanesAssumption, NullAssumption
       DEF Create, Goto, TypeOK, Suspended, EntryShape, InMemory, Ownership, WorksOn,
           RoutesFollowHosts, Typing, HasTransport, HoldsLock, Op, Status
  <1>9. ASSUME NEW c \in Conn, CreatePut(c) PROVE RoutesFollowHosts'
    BY <1>9, HostPanesAssumption, NullAssumption
       DEF CreatePut, Goto, InsertEntry, Return, InMemory, TypeOK, Suspended,
           EntryShape, Ownership, WorksOn, RoutesFollowHosts, Typing, HasTransport, HoldsLock,
           Op, Status
  <1>10. ASSUME NEW c \in Conn, NEW s \in SessionId, Connect(c, s) PROVE RoutesFollowHosts'
    BY <1>10, HostPanesAssumption, NullAssumption
       DEF Connect, Goto, SetStatus, InMemory, TypeOK, Suspended, EntryShape,
           Ownership, WorksOn, RoutesFollowHosts, Typing, HasTransport, HoldsLock, Op, Status
  <1>11. ASSUME NEW c \in Conn, ConnectDb(c) PROVE RoutesFollowHosts'
    BY <1>11, HostPanesAssumption, NullAssumption
       DEF ConnectDb, Goto, UpdateRow, AwaitLock, TypeOK, Suspended, EntryShape,
           InMemory, Ownership, WorksOn, RoutesFollowHosts, Typing, HasTransport, HoldsLock,
           Op, Status
  <1>12. ASSUME NEW c \in Conn, Lock(c) PROVE RoutesFollowHosts'
    BY <1>12, HostPanesAssumption, NullAssumption
       DEF Lock, Goto, TypeOK, Suspended, EntryShape, InMemory, Ownership, WorksOn,
           RoutesFollowHosts, Typing, HasTransport, HoldsLock, Op, Status
  <1>13. ASSUME NEW c \in Conn, ConnectClose(c) PROVE RoutesFollowHosts'
    BY <1>13, HostPanesAssumption, NullAssumption
       DEF ConnectClose, Goto, TypeOK, Suspended, EntryShape, InMemory, Ownership,
           WorksOn, RoutesFollowHosts, Typing, HasTransport, HoldsLock, Op, Status
  <1>14. ASSUME NEW c \in Conn, ConnectOk(c) PROVE RoutesFollowHosts'
    BY <1>14, HostPanesAssumption, NullAssumption
       DEF ConnectOk, Connected, Goto, TypeOK, Suspended, EntryShape, InMemory, Ownership,
           WorksOn, RoutesFollowHosts, Typing, HasTransport, HoldsLock, Op, Status
  <1>15. ASSUME NEW c \in Conn, ConnectFail(c) PROVE RoutesFollowHosts'
    BY <1>15, HostPanesAssumption, NullAssumption
       DEF ConnectFail, Goto, SetStatus, InMemory, TransportError, TypeOK, Suspended,
           EntryShape, Ownership, WorksOn, RoutesFollowHosts, Typing, HasTransport, HoldsLock,
           Op, Status
  <1>16. ASSUME NEW c \in Conn, ConnectPublish(c) PROVE RoutesFollowHosts'
    BY <1>16, HostPanesAssumption, NullAssumption
       DEF ConnectPublish, Goto, Route, SetStatus, SetPanes, InMemory, TypeOK,
           Suspended, EntryShape, Ownership, WorksOn, RoutesFollowHosts, Typing, HasTransport,
           HoldsLock, Op, Status
  <1>17. ASSUME NEW c \in Conn, ConnectedDb(c) PROVE RoutesFollowHosts'
    BY <1>17, HostPanesAssumption, NullAssumption
       DEF ConnectedDb, Goto, UpdateRow, ReturnUnlocking, Return, TypeOK, Suspended,
           EntryShape, InMemory, Ownership, WorksOn, RoutesFollowHosts, Typing, HasTransport,
           HoldsLock, Op, Status
  <1>18. ASSUME NEW c \in Conn, ErrorDb(c) PROVE RoutesFollowHosts'
    BY <1>18, HostPanesAssumption, NullAssumption
       DEF ErrorDb, Goto, UpdateRow, ReturnUnlocking, Return, TypeOK, Suspended,
           EntryShape, InMemory, Ownership, WorksOn, RoutesFollowHosts, Typing, HasTransport,
           HoldsLock, Op, Status
  <1>19. ASSUME NEW c \in Conn, NEW s \in SessionId, Disconnect(c, s)
         PROVE  RoutesFollowHosts'
    BY <1>19, HostPanesAssumption, NullAssumption
       DEF Disconnect, BeginDisconnect, Unroute, AwaitLock, Goto, InMemory, TypeOK,
           Suspended, EntryShape, Ownership, WorksOn, RoutesFollowHosts, Typing, HasTransport,
           HoldsLock, Op, Status
  <1>20. ASSUME NEW c \in Conn, DisconnectTransport(c) PROVE RoutesFollowHosts'
    BY <1>20, HostPanesAssumption, NullAssumption
       DEF DisconnectTransport, Goto, SetStatus, SetPanes, InMemory, TypeOK, Suspended,
           EntryShape, Ownership, WorksOn, RoutesFollowHosts, Typing, HasTransport, HoldsLock,
           Op, Status
  <1>21. ASSUME NEW c \in Conn, DisconnectMap(c) PROVE RoutesFollowHosts'
    BY <1>21, HostPanesAssumption, NullAssumption
       DEF DisconnectMap, Goto, SetStatus, SetPanes, InMemory, TypeOK, Suspended,
           EntryShape, Ownership, WorksOn, RoutesFollowHosts, Typing, HasTransport, HoldsLock,
           Op, Status
  <1>22. ASSUME NEW c \in Conn, DisconnectedDb(c) PROVE RoutesFollowHosts'
    BY <1>22, HostPanesAssumption, NullAssumption
       DEF DisconnectedDb, Goto, UpdateRow, ReturnUnlocking, Return, TypeOK, Suspended,
           EntryShape, InMemory, Ownership, WorksOn, RoutesFollowHosts, Typing, HasTransport,
           HoldsLock, Op, Status
  <1>23. ASSUME NEW c \in Conn, NEW s \in SessionId, Delete(c, s) PROVE RoutesFollowHosts'
    <2>0. InMemory(s) => owner[transport[s]] = s
      BY DEF Ownership
    <2>1. \A x \in SessionId : tmux_sessions'[x] \subseteq HostPanes[x]
      BY <1>23, <2>0 DEF Delete, Unroute, TypeOK, RoutesFollowHosts
    <2>2. \A p \in Pane : pane_to_session'[p] # NoSession => p \in HostPanes[pane_to_session'[p]]
      BY <1>23, <2>0, NullAssumption DEF Delete, Unroute, TypeOK, RoutesFollowHosts
    <2>3. \A d \in Conn : Typing(d)' => typed'[d] \in HostPanes[sid'[d]] \cap HostPanes[owner'[tr'[d]]]
      <3>1. UNCHANGED <<owner, typed>> /\ \A d \in Conn \ {c} : UNCHANGED <<sid[d], tr[d]>>
        BY <1>23 DEF Delete, AwaitLock, TypeOK
      <3>2. \A d \in Conn : Typing(d)' => d # c /\ Typing(d)
        BY <1>23 DEF Delete, AwaitLock, Goto, Typing, TypeOK
      <3>3. QED
        BY <3>1, <3>2 DEF RoutesFollowHosts
    <2>4. QED
      BY <2>1, <2>2, <2>3 DEF RoutesFollowHosts
  <1>24. ASSUME NEW c \in Conn, DeleteTransport(c) PROVE RoutesFollowHosts'
    BY <1>24, HostPanesAssumption, NullAssumption
       DEF DeleteTransport, Goto, TypeOK, Suspended, EntryShape, InMemory, Ownership,
           WorksOn, RoutesFollowHosts, Typing, HasTransport, HoldsLock, Op, Status
  <1>25. ASSUME NEW c \in Conn, DeleteDb(c) PROVE RoutesFollowHosts'
    BY <1>25, HostPanesAssumption, NullAssumption
       DEF DeleteDb, Goto, ReturnUnlocking, Return, TypeOK, Suspended, EntryShape,
           InMemory, Ownership, WorksOn, RoutesFollowHosts, Typing, HasTransport, HoldsLock,
           Op, Status
  <1>26. ASSUME NEW c \in Conn, NEW s \in SessionId, Refresh(c, s) PROVE RoutesFollowHosts'
    BY <1>26, HostPanesAssumption, NullAssumption
       DEF Refresh, AwaitLock, Goto, InMemory, TypeOK, Suspended, EntryShape,
           Ownership, WorksOn, RoutesFollowHosts, Typing, HasTransport, HoldsLock, Op, Status
  <1>27. ASSUME NEW c \in Conn, RefreshTransport(c) PROVE RoutesFollowHosts'
    <2>0. sid[c] \in SessionId
      BY <1>27 DEF RefreshTransport, Suspended, HasTransport, HoldsLock, Op
    <2>1. \A x \in SessionId : tmux_sessions'[x] \subseteq HostPanes[x]
      <3>1. tmux_sessions' \in {tmux_sessions, [tmux_sessions EXCEPT ![sid[c]] = HostPanes[sid[c]]]}
        BY <1>27 DEF RefreshTransport, SetPanes
      <3>2. \A x \in SessionId : tmux_sessions'[x] \in {tmux_sessions[x], HostPanes[x]}
        BY <2>0, <3>1 DEF TypeOK
      <3>3. QED
        BY <3>2 DEF RoutesFollowHosts
    <2>2. \A p \in Pane : pane_to_session'[p] # NoSession => p \in HostPanes[pane_to_session'[p]]
      BY <1>27, <2>0, NullAssumption DEF RefreshTransport, Route, TypeOK, RoutesFollowHosts
    <2>3. \A d \in Conn : Typing(d)' => typed'[d] \in HostPanes[sid'[d]] \cap HostPanes[owner'[tr'[d]]]
      BY <1>27, <2>0, NullAssumption
         DEF RefreshTransport, ReturnUnlocking, Return, Goto, Typing, TypeOK, RoutesFollowHosts
    <2>4. QED
      BY <2>1, <2>2, <2>3 DEF RoutesFollowHosts
  <1>28. ASSUME NEW c \in Conn, NEW s \in SessionId, NEW p \in Pane, Input(c, s, p)
         PROVE  RoutesFollowHosts'
    <2>1. InMemory(s) /\ p \in tmux_sessions[s] /\ pane_to_session[p] # NoSession /\ InMemory(pane_to_session[p])
          /\ AwaitLock(c, "input", s, transport[pane_to_session[p]])
          /\ UNCHANGED <<tmux_sessions, pane_to_session, owner>>
      BY <1>28 DEF Input
    <2>2. p \in HostPanes[s] /\ p \in HostPanes[pane_to_session[p]] /\ pane_to_session[p] \in SessionId
      BY <2>1 DEF RoutesFollowHosts, TypeOK
    <2>3. owner[transport[pane_to_session[p]]] = pane_to_session[p]
      BY <2>1, <2>2 DEF Ownership
    <2>4. tr' = [tr EXCEPT ![c] = transport[pane_to_session[p]]] /\ sid' = [sid EXCEPT ![c] = s]
          /\ typed' = [typed EXCEPT ![c] = p]
      BY <1>28, <2>1 DEF AwaitLock, Input
    <2>5. \A d \in Conn \ {c} : Typing(d)' => Typing(d)
      BY <2>1 DEF AwaitLock, Goto, Typing, TypeOK
    <2>6. QED
      BY <2>1, <2>2, <2>3, <2>4, <2>5 DEF RoutesFollowHosts, TypeOK
  <1>29. ASSUME NEW c \in Conn, InputTransport(c) PROVE RoutesFollowHosts'
    BY <1>29, HostPanesAssumption, NullAssumption
       DEF InputTransport, ReturnUnlocking, Return, Goto, TypeOK, Suspended,
           EntryShape, InMemory, Ownership, WorksOn, RoutesFollowHosts, Typing, HasTransport,
           HoldsLock, Op, Status
  <1>30. ASSUME NEW c \in Conn, Close(c) PROVE RoutesFollowHosts'
    BY <1>30, HostPanesAssumption, NullAssumption
       DEF Close, LeaveWebSocket, LeaveWebTransport,
           Goto, TypeOK, Suspended, EntryShape, InMemory, Ownership, WorksOn,
           RoutesFollowHosts, Typing, HasTransport, HoldsLock, Op, Status
  <1>31. ASSUME NEW c \in Conn, NEW s \in SessionId, CleanupDisconnect(c, s)
         PROVE  RoutesFollowHosts'
    BY <1>31, HostPanesAssumption, NullAssumption
       DEF CleanupDisconnect, BeginDisconnect, Unroute, AwaitLock, Goto, InMemory,
           TypeOK, Suspended, EntryShape, Ownership, WorksOn, RoutesFollowHosts,
           Typing, HasTransport, HoldsLock, Op, Status
  <1>32. ASSUME NEW c \in Conn, CleanupDone(c) PROVE RoutesFollowHosts'
    BY <1>32, HostPanesAssumption, NullAssumption
       DEF CleanupDone, Goto, TypeOK, Suspended, EntryShape, InMemory, Ownership,
           WorksOn, RoutesFollowHosts, Typing, HasTransport, HoldsLock, Op, Status
  <1>33. ASSUME NEW t \in TransportId, DropTransport(t) PROVE RoutesFollowHosts'
    BY <1>33, HostPanesAssumption, NullAssumption
       DEF DropTransport, Referenced, TypeOK, Suspended, EntryShape, InMemory,
           Ownership, WorksOn, RoutesFollowHosts, Typing, HasTransport, HoldsLock, Op, Status
  <1>34. ASSUME NEW t \in TransportId, LinkEnds(t) PROVE RoutesFollowHosts'
    BY <1>34, HostPanesAssumption, NullAssumption
       DEF LinkEnds, TypeOK, Suspended, EntryShape, InMemory,
           Ownership, WorksOn, RoutesFollowHosts, Typing, HasTransport, HoldsLock, Op, Status
  <1>35. ASSUME Restart PROVE RoutesFollowHosts'
    BY <1>35, HostPanesAssumption, NullAssumption
       DEF Restart, NoRows, TypeOK, Suspended, EntryShape, InMemory, Ownership,
           WorksOn, RoutesFollowHosts, Typing, HasTransport, HoldsLock, Op, Status
  <1>36. CASE UNCHANGED vars
    BY <1>36
       DEF vars, TypeOK, Suspended, EntryShape, InMemory, Ownership, WorksOn,
           RoutesFollowHosts, Typing, HasTransport, HoldsLock, Op, Status
  <1>. QED
    BY <1>1, <1>2, <1>3, <1>4, <1>5, <1>6, <1>7, <1>8, <1>9, <1>10, <1>11, <1>12,
       <1>13, <1>14, <1>15, <1>16, <1>17, <1>18, <1>19, <1>20, <1>21, <1>22,
       <1>23, <1>24, <1>25, <1>26, <1>27, <1>28, <1>29, <1>30, <1>31, <1>32,
       <1>33, <1>34, <1>35, <1>36
       DEF Next, Advance, Client

-----------------------------------------------------------------------------
(* The theorems.                                                           *)

(* What holds of the session map, the transports and their mutexes in      *)
(* every execution, whatever the database does.                            *)
Base ==
  /\ TypeOK
  /\ Suspended
  /\ EntryShape
  /\ LockDiscipline
  /\ Ownership
  /\ Issued
  /\ UpWhilePublishing

(* The empty server satisfies the invariants.                              *)
LEMMA InitBase == Init => Base
  <1>1. SUFFICES ASSUME Init PROVE Base
    OBVIOUS
  <1>2. TypeOK
    BY <1>1, PersistedAssumption DEF Init, TypeOK, Pc, NoRows, Status
  <1>3. Suspended /\ LockDiscipline /\ UpWhilePublishing
    BY <1>1
       DEF Init, Suspended, LockDiscipline, UpWhilePublishing, HasTransport, HoldsLock,
           Op
  <1>4. EntryShape /\ Ownership
    BY <1>1 DEF Init, EntryShape, Ownership, InMemory, WorksOn, HasTransport, HoldsLock, Op
  <1>5. Issued
    BY <1>1 DEF Init, Issued, NoRows
  <1>6. QED
    BY <1>2, <1>3, <1>4, <1>5 DEF Base

(* Base is inductive.                                                      *)
LEMMA BaseStep == Base /\ [Next]_vars => Base'
  BY TypeStep, SuspendedStep, EntryShapeStep, LockStep, OwnershipStep, IssuedStep,
     UpStep
     DEF Base

(* Base holds in every reachable state.                                    *)
LEMMA BaseHolds == Spec => []Base
  BY InitBase, BaseStep, PTL DEF Spec

(* Type correctness, of every instance.                                    *)
THEOREM TypeCorrect == Spec => []TypeOK
  <1>1. Base => TypeOK
    BY DEF Base
  <1>2. QED
    BY <1>1, BaseHolds, PTL

(* Requests on a transport exclude each other and never lose its mutex:    *)
(* connect, disconnect, delete, refresh, input and the cleanup of a socket *)
(* all release it however they end, errors of the database included.       *)
THEOREM MutexDiscipline == Spec => []LockDiscipline
  <1>1. Base => LockDiscipline
    BY DEF Base
  <1>2. QED
    BY <1>1, BaseHolds, PTL

(* As long as the database does its statements, a row that says connected  *)
(* has a transport whose connection the server has not closed (it may have *)
(* been lost without a word), or whose connection a request has closed     *)
(* that is about to open another or to change the row: for any number of   *)
(* connections, requests in any order, deletes of sessions in use and      *)
(* restarts.                                                               *)
THEOREM ConnectedRows ==
  ASSUME ~DbMayFail
  PROVE  Spec => []ConnectedRowIsBacked
  <1> DEFINE Rows == Base /\ Retained /\ ConnectedRowIsBacked
  <1>1. Init => Rows
    <2>1. Init => Retained /\ ConnectedRowIsBacked
      BY DEF Init, Retained, ConnectedRowIsBacked
    <2>2. QED
      BY <2>1, InitBase
  <1>2. Rows /\ [Next]_vars => Rows'
    <2>1. SUFFICES ASSUME Base, Retained, ConnectedRowIsBacked, [Next]_vars
                   PROVE  Base' /\ Retained' /\ ConnectedRowIsBacked'
      OBVIOUS
    <2>2. Base'
      BY <2>1, BaseStep
    <2>3. Retained'
      BY <2>1, RetainedStep DEF Base
    <2>4. ConnectedRowIsBacked'
      BY <2>1, BackedStep DEF Base
    <2>5. QED
      BY <2>2, <2>3, <2>4
  <1>3. Rows => ConnectedRowIsBacked
    OBVIOUS
  <1>4. QED
    BY <1>1, <1>2, <1>3, PTL DEF Spec

(* What is typed into a pane of a session reaches a transport of a host    *)
(* that has a pane of that id, although the handler routes by the id alone, *)
(* every tmux server numbers its panes from %0, and the routes change      *)
(* while the request waits.                                                *)
THEOREM InputRouting == Spec => []InputStaysOnSharedPanes
  <1> DEFINE Routes == Base /\ RoutesFollowHosts
  <1>1. Init => Routes
    <2>1. Init => RoutesFollowHosts
      BY DEF Init, RoutesFollowHosts, Typing
    <2>2. QED
      BY <2>1, InitBase
  <1>2. Routes /\ [Next]_vars => Routes'
    <2>1. SUFFICES ASSUME Base, RoutesFollowHosts, [Next]_vars
                   PROVE  Base' /\ RoutesFollowHosts'
      OBVIOUS
    <2>2. Base'
      BY <2>1, BaseStep
    <2>3. RoutesFollowHosts'
      BY <2>1, RoutesStep DEF Base
    <2>4. QED
      BY <2>2, <2>3
  <1>3. Routes => InputStaysOnSharedPanes
    BY
       DEF Base, RoutesFollowHosts, Typing, InputStaysOnSharedPanes, Suspended, HasTransport,
           HoldsLock, Op
  <1>4. QED
    BY <1>1, <1>2, <1>3, PTL DEF Spec

=============================================================================
