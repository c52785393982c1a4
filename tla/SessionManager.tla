--------------------------- MODULE SessionManager ---------------------------
(***************************************************************************)
(* The server's session manager (server/src/session/manager.rs) as the     *)
(* WebSocket handler drives it (server/src/ws/handler.rs).                 *)
(*                                                                         *)
(* One user has several connections, over WebSocket or WebTransport.       *)
(* Every connection handles one client message at a time, with the same    *)
(* handlers (handle_socket, handle_webtransport_session); the              *)
(* connections share the in-memory session map, the pane routing table,    *)
(* the sessions table of the database and the transport objects, each      *)
(* behind its own tokio Mutex.  A request is cut into steps at its awaits: *)
(* what the code does between two awaits is one step here, except in       *)
(* load_user_sessions, whose contains_key and insert are two operations on *)
(* a concurrent map and are two steps.                                     *)
(*                                                                         *)
(* Not modelled here: the name of a session, which update changes, what    *)
(* flows through a transport (module ControlReader), and other users.      *)
(***************************************************************************)
EXTENDS FiniteSets

CONSTANTS
  SessionId,    (* the uuids the server may issue                          *)
  Pane,         (* tmux pane ids, as tmux prints them: %0, %1, ...         *)
  Conn,         (* connections of the user, over WebSocket ...             *)
  WebTransport, (* ... or over WebTransport                                *)
  TransportId,  (* the transport objects the server may allocate           *)
  HostPanes,    (* the panes tmux lists for each session                   *)
  Backend,      (* the backend of each session: local, ssh or agent        *)
  Persisted,    (* sessions in the database when the model starts          *)
  Requests,     (* the requests the clients of this instance make          *)
  DbMayFail,    (* whether a database statement may return an error        *)
  NoSession, NoTransport, NoConn, NoPane

ASSUME HostPanesAssumption == HostPanes \in [SessionId -> SUBSET Pane]
ASSUME BackendAssumption == Backend \in [SessionId -> {"local", "ssh", "agent"}]
ASSUME EndpointAssumption == WebTransport \subseteq Conn
ASSUME PersistedAssumption == Persisted \subseteq SessionId
ASSUME DbAssumption == DbMayFail \in BOOLEAN
ASSUME NullAssumption == /\ NoSession \notin SessionId
                         /\ NoTransport \notin TransportId
                         /\ NoConn \notin Conn

VARIABLES
  rows,             (* sessions table: the status column, or "none"        *)
  issued,           (* uuids handed out so far (Uuid::new_v4 never repeats) *)
  status,           (* in-memory map: status of the session, "none" if it  *)
                    (* is not in the map                                   *)
  transport,        (* in-memory map: the session's transport object       *)
  tmux_sessions,    (* in-memory map: the panes the session lists          *)
  pane_to_session,  (* pane id -> session id, for routing input            *)
  owner,            (* the session a transport object was built for        *)
  link,             (* "up": the transport has a connection and its reader *)
                    (* runs; "lost": it has one that ended by itself       *)
  holder,           (* who holds the mutex of a transport                  *)
  pc,               (* where the task of a connection is suspended         *)
  op,               (* the request that waits for a mutex                  *)
  typed,            (* the pane that a keystroke is for                    *)
  sid,              (* the session the request is about                    *)
  tr,               (* the transport the request cloned out of the map     *)
  fetched,          (* rows load_user_sessions fetched and has yet to visit *)
  found,            (* sessions the cleanup of a closed socket disconnects *)
  closing,          (* the socket is closed and its cleanup runs           *)
  replaced,         (* history: sessions whose entry an insert overwrote   *)
  overtaken,        (* history: sessions deleted while a connect waited    *)
  leaked            (* sessions with an SSH connection and a reader task   *)
                    (* that no transport object holds any more             *)

sessions == <<status, transport, tmux_sessions>>
shared == <<rows, issued, sessions, pane_to_session>>
objects == <<owner, link, holder>>
tasks == <<pc, op, typed, sid, tr, fetched, found, closing>>
history == <<replaced, overtaken, leaked>>
vars == <<rows, issued, status, transport, tmux_sessions, pane_to_session, owner, link, holder,
          pc, op, typed, sid, tr, fetched, found, closing, replaced, overtaken, leaked>>

-----------------------------------------------------------------------------
Status == {"created", "connecting", "connected", "disconnected", "error"}

Op == {"connect", "disconnect", "delete", "refresh", "input"}

(* Between the acquisition of a mutex and the return of the handler.       *)
HoldsLock == Op \cup {"attached", "list", "connected_db", "error_db", "disconnect_map", "disconnected_db",
                    "delete_db"}

Pc == HoldsLock \cup {"closed", "idle", "load", "load_row", "load_put", "create_put",
                      "connect_db", "lock", "cleanup"}

TypeOK ==
  /\ rows \in [SessionId -> Status \cup {"none"}]
  /\ issued \in SUBSET SessionId
  /\ status \in [SessionId -> Status \cup {"none"}]
  /\ transport \in [SessionId -> TransportId \cup {NoTransport}]
  /\ tmux_sessions \in [SessionId -> SUBSET Pane]
  /\ pane_to_session \in [Pane -> SessionId \cup {NoSession}]
  /\ owner \in [TransportId -> SessionId \cup {NoSession}]
  /\ link \in [TransportId -> {"none", "up", "lost"}]
  /\ holder \in [TransportId -> Conn \cup {NoConn}]
  /\ pc \in [Conn -> Pc]
  /\ op \in [Conn -> Op \cup {"none"}]
  /\ typed \in [Conn -> Pane \cup {NoPane}]
  /\ sid \in [Conn -> SessionId \cup {NoSession}]
  /\ tr \in [Conn -> TransportId \cup {NoTransport}]
  /\ fetched \in [Conn -> [SessionId -> Status \cup {"none"}]]
  /\ found \in [Conn -> SUBSET SessionId]
  /\ closing \in [Conn -> BOOLEAN]
  /\ replaced \in SUBSET SessionId
  /\ overtaken \in SUBSET SessionId
  /\ leaked \in SUBSET SessionId

NoRows == [s \in SessionId |-> "none"]

Init ==
  /\ rows = [s \in SessionId |-> IF s \in Persisted THEN "disconnected" ELSE "none"]
  /\ issued = Persisted
  /\ status = [s \in SessionId |-> "none"]
  /\ transport = [s \in SessionId |-> NoTransport]
  /\ tmux_sessions = [s \in SessionId |-> {}]
  /\ pane_to_session = [p \in Pane |-> NoSession]
  /\ owner = [t \in TransportId |-> NoSession]
  /\ link = [t \in TransportId |-> "none"]
  /\ holder = [t \in TransportId |-> NoConn]
  /\ pc = [c \in Conn |-> "closed"]
  /\ op = [c \in Conn |-> "none"]
  /\ typed = [c \in Conn |-> NoPane]
  /\ sid = [c \in Conn |-> NoSession]
  /\ tr = [c \in Conn |-> NoTransport]
  /\ fetched = [c \in Conn |-> NoRows]
  /\ found = [c \in Conn |-> {}]
  /\ closing = [c \in Conn |-> FALSE]
  /\ replaced = {}
  /\ overtaken = {}
  /\ leaked = {}

-----------------------------------------------------------------------------
(* Helpers.                                                                *)

InMemory(s) == status[s] # "none"

(* get_mut(id) and, if the session is still in the map, set the fields.    *)
SetStatus(s, st) ==
  status' = IF InMemory(s) THEN [status EXCEPT ![s] = st] ELSE status

SetPanes(s, panes) ==
  tmux_sessions' = IF InMemory(s) THEN [tmux_sessions EXCEPT ![s] = panes] ELSE tmux_sessions

(* Mutant of UpdateRow: INSERT OR REPLACE.                                 *)
UpsertRow(s, st) == rows' = [rows EXCEPT ![s] = st]

(* update_session_status: an UPDATE, so it inserts nothing.  Its callers   *)
(* drop the error (.ok()).                                                 *)
UpdateRow(s, st) ==
  \/ rows' = IF rows[s] = "none" THEN rows ELSE [rows EXCEPT ![s] = st]
  \/ DbMayFail /\ UNCHANGED rows

(* pane_to_session.retain(|_, sid| sid != id)                              *)
Unroute(s) ==
  pane_to_session' =
    [p \in Pane |-> IF pane_to_session[p] = s THEN NoSession ELSE pane_to_session[p]]

(* pane_to_session.insert(pane, id) for every listed pane                  *)
Route(s, panes) ==
  pane_to_session' = [p \in Pane |-> IF p \in panes THEN s ELSE pane_to_session[p]]

(* sessions.insert(id, SessionEntry { meta, transport: new }): whatever    *)
(* entry was there is dropped.                                             *)
InsertEntry(s, st) ==
  \E t \in TransportId :
    /\ owner[t] = NoSession
    /\ t = CHOOSE u \in TransportId : owner[u] = NoSession  (* any will do *)
    /\ owner' = [owner EXCEPT ![t] = s]
    /\ status' = [status EXCEPT ![s] = st]
    /\ transport' = [transport EXCEPT ![s] = t]
    /\ tmux_sessions' = [tmux_sessions EXCEPT ![s] = {}]
    /\ replaced' = IF InMemory(s) THEN replaced \cup {s} ELSE replaced
    /\ UNCHANGED <<link, holder, overtaken, leaked>>

Goto(c, l) == pc' = [pc EXCEPT ![c] = l]

(* The handler returns; the cleanup loop goes on with its next session.    *)
Return(c) ==
  /\ Goto(c, IF closing[c] THEN "cleanup" ELSE "idle")
  /\ sid' = [sid EXCEPT ![c] = NoSession]
  /\ tr' = [tr EXCEPT ![c] = NoTransport]
  /\ op' = [op EXCEPT ![c] = "none"]
  /\ typed' = [typed EXCEPT ![c] = NoPane]
  /\ UNCHANGED <<fetched, found, closing>>

(* The guard of the transport's mutex is dropped when the handler returns. *)
ReturnUnlocking(c) ==
  /\ holder' = [holder EXCEPT ![tr[c]] = NoConn]
  /\ Return(c)

(* Mutant of AwaitLock: what is to be done with the mutex is not kept.     *)
AwaitLockOnly(c, o, s, t) ==
  /\ Goto(c, "lock")
  /\ op' = [op EXCEPT ![c] = "none"]
  /\ sid' = [sid EXCEPT ![c] = s]
  /\ tr' = [tr EXCEPT ![c] = t]

(* The request clones the Arc of the transport and waits for its mutex.    *)
AwaitLock(c, o, s, t) ==
  /\ Goto(c, "lock")
  /\ op' = [op EXCEPT ![c] = o]
  /\ sid' = [sid EXCEPT ![c] = s]
  /\ tr' = [tr EXCEPT ![c] = t]

Lock(c) ==
  /\ pc[c] = "lock"
  /\ holder[tr[c]] = NoConn
  /\ holder' = [holder EXCEPT ![tr[c]] = c]
  /\ Goto(c, op[c])
  /\ UNCHANGED <<shared, owner, link, op, typed, sid, tr, fetched, found, closing, history>>

(* Some entry or suspended request still has the Arc of the transport.     *)
Referenced(t) ==
  \/ \E s \in SessionId : transport[s] = t
  \/ \E c \in Conn : tr[c] = t

(* The last Arc is gone.  Dropping a transport is not disconnecting it: no *)
(* Drop is implemented.  The QUIC connection of an agent closes with its   *)
(* last handle; the reader task of an SSH transport is detached, owns the  *)
(* control channel and keeps the connection.                               *)
DropTransport(t) ==
  /\ owner[t] # NoSession
  /\ ~Referenced(t)
  /\ owner' = [owner EXCEPT ![t] = NoSession]
  /\ link' = [link EXCEPT ![t] = "none"]
  /\ leaked' = IF link[t] = "up" /\ Backend[owner[t]] = "ssh" THEN leaked \cup {owner[t]} ELSE leaked
  /\ UNCHANGED <<shared, holder, tasks, replaced, overtaken>>

(* The connection closes, or tmux or its control client exits: the reader  *)
(* task ends and tells nobody, and the transport keeps its handle.         *)
LinkEnds(t) ==
  /\ link[t] = "up"
  /\ link' = [link EXCEPT ![t] = "lost"]
  /\ UNCHANGED <<shared, owner, holder, tasks, history>>

-----------------------------------------------------------------------------
(* load_user_sessions: run when a socket opens, on sess_list and when a    *)
(* socket has closed.                                                      *)

Open(c) ==
  /\ pc[c] = "closed"
  /\ Goto(c, "load")
  /\ UNCHANGED <<shared, objects, op, typed, sid, tr, fetched, found, closing, history>>

ListSessions(c) ==
  /\ "list" \in Requests
  /\ pc[c] = "idle"
  /\ Goto(c, "load")
  /\ UNCHANGED <<shared, objects, op, typed, sid, tr, fetched, found, closing, history>>

LoadFetch(c) ==
  /\ pc[c] = "load"
  /\ \/ /\ fetched' = [fetched EXCEPT ![c] = rows]
        /\ Goto(c, "load_row")
     \/ /\ DbMayFail
        /\ Goto(c, IF closing[c] THEN "cleanup" ELSE "idle")
        /\ UNCHANGED fetched
  /\ UNCHANGED <<shared, objects, op, typed, sid, tr, found, closing, history>>

(* A session already in memory is only listed.                             *)
LoadListed(c, s) ==
  /\ pc[c] = "load_row"
  /\ fetched[c][s] # "none"
  /\ InMemory(s)
  /\ fetched' = [fetched EXCEPT ![c][s] = "none"]
  /\ found' = IF closing[c] /\ status[s] = "connected"
              THEN [found EXCEPT ![c] = found[c] \cup {s}] ELSE found
  /\ UNCHANGED <<shared, objects, pc, op, typed, sid, tr, closing, history>>

(* contains_key said that it is not; the insert comes later.               *)
LoadAbsent(c, s) ==
  /\ pc[c] = "load_row"
  /\ fetched[c][s] # "none"
  /\ ~InMemory(s)
  /\ Goto(c, "load_put")
  /\ sid' = [sid EXCEPT ![c] = s]
  /\ UNCHANGED <<shared, objects, op, typed, tr, fetched, found, closing, history>>

(* row_to_managed_session: a connected row is loaded as disconnected.      *)
StatusOfRow(st) == IF st = "connected" THEN "disconnected" ELSE st

LoadPut(c) ==
  /\ pc[c] = "load_put"
  /\ InsertEntry(sid[c], StatusOfRow(fetched[c][sid[c]]))
  /\ fetched' = [fetched EXCEPT ![c][sid[c]] = "none"]
  /\ Goto(c, "load_row")
  /\ sid' = [sid EXCEPT ![c] = NoSession]
  /\ UNCHANGED <<rows, issued, pane_to_session, op, typed, tr, found, closing>>

LoadDone(c) ==
  /\ pc[c] = "load_row"
  /\ fetched[c] = NoRows
  /\ Goto(c, IF closing[c] THEN "cleanup" ELSE "idle")
  /\ UNCHANGED <<shared, objects, op, typed, sid, tr, fetched, found, closing, history>>

-----------------------------------------------------------------------------
(* create                                                                  *)

Create(c, s) ==
  /\ "create" \in Requests
  /\ pc[c] = "idle"
  /\ s \notin issued
  /\ issued' = issued \cup {s}
  /\ rows' = [rows EXCEPT ![s] = "created"]
  /\ Goto(c, "create_put")
  /\ sid' = [sid EXCEPT ![c] = s]
  /\ UNCHANGED <<sessions, pane_to_session, objects, op, typed, tr, fetched, found, closing, history>>

CreatePut(c) ==
  /\ pc[c] = "create_put"
  /\ InsertEntry(sid[c], "created")
  /\ Return(c)
  /\ UNCHANGED <<rows, issued, pane_to_session>>

-----------------------------------------------------------------------------
(* connect                                                                 *)

Connect(c, s) ==
  /\ "connect" \in Requests
  /\ pc[c] = "idle"
  /\ InMemory(s)
  /\ SetStatus(s, "connecting")
  /\ Goto(c, "connect_db")
  /\ sid' = [sid EXCEPT ![c] = s]
  /\ tr' = [tr EXCEPT ![c] = transport[s]]
  /\ UNCHANGED <<rows, issued, transport, tmux_sessions, pane_to_session, objects, op, typed, fetched, found,
                 closing, history>>

ConnectDb(c) ==
  /\ pc[c] = "connect_db"
  /\ UpdateRow(sid[c], "connecting")
  /\ AwaitLock(c, "connect", sid[c], tr[c])
  /\ UNCHANGED <<issued, sessions, pane_to_session, objects, typed, fetched, found, closing, history>>

(* transport.connect() of an SSH session has its new connection and its    *)
(* control client: the reader is aborted and the old connection closed.    *)
ConnectClose(c) ==
  /\ pc[c] = "connect"
  /\ Backend[sid[c]] = "ssh"
  /\ link' = [link EXCEPT ![tr[c]] = "none"]
  /\ Goto(c, "attached")
  /\ UNCHANGED <<shared, owner, holder, op, typed, sid, tr, fetched, found, closing, history>>

(* connect() has stored its connection.                                    *)
Connected(c) ==
  /\ \/ pc[c] = "attached"
     \/ pc[c] = "connect" /\ Backend[sid[c]] # "ssh"
  /\ link' = [link EXCEPT ![tr[c]] = "up"]
  /\ Goto(c, "list")

(* Mutant of ConnectOk: the guard is dropped before the result is stored.  *)
ConnectOkUnlocked(c) ==
  /\ Connected(c)
  /\ holder' = [holder EXCEPT ![tr[c]] = NoConn]
  /\ UNCHANGED <<shared, owner, op, typed, sid, tr, fetched, found, closing, history>>

ConnectOk(c) ==
  /\ Connected(c)
  /\ UNCHANGED <<shared, owner, holder, op, typed, sid, tr, fetched, found, closing, history>>

(* transport.connect() fails: a connection it had before stays.  The agent *)
(* transport may fail after it has stored its new connection.              *)
TransportError(c) ==
  \/ UNCHANGED link
  \/ Backend[sid[c]] = "agent" /\ link' = [link EXCEPT ![tr[c]] = "up"]

ConnectFail(c) ==
  /\ pc[c] = "connect"
  /\ TransportError(c)
  /\ SetStatus(sid[c], "error")
  /\ Goto(c, "error_db")
  /\ UNCHANGED <<rows, issued, transport, tmux_sessions, pane_to_session, owner, holder, op, typed, sid, tr,
                 fetched, found, closing, history>>

(* list_tmux_sessions().unwrap_or_default(): no panes when it fails.       *)
ConnectPublish(c) ==
  /\ pc[c] = "list"
  /\ \E panes \in {HostPanes[sid[c]], {}} :
       /\ Route(sid[c], panes)
       /\ SetStatus(sid[c], "connected")
       /\ SetPanes(sid[c], panes)
  /\ Goto(c, "connected_db")
  /\ UNCHANGED <<rows, issued, transport, objects, op, typed, sid, tr, fetched, found, closing, history>>

ConnectedDb(c) ==
  /\ pc[c] = "connected_db"
  /\ UpdateRow(sid[c], "connected")
  /\ ReturnUnlocking(c)
  /\ UNCHANGED <<issued, sessions, pane_to_session, owner, link, history>>

(* Mutant of ErrorDb: the error path returns with the mutex held.          *)
ErrorDbLocked(c) ==
  /\ pc[c] = "error_db"
  /\ UpdateRow(sid[c], "error")
  /\ Return(c)
  /\ UNCHANGED <<issued, sessions, pane_to_session, objects, history>>

ErrorDb(c) ==
  /\ pc[c] = "error_db"
  /\ UpdateRow(sid[c], "error")
  /\ ReturnUnlocking(c)
  /\ UNCHANGED <<issued, sessions, pane_to_session, owner, link, history>>

-----------------------------------------------------------------------------
(* disconnect                                                              *)

(* The routes go first, and go even if the session is not in memory.       *)
BeginDisconnect(c, s) ==
  /\ Unroute(s)
  /\ \/ InMemory(s) /\ AwaitLock(c, "disconnect", s, transport[s])
     \/ ~InMemory(s) /\ UNCHANGED <<pc, op, sid, tr>>
  /\ UNCHANGED <<rows, issued, sessions, objects, typed, fetched, closing, history>>

Disconnect(c, s) ==
  /\ "disconnect" \in Requests
  /\ pc[c] = "idle"
  /\ BeginDisconnect(c, s)
  /\ UNCHANGED found

(* transport.disconnect(), an await under the mutex.                       *)
DisconnectTransport(c) ==
  /\ pc[c] = "disconnect"
  /\ link' = [link EXCEPT ![tr[c]] = "none"]
  /\ Goto(c, "disconnect_map")
  /\ UNCHANGED <<shared, owner, holder, op, typed, sid, tr, fetched, found, closing, history>>

(* Mutant of DisconnectMap: the row is written without the mutex.          *)
DisconnectMapUnlocked(c) ==
  /\ pc[c] = "disconnect_map"
  /\ SetStatus(sid[c], "disconnected")
  /\ SetPanes(sid[c], {})
  /\ holder' = [holder EXCEPT ![tr[c]] = NoConn]
  /\ Goto(c, "disconnected_db")
  /\ UNCHANGED <<rows, issued, transport, pane_to_session, owner, link, op, typed, sid, tr, fetched,
                 found, closing, history>>

DisconnectMap(c) ==
  /\ pc[c] = "disconnect_map"
  /\ SetStatus(sid[c], "disconnected")
  /\ SetPanes(sid[c], {})
  /\ Goto(c, "disconnected_db")
  /\ UNCHANGED <<rows, issued, transport, pane_to_session, objects, op, typed, sid, tr, fetched,
                 found, closing, history>>

DisconnectedDb(c) ==
  /\ pc[c] = "disconnected_db"
  /\ UpdateRow(sid[c], "disconnected")
  /\ ReturnUnlocking(c)
  /\ UNCHANGED <<issued, sessions, pane_to_session, owner, link, history>>

-----------------------------------------------------------------------------
(* delete                                                                  *)

(* A connect that has not got the mutex yet.                               *)
WaitsToConnect(c, t) ==
  /\ tr[c] = t
  /\ \/ pc[c] = "connect_db"
     \/ pc[c] = "lock" /\ op[c] = "connect"

Delete(c, s) ==
  /\ "delete" \in Requests
  /\ pc[c] = "idle"
  /\ Unroute(s)
  /\ status' = [status EXCEPT ![s] = "none"]
  /\ transport' = [transport EXCEPT ![s] = NoTransport]
  /\ tmux_sessions' = [tmux_sessions EXCEPT ![s] = {}]
  /\ overtaken' = IF InMemory(s) /\ \E d \in Conn : WaitsToConnect(d, transport[s])
                  THEN overtaken \cup {s} ELSE overtaken
  /\ \/ InMemory(s) /\ AwaitLock(c, "delete", s, transport[s])
     \/ ~InMemory(s) /\ UNCHANGED <<pc, op, sid, tr>>
  /\ UNCHANGED <<rows, issued, objects, typed, fetched, found, closing, replaced, leaked>>

(* Mutant of DeleteTransport: dropping the transport is taken for enough.  *)
DeleteWithoutDisconnect(c) ==
  /\ pc[c] = "delete"
  /\ Goto(c, "delete_db")
  /\ UNCHANGED <<shared, objects, op, typed, sid, tr, fetched, found, closing, history>>

DeleteTransport(c) ==
  /\ pc[c] = "delete"
  /\ link' = [link EXCEPT ![tr[c]] = "none"]
  /\ Goto(c, "delete_db")
  /\ UNCHANGED <<shared, owner, holder, op, typed, sid, tr, fetched, found, closing, history>>

(* Mutant of DeleteDb: the mutex outlives the request.                     *)
DeleteDbLocked(c) ==
  /\ pc[c] = "delete_db"
  /\ rows' = [rows EXCEPT ![sid[c]] = "none"]
  /\ Return(c)
  /\ UNCHANGED <<issued, sessions, pane_to_session, objects, history>>

DeleteDb(c) ==
  /\ pc[c] = "delete_db"
  /\ \/ rows' = [rows EXCEPT ![sid[c]] = "none"]
     \/ DbMayFail /\ UNCHANGED rows
  /\ ReturnUnlocking(c)
  /\ UNCHANGED <<issued, sessions, pane_to_session, owner, link, history>>

-----------------------------------------------------------------------------
(* refresh_tmux_state; send_input_to_pane and resize_pane                  *)

Refresh(c, s) ==
  /\ "refresh" \in Requests
  /\ pc[c] = "idle"
  /\ InMemory(s)
  /\ AwaitLock(c, "refresh", s, transport[s])
  /\ UNCHANGED <<shared, objects, typed, fetched, found, closing, history>>

(* Mutant of RefreshTransport: the panes are listed, not routed.           *)
RefreshUnrouted(c) ==
  /\ pc[c] = "refresh"
  /\ link[tr[c]] # "none" \/ Backend[sid[c]] = "local"
  /\ SetPanes(sid[c], HostPanes[sid[c]])
  /\ ReturnUnlocking(c)
  /\ UNCHANGED <<rows, issued, status, transport, pane_to_session, owner, link, history>>

(* A closed SSH or agent transport cannot list, an open one may fail to; a *)
(* local one asks tmux whether it is connected or not.                     *)
RefreshTransport(c) ==
  /\ pc[c] = "refresh"
  /\ \/ UNCHANGED <<tmux_sessions, pane_to_session>>
     \/ /\ link[tr[c]] # "none" \/ Backend[sid[c]] = "local"
        /\ Route(sid[c], HostPanes[sid[c]])
        /\ SetPanes(sid[c], HostPanes[sid[c]])
  /\ ReturnUnlocking(c)
  /\ UNCHANGED <<rows, issued, status, transport, owner, link, history>>

(* Mutant of Input: the first connected session is taken for the pane's.   *)
InputToConnected(c, s, p) ==
  /\ "input" \in Requests
  /\ pc[c] = "idle"
  /\ InMemory(s) /\ p \in tmux_sessions[s]
  /\ \E x \in SessionId : status[x] = "connected" /\ AwaitLock(c, "input", s, transport[x])
  /\ typed' = [typed EXCEPT ![c] = p]
  /\ UNCHANGED <<shared, objects, fetched, found, closing, history>>

(* A message for pane p of session s: the handler drops its session_id and *)
(* find_session_for_pane routes by the pane alone.                         *)
Input(c, s, p) ==
  /\ "input" \in Requests
  /\ pc[c] = "idle"
  /\ InMemory(s) /\ p \in tmux_sessions[s]
  /\ pane_to_session[p] # NoSession
  /\ InMemory(pane_to_session[p])
  /\ AwaitLock(c, "input", s, transport[pane_to_session[p]])
  /\ typed' = [typed EXCEPT ![c] = p]
  /\ UNCHANGED <<shared, objects, fetched, found, closing, history>>

InputTransport(c) ==
  /\ pc[c] = "input"
  /\ ReturnUnlocking(c)
  /\ UNCHANGED <<shared, owner, link, history>>

-----------------------------------------------------------------------------
(* The client goes away: handle_socket leaves its loop and cleans up, ...  *)
LeaveWebSocket(c) ==
  /\ c \notin WebTransport
  /\ closing' = [closing EXCEPT ![c] = TRUE]
  /\ Goto(c, "load")

(* ... the loop of handle_incoming, which serves the same requests with    *)
(* the same handler, only returns.                                         *)
LeaveWebTransport(c) ==
  /\ c \in WebTransport
  /\ Goto(c, "closed")
  /\ UNCHANGED closing

Close(c) ==
  /\ pc[c] = "idle"
  /\ LeaveWebSocket(c) \/ LeaveWebTransport(c)
  /\ UNCHANGED <<shared, objects, op, typed, sid, tr, fetched, found, history>>

CleanupDisconnect(c, s) ==
  /\ pc[c] = "cleanup"
  /\ s \in found[c]
  /\ BeginDisconnect(c, s)
  /\ found' = [found EXCEPT ![c] = @ \ {s}]

CleanupDone(c) ==
  /\ pc[c] = "cleanup"
  /\ found[c] = {}
  /\ closing' = [closing EXCEPT ![c] = FALSE]
  /\ Goto(c, "closed")
  /\ UNCHANGED <<shared, objects, op, typed, sid, tr, fetched, found, history>>

(* The server process dies and db::init runs in the next one: everything   *)
(* in memory is lost, every socket closes.                                 *)
Restart ==
  /\ "restart" \in Requests
  /\ rows' = [s \in SessionId |-> IF rows[s] \in {"connected", "connecting"}
                                  THEN "disconnected" ELSE rows[s]]
  /\ status' = [s \in SessionId |-> "none"]
  /\ transport' = [s \in SessionId |-> NoTransport]
  /\ tmux_sessions' = [s \in SessionId |-> {}]
  /\ pane_to_session' = [p \in Pane |-> NoSession]
  /\ owner' = [t \in TransportId |-> NoSession]
  /\ link' = [t \in TransportId |-> "none"]
  /\ holder' = [t \in TransportId |-> NoConn]
  /\ pc' = [c \in Conn |-> "closed"]
  /\ op' = [c \in Conn |-> "none"]
  /\ typed' = [c \in Conn |-> NoPane]
  /\ sid' = [c \in Conn |-> NoSession]
  /\ tr' = [c \in Conn |-> NoTransport]
  /\ fetched' = [c \in Conn |-> NoRows]
  /\ found' = [c \in Conn |-> {}]
  /\ closing' = [c \in Conn |-> FALSE]
  /\ replaced' = {}
  /\ overtaken' = {}
  /\ leaked' = {}
  /\ UNCHANGED issued

-----------------------------------------------------------------------------
(* The steps a suspended request takes by itself.                          *)
Advance(c) ==
  \/ LoadFetch(c) \/ (\E s \in SessionId : LoadListed(c, s) \/ LoadAbsent(c, s)) \/ LoadPut(c) \/ LoadDone(c)
  \/ CreatePut(c)
  \/ ConnectDb(c) \/ Lock(c) \/ ConnectClose(c) \/ ConnectOk(c) \/ ConnectFail(c) \/ ConnectPublish(c)
  \/ ConnectedDb(c) \/ ErrorDb(c)
  \/ DisconnectTransport(c) \/ DisconnectMap(c) \/ DisconnectedDb(c)
  \/ DeleteTransport(c) \/ DeleteDb(c)
  \/ RefreshTransport(c) \/ InputTransport(c)
  \/ (\E s \in SessionId : CleanupDisconnect(c, s)) \/ CleanupDone(c)

Client(c) ==
  \/ Open(c) \/ Close(c) \/ ListSessions(c)
  \/ \E s \in SessionId :
       \/ Create(c, s) \/ Connect(c, s) \/ Disconnect(c, s) \/ Delete(c, s) \/ Refresh(c, s)
       \/ \E p \in Pane : Input(c, s, p)

Next ==
  \/ \E c \in Conn : Advance(c) \/ Client(c)
  \/ \E t \in TransportId : DropTransport(t) \/ LinkEnds(t)
  \/ Restart

Spec == Init /\ [][Next]_vars

(* The runtime polls every suspended task; tokio's Mutex is fair (FIFO);   *)
(* the database, the network and tmux answer, with a result or an error.   *)
FairSpec ==
  /\ Spec
  /\ \A c \in Conn : WF_vars(Advance(c)) /\ SF_vars(Lock(c))
  /\ \A t \in TransportId : WF_vars(DropTransport(t))

-----------------------------------------------------------------------------
(* Safety.                                                                 *)

(* No request is under way for s: each is suspended before its first step  *)
(* or has returned.                                                        *)
Quiescent(s) == \A c \in Conn : sid[c] # s

(* The mutex of a transport excludes and is never lost: a request that     *)
(* runs on a transport holds its mutex, and a mutex that is held is held   *)
(* by a request that runs, whichever way the requests before it returned.  *)
LockDiscipline ==
  /\ \A c \in Conn : pc[c] \in HoldsLock => tr[c] # NoTransport /\ holder[tr[c]] = c
  /\ \A t \in TransportId :
       holder[t] # NoConn => pc[holder[t]] \in HoldsLock /\ tr[holder[t]] = t

(* A request has closed the connection of a transport under its mutex, and *)
(* is about to have another or to say so.                                  *)
Reconnects == {"attached"}
Closes == {"disconnect_map", "disconnected_db", "delete_db"}

(* A transport of s has a connection that the server has not closed, or    *)
(* the request that closed it is about to say so in the database.          *)
Backed(s) ==
  \E t \in TransportId :
    /\ owner[t] = s
    /\ link[t] # "none" \/ \E c \in Conn : tr[c] = t /\ pc[c] \in Reconnects \cup Closes

(* The server never closes or forgets a connection and leaves its row at   *)
(* connected: whatever the interleaving of connects, disconnects, deletes, *)
(* loads and restarts, a row says so only while a transport of the session *)
(* has the connection, which may have ended by itself (nothing reports     *)
(* that), or while the request that closed it works on.  (Not so for a     *)
(* session whose entry a racing insert overwrote, see NoConnectionLeaks.)  *)
ConnectedRowIsBacked ==
  \A s \in SessionId \ replaced : rows[s] = "connected" => Backed(s)

(* A request that takes s out of the map, until its row is deleted too.    *)
Deletes(c, s) ==
  /\ sid[c] = s
  /\ \/ pc[c] \in {"delete", "delete_db"}
     \/ pc[c] = "lock" /\ op[c] = "delete"

(* s has a row that nobody is about to delete, and one transport.          *)
Settled(s) ==
  /\ s \notin replaced
  /\ rows[s] # "none"
  /\ \A c \in Conn : ~Deletes(c, s)

(* The same of the in-memory state: what sess_list shows as connected has  *)
(* a connection, which may have ended by itself, unless the request that   *)
(* closed it still has the mutex (manager.rs:204-219, 246-252).  (A load   *)
(* that comes between a delete's remove and its statement revives the      *)
(* entry without its transport, so not so while s is being deleted or      *)
(* after.)                                                                 *)
ConnectedEntryIsHeld ==
  \A s \in SessionId : Settled(s) /\ status[s] = "connected" =>
    \/ link[transport[s]] # "none"
    \/ \E c \in Conn : tr[c] = transport[s] /\ pc[c] \in {"attached", "disconnect_map"}

(* Memory and database agree on every session no request is working on:    *)
(* "connecting" is written before the mutex is taken and the outcome under *)
(* it, by tasks that race.                                                 *)
StatusAgreement ==
  \A s \in SessionId : Settled(s) /\ InMemory(s) /\ Quiescent(s) => status[s] = rows[s]

(* No other host uses the pane id.                                         *)
Unshared(s, p) == \A x \in SessionId \ {s} : p \notin HostPanes[x]

(* Every pane a connected session lists can be typed into, although        *)
(* disconnect and delete drop routes before they wait for the mutex and    *)
(* connect and refresh add them while they hold it.  A pane id that        *)
(* another host uses too is routed to whoever listed it last.              *)
ListedPanesAreRouted ==
  \A s \in SessionId :
    status[s] = "connected" /\ Quiescent(s) =>
      \A p \in tmux_sessions[s] : Unshared(s, p) => pane_to_session[p] = s

(* Keystrokes stray only to a host that has a pane of the same id:         *)
(* find_session_for_pane routes them by the id alone, the route may be     *)
(* rewritten by any session that lists the pane, and the transport is      *)
(* cloned before the wait for its mutex (manager.rs:259-283).              *)
InputStaysOnSharedPanes ==
  \A c \in Conn : pc[c] = "input" =>
    owner[tr[c]] = sid[c] \/ typed[c] \in HostPanes[sid[c]] \cap HostPanes[owner[tr[c]]]

(* Whatever connection the server has opened, some request can still close *)
(* it.  There are two ways to lose one, and both take two tabs: a load     *)
(* inserts over the entry of another (manager.rs:65-70), or a delete takes *)
(* the entry away from a connect that waits for its mutex.                 *)
NoConnectionLeaks == leaked \subseteq replaced \cup overtaken

(* When the last socket of the user is cleaned up, no transport has an     *)
(* open connection: "this closes SSH channels, stops control mode readers".     *)
CleanupClosesTransports ==
  (\A c \in Conn : pc[c] = "closed") => \A t \in TransportId : link[t] # "up"

-----------------------------------------------------------------------------
(* The inductive invariant.                                                *)

(* Points at which a request has the Arc of a transport ...                *)
HasTransport == HoldsLock \cup {"connect_db", "lock"}

(* ... and works on the session that owns it (input goes by the pane).     *)
WorksOn(c) ==
  \/ pc[c] \in HasTransport \ {"input", "lock"}
  \/ pc[c] = "lock" /\ op[c] # "input"

(* A request has what its next step needs.                                 *)
Suspended ==
  \A c \in Conn :
    /\ (pc[c] \in HasTransport) = (tr[c] # NoTransport)
    /\ pc[c] \in HasTransport \cup {"load_put", "create_put"} => sid[c] \in SessionId
    /\ pc[c] = "lock" => op[c] \in Op
    /\ pc[c] = "load_put" => fetched[c][sid[c]] # "none"

(* The fields of the map's entries come and go together.                   *)
EntryShape == \A s \in SessionId : InMemory(s) = (transport[s] # NoTransport)

(* Entries and requests refer to allocated transports of their session.    *)
Ownership ==
  /\ \A s \in SessionId : InMemory(s) => owner[transport[s]] = s
  /\ \A c \in Conn : tr[c] # NoTransport => owner[tr[c]] # NoSession
  /\ \A c \in Conn : WorksOn(c) => owner[tr[c]] = sid[c]

(* Only uuids that were issued occur anywhere.                             *)
Issued ==
  /\ \A s \in SessionId : rows[s] # "none" => s \in issued
  /\ \A t \in TransportId : owner[t] # NoSession => owner[t] \in issued
  /\ \A c \in Conn :
       /\ pc[c] \in {"load_put", "create_put"} => sid[c] \in issued
       /\ \A s \in SessionId : fetched[c][s] # "none" => s \in issued

(* From the success of connect until its mutex is released the transport   *)
(* has its connection: nobody else can close it.                           *)
UpWhilePublishing ==
  \A c \in Conn : pc[c] \in {"list", "connected_db"} => link[tr[c]] # "none"

Deleting(c, t) ==
  /\ tr[c] = t
  /\ \/ pc[c] \in {"delete", "delete_db"}
     \/ pc[c] = "lock" /\ op[c] = "delete"

(* While a session has a row, each of its transports is in its entry or in *)
(* the hands of the delete that took it out.                               *)
Retained ==
  \A t \in TransportId :
    LET s == owner[t] IN
    s # NoSession /\ s \notin replaced /\ rows[s] # "none" =>
      transport[s] = t \/ \E c \in Conn : Deleting(c, t)

(* A keystroke is on its way.                                              *)
Typing(c) ==
  \/ pc[c] = "input"
  \/ pc[c] = "lock" /\ op[c] = "input"

(* Lists and routes only name panes of the session's host, and input that  *)
(* is on its way goes to the session it was typed into or to one that has  *)
(* a pane of the same id.                                                  *)
RoutesFollowHosts ==
  /\ \A s \in SessionId : tmux_sessions[s] \subseteq HostPanes[s]
  /\ \A p \in Pane : pane_to_session[p] # NoSession => p \in HostPanes[pane_to_session[p]]
  /\ \A c \in Conn : Typing(c) => typed[c] \in HostPanes[sid[c]] \cap HostPanes[owner[tr[c]]]

(* A request that has yet to write its outcome for s into the map ...      *)
WillSetStatus(c, s) ==
  /\ sid[c] = s
  /\ \/ pc[c] \in {"connect_db", "connect", "attached", "list", "disconnect", "disconnect_map"}
     \/ pc[c] = "lock" /\ op[c] \in {"connect", "disconnect"}

(* ... or has written outcome st and has yet to write the row.             *)
WillSetRow(c, s, st) ==
  /\ sid[c] = s
  /\ \/ pc[c] = "connected_db" /\ st = "connected"
     \/ pc[c] = "error_db" /\ st = "error"
     \/ pc[c] = "disconnected_db" /\ st = "disconnected"

(* The outcome in the map is the one that is written to the row last, and  *)
(* the status that a load fetched for an absent session is still the row's. *)
Agrees(s) ==
  /\ InMemory(s) /\ (\A c \in Conn : ~WillSetStatus(c, s)) =>
       \/ \E c \in Conn : WillSetRow(c, s, status[s])
       \/ /\ \A c \in Conn, st \in Status : ~WillSetRow(c, s, st)
          /\ status[s] = rows[s]
  /\ ~InMemory(s) =>
       /\ rows[s] # "connected"
       /\ \A c \in Conn :
            /\ fetched[c][s] # "none" => StatusOfRow(fetched[c][s]) = rows[s]
            /\ pc[c] = "create_put" /\ sid[c] = s => rows[s] = "created"

Agreement == \A s \in SessionId : Settled(s) => Agrees(s)

Disconnects(c, s) ==
  /\ sid[c] = s
  /\ \/ pc[c] \in {"disconnect", "disconnect_map"}
     \/ pc[c] = "lock" /\ op[c] = "disconnect"

(* A listed pane is routed, but for a disconnect that has removed the      *)
(* route and will remove the list when it has the mutex.                   *)
ListsFollowRoutes ==
  \A s \in SessionId :
    /\ ~InMemory(s) => tmux_sessions[s] = {}
    /\ \/ \E c \in Conn : Disconnects(c, s)
       \/ \A p \in tmux_sessions[s] : Unshared(s, p) => pane_to_session[p] = s

(* A connection is where a request can close it: in the entry of its       *)
(* session, or in the hands of a delete that has yet to close it.  So is   *)
(* one that is about to be opened, and no connect waits behind a delete.   *)
ClosedByDelete(c) ==
  \/ pc[c] = "delete"
  \/ pc[c] = "lock" /\ op[c] = "delete"

WillConnect(c, t) ==
  \/ WaitsToConnect(c, t)
  \/ tr[c] = t /\ pc[c] \in {"connect", "attached"}

Reachable(t) ==
  \/ transport[owner[t]] = t
  \/ \E c \in Conn : tr[c] = t /\ ClosedByDelete(c)

TransportsHeld ==
  /\ NoConnectionLeaks
  /\ \A c \in Conn : ClosedByDelete(c) \/ pc[c] = "delete_db" =>
       \A s \in SessionId : transport[s] # tr[c]
  /\ \A t \in TransportId : owner[t] # NoSession /\ owner[t] \notin replaced \cup overtaken =>
       /\ link[t] # "none" \/ (\E c \in Conn : WillConnect(c, t)) => Reachable(t)
       /\ \A c, d \in Conn : tr[c] = t /\ ClosedByDelete(c) => ~WaitsToConnect(d, t)

IInv ==
  /\ TypeOK
  /\ Suspended
  /\ EntryShape
  /\ LockDiscipline
  /\ Ownership
  /\ Issued
  /\ UpWhilePublishing
  /\ Retained
  /\ ConnectedRowIsBacked

-----------------------------------------------------------------------------
(* Liveness: every request returns, however the others hold the mutexes.   *)
RequestsFinish ==
  \A c \in Conn : pc[c] \notin {"idle", "closed"} ~> pc[c] \in {"idle", "closed"}

=============================================================================
