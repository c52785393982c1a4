------------------------- MODULE AgentDeployProofs -------------------------
(***************************************************************************)
(* What AgentDeploy promises, for any number of connections, hosts,        *)
(* deployments and processes of the server.                                *)
(***************************************************************************)
EXTENDS AgentDeploy, TLAPS

(* A task has a request, and the files it reads or writes.                 *)
Requests == [conn : Conn, session : Session]
TasksHaveRequests ==
  \A d \in Deploy :
    /\ at[d] \notin {"idle", "done"} => task[d] \in Requests
    /\ at[d] \in {"writing", "copying"} => src[d] \in File
    /\ at[d] = "copying" => dst[d] \in File

(* A task that asks whether the agent is active has rounds left.           *)
HasTries(s, n) ==
  /\ s = "check" => n < Attempts
  /\ s \notin {"check", "register", "tell_online", "tell_error"} => n = 0
TriesLeft == \A d \in Deploy : HasTries(at[d], tries[d])

TInv == TypeOK /\ TasksHaveRequests /\ TriesLeft

LEMMA Bounds == /\ QueueCap \in Nat /\ QueueCap > 0 /\ Attempts \in Nat /\ Attempts > 0
                /\ MaxLives \in Nat /\ MaxLives > 0 /\ MaxDeploys \in Nat
BY BoundAssumption

(* What is taken out of a queue, and what is left.                         *)
LEMMA HeadTail ==
  ASSUME NEW S, NEW q \in Seq(S), q # <<>>
  PROVE  Head(q) \in S /\ Tail(q) \in Seq(S) /\ Len(Tail(q)) = Len(q) - 1 /\ Len(q) \in Nat
OBVIOUS

-----------------------------------------------------------------------------
(* Stages.                                                                 *)

(* What a task says, and where a stage leads.                              *)
LEMMA Stages ==
  /\ DOMAIN Message = {"tell_installing", "tell_starting", "tell_online", "tell_error"}
  /\ DOMAIN After = {"tell_installing", "tell_starting", "check", "register", "tell_online",
                     "tell_error"}
  /\ Message["tell_installing"] = "installing" /\ Message["tell_starting"] = "starting"
  /\ Message["tell_online"] = "online" /\ Message["tell_error"] = "error"
  /\ After["tell_installing"] = "ssh" /\ After["tell_starting"] = "check"
  /\ After["check"] = "register" /\ After["register"] = "tell_online"
  /\ After["tell_online"] = "done" /\ After["tell_error"] = "done"
BY DEF Message, After

LEMMA StageList ==
  Stage = {"idle", "ssh", "service", "done", "move", "writing", "key", "scp", "copying", "clean",
           "tell_installing", "tell_starting", "check", "register", "tell_online", "tell_error"}
BY Stages DEF Stage, InTmp

(* A task that tells something is one of four.                             *)
LEMMA Told ==
  ASSUME NEW s \in DOMAIN Message
  PROVE  /\ Message[s] \in Status /\ Message[s] # "not_installed"
         /\ After[s] \in {"ssh", "check", "done"}
         /\ Message[s] = "online" => s = "tell_online"
         /\ After[s] = "check" => s = "tell_starting"
<1>1. s \in {"tell_installing", "tell_starting", "tell_online", "tell_error"}
  BY Stages
<1> QED
  BY <1>1, Stages DEF Status

LEMMA TaskTypes ==
  ASSUME HostAssumption, NEW d, task[d] \in Requests
  PROVE  task[d].conn \in Conn /\ task[d].session \in Session /\ host(d) \in Host
BY HostAssumption DEF Requests, host

LEMMA ForgetTypes ==
  ASSUME TypeOK, NEW D, Forget(D)
  PROVE  /\ task' \in [Deploy -> [conn : Conn, session : Session] \cup {None}]
         /\ tries' \in [Deploy -> 0 .. Attempts]
         /\ src' \in [Deploy -> File \cup {None}] /\ dst' \in [Deploy -> File \cup {None}]
         /\ failed' \subseteq Deploy /\ torn' \subseteq Deploy
         /\ \A d \in Deploy \ D : task'[d] = task[d] /\ src'[d] = src[d] /\ dst'[d] = dst[d]
BY Bounds DEF Forget, TypeOK

-----------------------------------------------------------------------------
(* Type correctness.                                                       *)

LEMMA InitTypes == Init => TInv
<1> SUFFICES ASSUME Init PROVE TInv
  OBVIOUS
<1>a. 0 \in 0 .. MaxLives /\ 1 \in 1 .. MaxLives /\ 0 \in 0 .. MaxDeploys
  BY Bounds
<1>1. /\ open \subseteq Conn /\ async_rx \in [Conn -> Seq([host : Host, status : Status])]
      /\ \A c \in Conn : Len(async_rx[c]) <= QueueCap
      /\ shown \in [Conn -> [Host -> Status \cup {None}]]
      /\ tokens \subseteq Host \X (1 .. MaxLives)
  BY Bounds DEF Init
<1>2. /\ at \in [Deploy -> Stage] /\ tries \in [Deploy -> 0 .. Attempts]
      /\ task \in [Deploy -> [conn : Conn, session : Session] \cup {None}]
      /\ src \in [Deploy -> File \cup {None}] /\ dst \in [Deploy -> File \cup {None}]
      /\ failed \subseteq Deploy /\ torn \subseteq Deploy
  BY Bounds, StageList DEF Init
<1>3. /\ tmp \in File \cup {None} /\ upload \in [Host -> File \cup {None}]
      /\ installed \in [Host -> [file : File, by : Deploy, executable : BOOLEAN] \cup {None}]
      /\ whole \subseteq File /\ writer \in [File -> 0 .. MaxDeploys] /\ key_file \in BOOLEAN
  BY <1>a DEF Init
<1>4. /\ unit \in [Host -> 0 .. MaxLives] /\ running \in [Host -> 0 .. MaxLives]
      /\ life \in 1 .. MaxLives /\ agents \subseteq Host /\ kept \subseteq Host
      /\ crossed \subseteq Deploy /\ left \subseteq {"binary", "key"}
  BY <1>a DEF Init
<1>5. \A d \in Deploy : at[d] = "idle"
  BY DEF Init
<1>6. \A d \in Deploy : tries[d] = 0
  BY DEF Init
<1> QED
  BY <1>1, <1>2, <1>3, <1>4, <1>5, <1>6 DEF TInv, TypeOK, TasksHaveRequests, TriesLeft, HasTries

(* A task moves on to another stage, with the files it needs there.        *)
LEMMA MovesOn ==
  ASSUME TInv, NEW d \in Deploy, NEW s \in Stage, At(d, s), at[d] \notin {"idle", "done"},
         task' = task, \A e \in Deploy \ {d} : src'[e] = src[e] /\ dst'[e] = dst[e],
         s \in {"writing", "copying"} => src'[d] \in File,
         s = "copying" => dst'[d] \in File
  PROVE  at' \in [Deploy -> Stage] /\ TasksHaveRequests'
<1>1. at' = [at EXCEPT ![d] = s] /\ at \in [Deploy -> Stage]
  BY DEF At, TInv, TypeOK
<1>2. at'[d] = s /\ \A e \in Deploy \ {d} : at'[e] = at[e]
  BY <1>1
<1>3. ASSUME NEW e \in Deploy
      PROVE  /\ at'[e] \notin {"idle", "done"} => task'[e] \in Requests
             /\ at'[e] \in {"writing", "copying"} => src'[e] \in File
             /\ at'[e] = "copying" => dst'[e] \in File
  <2>1. CASE e = d
    BY <2>1, <1>2 DEF TInv, TasksHaveRequests
  <2>2. CASE e # d
    BY <2>2, <1>2 DEF TInv, TasksHaveRequests
  <2> QED
    BY <2>1, <2>2
<1> QED
  BY <1>1, <1>3 DEF TasksHaveRequests

(* Truncating a file, and completing it.                                   *)
LEMMA FileTypes ==
  ASSUME TypeOK, NEW f \in File, NEW d \in Deploy, Truncate(f, d) \/ Complete(f, d)
  PROVE  whole' \subseteq File /\ writer' \in [File -> 0 .. MaxDeploys]
<1>1. d \in 0 .. MaxDeploys /\ 0 \in 0 .. MaxDeploys
  BY Bounds DEF Deploy
<1> QED
  BY <1>1 DEF TypeOK, Truncate, Complete

(* A message is added to a queue that has room.                            *)
LEMMA QueueTypes ==
  ASSUME TypeOK, NEW c \in Conn, Len(async_rx[c]) < QueueCap,
         NEW m \in [host : Host, status : Status],
         async_rx' = [async_rx EXCEPT ![c] = Append(@, m)]
  PROVE  /\ async_rx' \in [Conn -> Seq([host : Host, status : Status])]
         /\ \A e \in Conn : Len(async_rx'[e]) <= QueueCap
<1>1. async_rx[c] \in Seq([host : Host, status : Status])
  BY DEF TypeOK
<1>2. /\ Append(async_rx[c], m) \in Seq([host : Host, status : Status])
      /\ Len(Append(async_rx[c], m)) <= QueueCap
  BY <1>1, Bounds
<1> QED
  BY <1>2 DEF TypeOK

LEMMA ShowTypes ==
  ASSUME TypeOK, NEW c \in Conn, NEW h \in Host, NEW status \in Status, Show(c, h, status)
  PROVE  shown' \in [Conn -> [Host -> Status \cup {None}]]
BY DEF TypeOK, Show

(* What the requests leave alone has its type still.                       *)
LEMMA RequestTypes ==
  ASSUME TInv, NEW c \in Conn, Request(c) \/ Drain(c)
  PROVE  TInv'
<1> USE DEF conns, tasks, files, hosts, memory, history
<1>1. ASSUME NEW h \in Host, StatusRequest(c, h) PROVE TInv'
  <2>1. shown' \in [Conn -> [Host -> Status \cup {None}]]
    BY <1>1, ShowTypes DEF StatusRequest, TInv, Status
  <2>2. UNCHANGED <<open, async_rx, tokens, at, tasks, files, hosts, memory, history>>
    BY <1>1 DEF StatusRequest
  <2> QED
    BY <2>1, <2>2 DEF TInv, TypeOK, TasksHaveRequests, TriesLeft
<1>2. ASSUME NEW s \in Session, Install(c, s) PROVE TInv'
  <2>1. hostOf[s] \in Host
    BY HostAssumption
  <2>2. shown' \in [Conn -> [Host -> Status \cup {None}]]
    BY <1>2, <2>1, ShowTypes DEF Install, TInv, Status
  <2>3. PICK d \in Deploy : /\ at[d] = "idle" /\ At(d, "tell_installing")
                            /\ task' = [task EXCEPT ![d] = [conn |-> c, session |-> s]]
    BY <1>2 DEF Install
  <2>4. at' \in [Deploy -> Stage]
    BY <2>3, StageList DEF At, TInv, TypeOK
  <2>5. task' \in [Deploy -> [conn : Conn, session : Session] \cup {None}]
    BY <2>3 DEF TInv, TypeOK
  <2>6. UNCHANGED <<open, async_rx, tokens, tries, src, dst, failed, torn,
                    files, hosts, memory, history>>
    BY <1>2 DEF Install
  <2>7. /\ task'[d] \in Requests /\ at'[d] = "tell_installing"
        /\ \A e \in Deploy \ {d} : task'[e] = task[e] /\ at'[e] = at[e]
    BY <2>3 DEF At, TInv, TypeOK, Requests
  <2>8. TasksHaveRequests'
    BY <2>6, <2>7 DEF TInv, TasksHaveRequests
  <2>9. TriesLeft'
    BY <2>3, <2>6, <2>7 DEF TInv, TriesLeft, HasTries
  <2> QED
    BY <2>2, <2>4, <2>5, <2>6, <2>8, <2>9 DEF TInv, TypeOK
<1>3. ASSUME NEW h \in Host, Upgrade(c, h) PROVE TInv'
  <2>1. tokens' \subseteq Host \X (1 .. MaxLives)
    BY <1>3 DEF Upgrade, TInv, TypeOK
  <2>2. UNCHANGED <<open, async_rx, shown, at, tasks, files, hosts, memory, history>>
    BY <1>3 DEF Upgrade
  <2> QED
    BY <2>1, <2>2 DEF TInv, TypeOK, TasksHaveRequests, TriesLeft
<1>4. CASE Close(c)
  <2>1. open' \subseteq Conn
    BY <1>4 DEF Close, TInv, TypeOK
  <2>2. /\ async_rx' \in [Conn -> Seq([host : Host, status : Status])]
        /\ \A e \in Conn : Len(async_rx'[e]) <= QueueCap
    <3>1. async_rx' = [async_rx EXCEPT ![c] = <<>>]
      BY <1>4 DEF Close
    <3>2. <<>> \in Seq([host : Host, status : Status]) /\ Len(<<>>) <= QueueCap
      BY Bounds
    <3> QED
      BY <3>1, <3>2 DEF TInv, TypeOK
  <2>3. shown' \in [Conn -> [Host -> Status \cup {None}]]
    BY <1>4 DEF Close, TInv, TypeOK
  <2>4. UNCHANGED <<tokens, at, tasks, files, hosts, memory, history>>
    BY <1>4 DEF Close
  <2> QED
    BY <2>1, <2>2, <2>3, <2>4 DEF TInv, TypeOK, TasksHaveRequests, TriesLeft
<1>5. CASE Drain(c)
  <2>1. /\ async_rx[c] \in Seq([host : Host, status : Status]) /\ async_rx[c] # <<>>
        /\ Len(async_rx[c]) <= QueueCap
    BY <1>5 DEF Drain, TInv, TypeOK
  <2>2. /\ Head(async_rx[c]) \in [host : Host, status : Status]
        /\ Tail(async_rx[c]) \in Seq([host : Host, status : Status])
        /\ Len(Tail(async_rx[c])) <= QueueCap
    <3> DEFINE M == [host : Host, status : Status]
    <3>1. async_rx[c] \in Seq(M) /\ async_rx[c] # <<>> /\ Len(async_rx[c]) <= QueueCap
      BY <2>1
    <3> HIDE DEF M
    <3>2. Head(async_rx[c]) \in M /\ Tail(async_rx[c]) \in Seq(M)
          /\ Len(Tail(async_rx[c])) <= QueueCap
      BY <3>1, HeadTail, Bounds
    <3> QED
      BY <3>2 DEF M
  <2>3. Head(async_rx[c]).host \in Host /\ Head(async_rx[c]).status \in Status
    BY <2>2
  <2>4. shown' \in [Conn -> [Host -> Status \cup {None}]]
    BY <1>5, <2>3, ShowTypes DEF Drain, TInv
  <2>5. async_rx' = [async_rx EXCEPT ![c] = Tail(async_rx[c])]
    BY <1>5 DEF Drain
  <2>6. /\ async_rx' \in [Conn -> Seq([host : Host, status : Status])]
        /\ \A e \in Conn : Len(async_rx'[e]) <= QueueCap
    BY <2>2, <2>5 DEF TInv, TypeOK
  <2>7. UNCHANGED <<open, tokens, at, tasks, files, hosts, memory, history>>
    BY <1>5 DEF Drain
  <2> QED
    BY <2>4, <2>6, <2>7 DEF TInv, TypeOK, TasksHaveRequests, TriesLeft
<1> QED
  BY <1>1, <1>2, <1>3, <1>4, <1>5 DEF Request

(* Rounds are counted by Check alone, and Forget puts the count back.      *)
LEMMA TriesNext ==
  ASSUME TInv, NEW d \in Deploy, TaskStep(d)
  PROVE  TriesLeft'
<1> USE DEF tasks
<1>a. at \in [Deploy -> Stage] /\ tries \in [Deploy -> 0 .. Attempts]
  BY DEF TInv, TypeOK
<1>b. ASSUME NEW s, At(d, s), \A e \in Deploy \ {d} : tries'[e] = tries[e],
             HasTries(s, tries'[d])
      PROVE  TriesLeft'
  <2>1. at'[d] = s /\ \A e \in Deploy \ {d} : at'[e] = at[e]
    BY <1>a, <1>b DEF At
  <2>2. \A e \in Deploy \ {d} : HasTries(at'[e], tries'[e])
    BY <1>b, <2>1 DEF TInv, TriesLeft
  <2> QED
    BY <1>b, <2>1, <2>2 DEF TriesLeft
<1>c. HasTries(at[d], tries[d])
  BY DEF TInv, TriesLeft
<1>1. CASE Tell(d)
  <2>1. at[d] \in DOMAIN Message /\ At(d, After[at[d]])
        /\ Forget({e \in {d} : After[at[d]] = "done"})
    BY <1>1 DEF Tell
  <2>2. \A e \in Deploy \ {d} : tries'[e] = tries[e]
    BY <2>1 DEF Forget
  <2>3. tries'[d] = IF After[at[d]] = "done" THEN 0 ELSE tries[d]
    BY <2>1 DEF Forget
  <2>4. at[d] \in {"tell_installing", "tell_starting", "tell_online", "tell_error"}
    BY <2>1, Stages
  <2>5. HasTries(After[at[d]], tries'[d])
    BY <1>c, <2>3, <2>4, Stages, Bounds DEF HasTries
  <2> QED
    BY <1>b, <2>1, <2>2, <2>5
<1>2. CASE Check(d)
  <2>1. CASE At(d, After["check"]) /\ UNCHANGED tries
    BY <1>b, <2>1, Stages DEF HasTries
  <2>2. CASE /\ tries' = [tries EXCEPT ![d] = @ + 1]
             /\ At(d, IF tries[d] + 1 < Attempts THEN "check" ELSE "tell_error")
    <3>1. tries'[d] = tries[d] + 1 /\ \A e \in Deploy \ {d} : tries'[e] = tries[e]
      BY <1>a, <2>2
    <3> QED
      BY <1>b, <2>2, <3>1 DEF HasTries
  <2> QED
    BY <1>2, <2>1, <2>2 DEF Check
<1>3. CASE Register(d)
  BY <1>3, <1>b, Stages DEF Register, HasTries
<1>4. CASE \/ SshFails(d) \/ WriteTmp(d) \/ Written(d) \/ WriteFails(d)
           \/ ConvertKey(d) \/ CannotRun(d) \/ ScpStart(d)
  <2>1. /\ tries' = tries /\ at[d] \in {"ssh", "writing", "key", "scp"}
        /\ \E s \in {"tell_error", "writing", "key", "scp", "copying"} : At(d, s)
    BY <1>4 DEF SshFails, WriteTmp, Written, WriteFails, ConvertKey, CannotRun, Leave, ScpStart
  <2> QED
    BY <1>b, <1>c, <2>1 DEF HasTries
<1>5. CASE ScpFails(d) \/ ScpEnd(d) \/ Clean(d) \/ Move(d) \/ Service(d)
  <2>1. /\ tries' = tries /\ at[d] \in {"scp", "copying", "clean", "move", "service"}
        /\ \E s \in {"tell_error", "clean", "move", "service", "tell_starting"} : At(d, s)
    BY <1>5 DEF ScpFails, ScpEnd, Clean, Move, Service
  <2> QED
    BY <1>b, <1>c, <2>1 DEF HasTries
<1> QED
  BY <1>1, <1>2, <1>3, <1>4, <1>5 DEF TaskStep

(* Steps of a task.                                                        *)
LEMMA TaskTypesNext ==
  ASSUME TInv, NEW d \in Deploy, TaskStep(d)
  PROVE  TInv'
<1> USE DEF conns, tasks, files, hosts, memory, history
<1>t. TriesLeft'
  BY TriesNext
<1>a. at[d] \notin {"idle", "done"} => task[d] \in Requests /\ host(d) \in Host /\ task[d].conn \in Conn
  BY TaskTypes, HostAssumption DEF TInv, TasksHaveRequests
<1>1. CASE Tell(d)
  <2>1. at[d] \in DOMAIN Message /\ At(d, After[at[d]]) /\ Forget({e \in {d} : After[at[d]] = "done"})
        /\ UNCHANGED <<open, shown, tokens, files, hosts, memory, history>>
    BY <1>1 DEF Tell
  <2>2. After[at[d]] \in {"ssh", "check", "done"} /\ Message[at[d]] \in Status
    BY <2>1, Told
  <2>3. task[d] \in Requests /\ host(d) \in Host /\ task[d].conn \in Conn
    BY <2>1, <1>a, Stages
  <2>4. /\ async_rx' \in [Conn -> Seq([host : Host, status : Status])]
        /\ \A e \in Conn : Len(async_rx'[e]) <= QueueCap
    <3>1. CASE UNCHANGED async_rx
      BY <3>1 DEF TInv, TypeOK
    <3>2. CASE /\ Len(async_rx[task[d].conn]) < QueueCap
               /\ async_rx' = [async_rx EXCEPT ![task[d].conn] =
                                 Append(@, [host |-> host(d), status |-> Message[at[d]]])]
      <4>1. [host |-> host(d), status |-> Message[at[d]]] \in [host : Host, status : Status]
        BY <2>2, <2>3
      <4> QED
        BY <3>2, <4>1, <2>3, QueueTypes DEF TInv
    <3> QED
      BY <1>1, <3>1, <3>2 DEF Tell
  <2>5. at' \in [Deploy -> Stage]
    BY <2>1, <2>2, StageList DEF At, TInv, TypeOK
  <2>6. /\ task' \in [Deploy -> [conn : Conn, session : Session] \cup {None}]
        /\ tries' \in [Deploy -> 0 .. Attempts]
        /\ src' \in [Deploy -> File \cup {None}] /\ dst' \in [Deploy -> File \cup {None}]
        /\ failed' \subseteq Deploy /\ torn' \subseteq Deploy
    BY <2>1, ForgetTypes DEF TInv
  <2>7. \A e \in Deploy \ {d} : at'[e] = at[e] /\ task'[e] = task[e] /\ src'[e] = src[e]
                                /\ dst'[e] = dst[e]
    <3>1. \A e \in Deploy \ {d} : e \in Deploy \ {x \in {d} : After[at[d]] = "done"}
      OBVIOUS
    <3> QED
      BY <3>1, <2>1, ForgetTypes DEF At, TInv, TypeOK
  <2>8. at'[d] = After[at[d]] /\ (At(d, After[at[d]]) /\ After[at[d]] # "done" => task'[d] = task[d])
    <3>1. After[at[d]] # "done" => d \in Deploy \ {x \in {d} : After[at[d]] = "done"}
      OBVIOUS
    <3> QED
      BY <3>1, <2>1, ForgetTypes DEF At, TInv, TypeOK
  <2>9. TasksHaveRequests'
    <3> SUFFICES ASSUME NEW e \in Deploy
                 PROVE  /\ at'[e] \notin {"idle", "done"} => task'[e] \in Requests
                        /\ at'[e] \in {"writing", "copying"} => src'[e] \in File
                        /\ at'[e] = "copying" => dst'[e] \in File
      BY DEF TasksHaveRequests
    <3>1. CASE e = d
      BY <3>1, <2>1, <2>2, <2>3, <2>8
    <3>2. CASE e # d
      BY <3>2, <2>7 DEF TInv, TasksHaveRequests
    <3> QED
      BY <3>1, <3>2
  <2> QED
    BY <1>t, <2>1, <2>4, <2>5, <2>6, <2>9 DEF TInv, TypeOK
<1>2. CASE SshFails(d)
  <2>1. at[d] = "ssh" /\ At(d, "tell_error") /\ UNCHANGED <<conns, tasks, files, hosts, memory, history>>
    BY <1>2 DEF SshFails
  <2>2. at' \in [Deploy -> Stage] /\ TasksHaveRequests'
    BY <2>1, StageList, MovesOn
  <2> QED
    BY <1>t, <2>1, <2>2 DEF TInv, TypeOK
<1>3. CASE WriteTmp(d)
  <2> DEFINE f == IF tmp = None THEN <<d, "tmp">> ELSE tmp
  <2>1. f \in File
    BY DEF TInv, TypeOK, File
  <2>2. /\ at[d] = "ssh" /\ tmp' = f /\ Truncate(f, d) /\ src' = [src EXCEPT ![d] = f]
        /\ At(d, "writing")
        /\ UNCHANGED <<conns, task, tries, dst, failed, upload, installed, key_file,
                       hosts, memory, left>>
    BY <1>3 DEF WriteTmp
  <2>3. torn' \subseteq Deploy /\ crossed' \subseteq Deploy
    BY <1>3 DEF WriteTmp, TInv, TypeOK
  <2> HIDE DEF f
  <2>4. whole' \subseteq File /\ writer' \in [File -> 0 .. MaxDeploys]
    BY <2>1, <2>2, FileTypes DEF TInv
  <2>5. /\ src' \in [Deploy -> File \cup {None}] /\ src'[d] \in File
        /\ \A e \in Deploy \ {d} : src'[e] = src[e]
    BY <2>1, <2>2 DEF TInv, TypeOK
  <2>6. at' \in [Deploy -> Stage] /\ TasksHaveRequests'
    BY <2>2, <2>5, StageList, MovesOn
  <2> QED
    BY <1>t, <2>1, <2>2, <2>3, <2>4, <2>5, <2>6 DEF TInv, TypeOK
<1>4. CASE Written(d)
  <2>1. /\ at[d] = "writing" /\ Complete(src[d], d)
        /\ UNCHANGED <<conns, tasks, tmp, upload, installed, key_file, hosts, memory, history>>
    BY <1>4 DEF Written
  <2>2. whole' \subseteq File /\ writer' \in [File -> 0 .. MaxDeploys]
    BY <2>1, FileTypes DEF TInv, TasksHaveRequests
  <2>3. PICK s \in {"key", "scp"} : At(d, s)
    BY <1>4 DEF Written
  <2>4. at' \in [Deploy -> Stage] /\ TasksHaveRequests'
    BY <2>1, <2>3, StageList, MovesOn
  <2> QED
    BY <1>t, <2>1, <2>2, <2>4 DEF TInv, TypeOK
<1>5. CASE ConvertKey(d) \/ CannotRun(d) \/ WriteFails(d)
  <2>1. /\ at[d] \in {"key", "scp", "writing"}
        /\ left' \subseteq {"binary", "key"} /\ key_file' \in BOOLEAN
        /\ UNCHANGED <<conns, tasks, tmp, upload, installed, whole, hosts, memory, crossed>>
    BY <1>5 DEF ConvertKey, CannotRun, WriteFails, Leave, TInv, TypeOK
  <2>2. PICK s \in {"scp", "tell_error"} : At(d, s)
    BY <1>5 DEF ConvertKey, CannotRun, WriteFails, Leave
  <2>3. at' \in [Deploy -> Stage] /\ TasksHaveRequests'
    BY <2>1, <2>2, StageList, MovesOn
  <2>4. writer' \in [File -> 0 .. MaxDeploys]
    BY <1>5, Bounds DEF ConvertKey, CannotRun, WriteFails, TInv, TypeOK
  <2> QED
    BY <1>t, <2>1, <2>3, <2>4 DEF TInv, TypeOK
<1>6. CASE ScpStart(d)
  <2> DEFINE h == host(d)
             f == IF upload[h] = None THEN <<d, "upload">> ELSE upload[h]
  <2>1. /\ at[d] = "scp" /\ tmp # None /\ src' = [src EXCEPT ![d] = tmp]
        /\ upload' = [upload EXCEPT ![h] = f] /\ dst' = [dst EXCEPT ![d] = f]
        /\ Truncate(f, d) /\ At(d, "copying")
        /\ UNCHANGED <<conns, task, tries, failed, tmp, installed, key_file,
                       hosts, memory, left>>
    BY <1>6 DEF ScpStart
  <2>2. h \in Host
    BY <2>1, <1>a
  <2>3. torn' \subseteq Deploy /\ crossed' \subseteq Deploy
    BY <1>6 DEF ScpStart, TInv, TypeOK
  <2> HIDE DEF h
  <2>4. f \in File /\ tmp \in File
    BY <2>1, <2>2 DEF TInv, TypeOK, File
  <2> HIDE DEF f
  <2>5. whole' \subseteq File /\ writer' \in [File -> 0 .. MaxDeploys]
    BY <2>1, <2>4, FileTypes DEF TInv
  <2>6. /\ src' \in [Deploy -> File \cup {None}] /\ dst' \in [Deploy -> File \cup {None}]
        /\ src'[d] \in File /\ dst'[d] \in File
        /\ \A e \in Deploy \ {d} : src'[e] = src[e] /\ dst'[e] = dst[e]
    BY <2>1, <2>4 DEF TInv, TypeOK
  <2>7. upload' \in [Host -> File \cup {None}]
    BY <2>1, <2>4 DEF TInv, TypeOK
  <2>8. at' \in [Deploy -> Stage] /\ TasksHaveRequests'
    BY <2>1, <2>6, StageList, MovesOn
  <2> QED
    BY <1>t, <2>1, <2>3, <2>5, <2>6, <2>7, <2>8 DEF TInv, TypeOK
<1>7. CASE ScpFails(d)
  <2>1. /\ at[d] \in {"scp", "copying"} /\ failed' = failed \cup {d} /\ At(d, "clean")
        /\ UNCHANGED <<conns, task, tries, src, dst, torn, files, hosts, memory, history>>
    BY <1>7 DEF ScpFails
  <2>2. at' \in [Deploy -> Stage] /\ TasksHaveRequests'
    BY <2>1, StageList, MovesOn
  <2> QED
    BY <1>t, <2>1, <2>2 DEF TInv, TypeOK
<1>8. CASE ScpEnd(d)
  <2>1. /\ at[d] = "copying" /\ At(d, "clean")
        /\ \/ Complete(dst[d], d)
           \/ whole' = whole \ {dst[d]} /\ UNCHANGED writer
        /\ UNCHANGED <<conns, tasks, tmp, upload, installed, key_file, hosts, memory, history>>
    BY <1>8 DEF ScpEnd
  <2>2. dst[d] \in File
    BY <2>1 DEF TInv, TasksHaveRequests
  <2>3. whole' \subseteq File /\ writer' \in [File -> 0 .. MaxDeploys]
    <3>1. CASE Complete(dst[d], d)
      BY <3>1, <2>2, FileTypes DEF TInv
    <3>2. CASE whole' = whole \ {dst[d]} /\ UNCHANGED writer
      BY <3>2 DEF TInv, TypeOK
    <3> QED
      BY <2>1, <3>1, <3>2
  <2>4. at' \in [Deploy -> Stage] /\ TasksHaveRequests'
    BY <2>1, StageList, MovesOn
  <2> QED
    BY <1>t, <2>1, <2>3, <2>4 DEF TInv, TypeOK
<1>9. CASE Clean(d)
  <2>1. /\ at[d] = "clean" /\ tmp' = None /\ whole' = whole \ {tmp}
        /\ writer' = [f \in File |-> IF f = tmp THEN 0 ELSE writer[f]]
        /\ key_file' = (key_file /\ ~encrypted(d))
        /\ left' \subseteq {"binary", "key"}
        /\ UNCHANGED <<conns, tasks, upload, installed, hosts, memory, crossed>>
    BY <1>9 DEF Clean, TInv, TypeOK
  <2>2. whole' \subseteq File /\ writer' \in [File -> 0 .. MaxDeploys]
    BY <2>1, Bounds DEF TInv, TypeOK
  <2>3. PICK s \in {"tell_error", "move"} : At(d, s)
    BY <1>9 DEF Clean
  <2>4. at' \in [Deploy -> Stage] /\ TasksHaveRequests'
    BY <2>1, <2>3, StageList, MovesOn
  <2>5. key_file' \in BOOLEAN
    BY <2>1 DEF encrypted
  <2> QED
    BY <1>t, <2>1, <2>2, <2>4, <2>5 DEF TInv, TypeOK
<1>10. CASE Move(d)
  <2> DEFINE h == host(d)
  <2>1. /\ at[d] = "move"
        /\ UNCHANGED <<conns, tasks, tmp, whole, writer, key_file, hosts, memory, history>>
    BY <1>10 DEF Move
  <2>2. h \in Host
    BY <2>1, <1>a
  <2>3. \/ \E x \in BOOLEAN :
             /\ upload[h] # None /\ upload' = [upload EXCEPT ![h] = None]
             /\ installed' = [installed EXCEPT ![h] = [file |-> upload[h], by |-> d, executable |-> x]]
        \/ UNCHANGED <<installed, upload>>
    BY <1>10 DEF Move
  <2> HIDE DEF h
  <2>4. /\ installed' \in [Host -> [file : File, by : Deploy, executable : BOOLEAN] \cup {None}]
        /\ upload' \in [Host -> File \cup {None}]
    <3>1. CASE UNCHANGED <<installed, upload>>
      BY <3>1 DEF TInv, TypeOK
    <3>2. ASSUME NEW x \in BOOLEAN, upload[h] # None, upload' = [upload EXCEPT ![h] = None],
                 installed' = [installed EXCEPT ![h] = [file |-> upload[h], by |-> d, executable |-> x]]
          PROVE  /\ installed' \in [Host -> [file : File, by : Deploy, executable : BOOLEAN] \cup {None}]
                 /\ upload' \in [Host -> File \cup {None}]
      <4>1. upload \in [Host -> File \cup {None}] /\ upload[h] \in File
        BY <3>2, <2>2 DEF TInv, TypeOK
      <4>2. [file |-> upload[h], by |-> d, executable |-> x] \in
              [file : File, by : Deploy, executable : BOOLEAN]
        BY <4>1
      <4> QED
        BY <3>2, <4>1, <4>2 DEF TInv, TypeOK
    <3> QED
      BY <2>3, <3>1, <3>2
  <2>5. PICK s \in {"service", "tell_error"} : At(d, s)
    BY <1>10 DEF Move
  <2>6. at' \in [Deploy -> Stage] /\ TasksHaveRequests'
    BY <2>1, <2>5, StageList, MovesOn
  <2> QED
    BY <1>t, <2>1, <2>4, <2>6 DEF TInv, TypeOK
<1>11. CASE Service(d)
  <2> DEFINE h == host(d)
  <2>1. at[d] = "service" /\ UNCHANGED <<conns, tasks, files, memory, history>>
    BY <1>11 DEF Service
  <2>2. h \in Host
    BY <2>1, <1>a
  <2>3. /\ unit' \in {unit, [unit EXCEPT ![h] = life]}
        /\ running' \in {running, [running EXCEPT ![h] = IF @ = 0 /\ Starts(h) THEN life ELSE @]}
        /\ kept' \in {kept, kept \cup {h}}
    BY <1>11 DEF Service
  <2> HIDE DEF h
  <2>4. life \in 0 .. MaxLives
    BY Bounds DEF TInv, TypeOK
  <2>5. unit' \in [Host -> 0 .. MaxLives] /\ running' \in [Host -> 0 .. MaxLives] /\ kept' \subseteq Host
    <3>1. unit' \in [Host -> 0 .. MaxLives]
      BY <2>3, <2>4 DEF TInv, TypeOK
    <3>2. running' \in [Host -> 0 .. MaxLives]
      BY <2>3, <2>4 DEF TInv, TypeOK
    <3>3. kept' \subseteq Host
      BY <2>2, <2>3 DEF TInv, TypeOK
    <3> QED
      BY <3>1, <3>2, <3>3
  <2>6. PICK s \in {"tell_starting", "tell_error"} : At(d, s)
    BY <1>11 DEF Service
  <2>7. at' \in [Deploy -> Stage] /\ TasksHaveRequests'
    BY <2>1, <2>6, StageList, MovesOn
  <2> QED
    BY <1>t, <2>1, <2>5, <2>7 DEF TInv, TypeOK
<1>12. CASE Check(d)
  <2>1. /\ at[d] = "check"
        /\ UNCHANGED <<conns, task, src, dst, failed, torn, files, hosts, memory, history>>
    BY <1>12 DEF Check
  <2>2. PICK s \in {"register", "check", "tell_error"} : At(d, s)
    BY <1>12, Stages DEF Check
  <2>3. at' \in [Deploy -> Stage] /\ TasksHaveRequests'
    BY <2>1, <2>2, StageList, MovesOn
  <2>4. tries' \in [Deploy -> 0 .. Attempts]
    <3>1. tries[d] \in 0 .. Attempts /\ tries[d] < Attempts
      BY <2>1 DEF TInv, TypeOK, TriesLeft, HasTries
    <3>2. tries[d] + 1 \in 0 .. Attempts
      BY <3>1, Bounds
    <3> QED
      BY <1>12, <3>2 DEF Check, TInv, TypeOK
  <2> QED
    BY <1>t, <2>1, <2>3, <2>4 DEF TInv, TypeOK
<1>13. CASE Register(d)
  <2>1. /\ at[d] = "register" /\ agents' = agents \cup {host(d)} /\ At(d, "tell_online")
        /\ UNCHANGED <<conns, tasks, files, hosts, life, history>>
    BY <1>13, Stages DEF Register
  <2>2. at' \in [Deploy -> Stage] /\ TasksHaveRequests'
    BY <2>1, StageList, MovesOn
  <2> QED
    BY <1>t, <2>1, <2>2, <1>a DEF TInv, TypeOK
<1> QED
  BY <1>1, <1>2, <1>3, <1>4, <1>5, <1>6, <1>7, <1>8, <1>9, <1>10, <1>11, <1>12, <1>13 DEF TaskStep

LEMMA NextTypes == TInv /\ [Next]_vars => TInv'
<1> SUFFICES ASSUME TInv, [Next]_vars PROVE TInv'
  OBVIOUS
<1> USE DEF conns, tasks, files, hosts, memory, history
<1>1. ASSUME NEW c \in Conn, Request(c) \/ Drain(c) PROVE TInv'
  BY <1>1, RequestTypes
<1>2. ASSUME NEW d \in Deploy, TaskStep(d) PROVE TInv'
  BY <1>2, TaskTypesNext
<1>3. ASSUME NEW h \in Host, AgentExits(h) \/ AgentStarts(h) PROVE TInv'
  <2>1. running' \in [Host -> 0 .. MaxLives] /\ kept' \subseteq Host
    <3>1. 0 \in 0 .. MaxLives /\ unit[h] \in 0 .. MaxLives
      BY Bounds DEF TInv, TypeOK
    <3>2. \E n \in {0, unit[h]} : running' = [running EXCEPT ![h] = n]
      BY <1>3 DEF AgentExits, AgentStarts
    <3>3. kept' \in {kept, kept \ {h}}
      BY <1>3 DEF AgentExits, AgentStarts
    <3> QED
      BY <3>1, <3>2, <3>3 DEF TInv, TypeOK
  <2>2. UNCHANGED <<conns, at, tasks, files, unit, memory, history>>
    BY <1>3 DEF AgentExits, AgentStarts
  <2> QED
    BY <2>1, <2>2 DEF TInv, TypeOK, TasksHaveRequests, TriesLeft
<1>4. CASE Restart
  <2>1. /\ Forget(Deploy) /\ UNCHANGED <<tokens, files, hosts, crossed>>
        /\ at' = [d \in Deploy |-> IF at[d] = "idle" THEN "idle" ELSE "done"]
        /\ life' = life + 1 /\ life < MaxLives /\ agents' = {} /\ open' = Conn
        /\ async_rx' = [c \in Conn |-> <<>>] /\ shown' = [c \in Conn |-> [h \in Host |-> None]]
    BY <1>4 DEF Restart
  <2>2. /\ task' \in [Deploy -> [conn : Conn, session : Session] \cup {None}]
        /\ tries' \in [Deploy -> 0 .. Attempts]
        /\ src' \in [Deploy -> File \cup {None}] /\ dst' \in [Deploy -> File \cup {None}]
        /\ failed' \subseteq Deploy /\ torn' \subseteq Deploy
    BY <2>1, ForgetTypes DEF TInv
  <2>3. at' \in [Deploy -> Stage] /\ \A d \in Deploy : at'[d] \in {"idle", "done"}
    BY <2>1, StageList
  <2>4. \A d \in Deploy : tries'[d] = 0
    BY <2>1 DEF Forget
  <2>5. /\ async_rx' \in [Conn -> Seq([host : Host, status : Status])]
        /\ \A e \in Conn : Len(async_rx'[e]) <= QueueCap
    BY <2>1, Bounds
  <2>6. /\ shown' \in [Conn -> [Host -> Status \cup {None}]] /\ open' \subseteq Conn
        /\ agents' \subseteq Host /\ life' \in 1 .. MaxLives
    BY <2>1, Bounds DEF TInv, TypeOK
  <2>7. left' \subseteq {"binary", "key"}
    BY <1>4 DEF Restart, TInv, TypeOK
  <2>8. TasksHaveRequests' /\ TriesLeft'
    BY <2>3, <2>4 DEF TasksHaveRequests, TriesLeft, HasTries
  <2> QED
    BY <2>1, <2>2, <2>3, <2>5, <2>6, <2>7, <2>8 DEF TInv, TypeOK
<1>5. CASE UNCHANGED vars
  BY <1>5 DEF vars, TInv, TypeOK, TasksHaveRequests, TriesLeft
<1> QED
  BY <1>1, <1>2, <1>3, <1>4, <1>5 DEF Next

LEMMA Types == Spec => []TInv
BY InitTypes, NextTypes, PTL DEF Spec

(* Every variable has its type, with any number of deployments at once;    *)
(* the queue of a connection stays within its capacity and a task asks at  *)
(* most Attempts times (session_handler.rs:318-334).                       *)
THEOREM TypeCorrect == Spec => []TypeOK
BY Types, PTL DEF TInv

-----------------------------------------------------------------------------
(* Files in /tmp.                                                          *)

(* Whose files are there: of a deployment that will remove them, unless    *)
(* one left them behind.                                                   *)
UsesKey == {"scp", "copying", "clean"}
FilesHaveOwners ==
  /\ \A d \in Deploy : at[d] = "key" => encrypted(d)
  /\ tmp # None => "binary" \in left \/ \E d \in Deploy : at[d] \in InTmp
  /\ key_file => "key" \in left \/ \E d \in Deploy : at[d] \in UsesKey /\ encrypted(d)

(* A task moves on, and removes nothing that another needs to remove.      *)
LEMMA OwnersKept ==
  ASSUME TInv, FilesHaveOwners, NEW d \in Deploy, NEW s, At(d, s),
         \A e \in Deploy \ {d} : task'[e] = task[e],
         s = "key" => encrypted(d)',
         tmp' # None =>
           "binary" \in left' \/ s \in InTmp \/ (tmp # None /\ "binary" \notin left /\ at[d] \notin InTmp),
         key_file' =>
           \/ "key" \in left' \/ (s \in UsesKey /\ encrypted(d)')
           \/ key_file /\ "key" \notin left /\ ~(at[d] \in UsesKey /\ encrypted(d))
  PROVE  FilesHaveOwners'
<1>1. at'[d] = s /\ \A e \in Deploy \ {d} : at'[e] = at[e] /\ (encrypted(e)' <=> encrypted(e))
  BY DEF At, TInv, TypeOK, encrypted
<1>2. \A e \in Deploy : at'[e] = "key" => encrypted(e)'
  BY <1>1 DEF FilesHaveOwners
<1>3. tmp' # None => "binary" \in left' \/ \E e \in Deploy : at'[e] \in InTmp
  BY <1>1 DEF FilesHaveOwners
<1>4. key_file' => "key" \in left' \/ \E e \in Deploy : at'[e] \in UsesKey /\ encrypted(e)'
  BY <1>1 DEF FilesHaveOwners
<1> QED
  BY <1>2, <1>3, <1>4 DEF FilesHaveOwners

LEMMA OwnersNext == TInv /\ FilesHaveOwners /\ [Next]_vars => FilesHaveOwners'
<1> SUFFICES ASSUME TInv, FilesHaveOwners, [Next]_vars PROVE FilesHaveOwners'
  OBVIOUS
<1> USE DEF conns, tasks, files, hosts, memory, history
<1>a. ASSUME UNCHANGED <<at, task, tmp, key_file, left>> PROVE FilesHaveOwners'
  BY <1>a DEF FilesHaveOwners, encrypted
<1>b. ASSUME NEW d \in Deploy, NEW s, At(d, s), at[d] \notin InTmp, s \notin InTmp,
             \A e \in Deploy \ {d} : task'[e] = task[e], UNCHANGED <<tmp, key_file, left>>
      PROVE  FilesHaveOwners'
  <2>1. at[d] \notin UsesKey /\ s # "key"
    BY <1>b DEF InTmp, UsesKey
  <2> QED
    BY <1>b, <2>1, OwnersKept
<1>c. ASSUME NEW d \in Deploy, NEW s, At(d, s), task' = task, s \in InTmp \ {"key"},
             UNCHANGED <<key_file, left>>, at[d] \in UsesKey => s \in UsesKey
      PROVE  FilesHaveOwners'
  <2>1. encrypted(d)' <=> encrypted(d)
    BY <1>c DEF encrypted
  <2> QED
    BY <1>c, <2>1, OwnersKept
<1>1. CASE Restart
  <2>1. /\ \A d \in Deploy : at'[d] # "key"
        /\ left' = left \cup {x \in {"binary"} : tmp # None} \cup {x \in {"key"} : key_file}
        /\ UNCHANGED <<tmp, key_file>>
    BY <1>1 DEF Restart
  <2> QED
    BY <2>1 DEF FilesHaveOwners
<1>2. ASSUME NEW c \in Conn, NEW s \in Session, Install(c, s) PROVE FilesHaveOwners'
  <2>1. PICK d \in Deploy : /\ at[d] = "idle" /\ At(d, "tell_installing")
                            /\ task' = [task EXCEPT ![d] = [conn |-> c, session |-> s]]
    BY <1>2 DEF Install
  <2>2. \A e \in Deploy \ {d} : task'[e] = task[e]
    BY <2>1 DEF TInv, TypeOK
  <2>3. UNCHANGED <<tmp, key_file, left>>
    BY <1>2 DEF Install
  <2> QED
    BY <1>b, <2>1, <2>2, <2>3 DEF InTmp
<1>3. ASSUME NEW c \in Conn, NEW h \in Host,
             StatusRequest(c, h) \/ Upgrade(c, h)
      PROVE  FilesHaveOwners'
  BY <1>3, <1>a DEF StatusRequest, Upgrade
<1>4. ASSUME NEW d \in Deploy, Tell(d) PROVE FilesHaveOwners'
  <2>1. /\ at[d] \in DOMAIN Message /\ At(d, After[at[d]])
        /\ Forget({e \in {d} : After[at[d]] = "done"}) /\ UNCHANGED <<tmp, key_file, left>>
    BY <1>4 DEF Tell
  <2>2. at[d] \notin InTmp /\ After[at[d]] \notin InTmp
    BY <2>1, Told, Stages DEF InTmp
  <2>3. \A e \in Deploy \ {d} : task'[e] = task[e]
    BY <2>1 DEF Forget
  <2> QED
    BY <1>b, <2>1, <2>2, <2>3
<1>5. ASSUME NEW d \in Deploy, SshFails(d) \/ Move(d) \/ Service(d) \/ Check(d) \/ Register(d)
      PROVE  FilesHaveOwners'
  <2>1. at[d] \in {"ssh", "move", "service", "check", "register"}
    BY <1>5 DEF SshFails, Move, Service, Check, Register
  <2>2. \E s \in {"tell_error", "service", "tell_starting", "check", "register", "tell_online"} :
          At(d, s)
    BY <1>5, Stages DEF SshFails, Move, Service, Check, Register
  <2>3. UNCHANGED <<task, tmp, key_file, left>>
    BY <1>5 DEF SshFails, Move, Service, Check, Register
  <2> QED
    BY <1>b, <2>1, <2>2, <2>3 DEF InTmp
<1>6. ASSUME NEW d \in Deploy, WriteTmp(d) PROVE FilesHaveOwners'
  <2>1. at[d] = "ssh" /\ At(d, "writing") /\ UNCHANGED <<task, key_file, left>>
    BY <1>6 DEF WriteTmp
  <2> QED
    BY <1>c, <2>1 DEF InTmp, UsesKey
<1>7. ASSUME NEW d \in Deploy, Written(d) PROVE FilesHaveOwners'
  <2>1. /\ at[d] = "writing" /\ At(d, IF encrypted(d) THEN "key" ELSE "scp")
        /\ UNCHANGED <<task, tmp, key_file, left>>
    BY <1>7 DEF Written
  <2>2. encrypted(d)' <=> encrypted(d)
    BY <2>1 DEF encrypted
  <2>3. CASE encrypted(d)
    BY <2>1, <2>2, <2>3, OwnersKept DEF InTmp, UsesKey
  <2>4. CASE ~encrypted(d)
    BY <1>c, <2>1, <2>4 DEF InTmp, UsesKey
  <2> QED
    BY <2>3, <2>4
<1>8. ASSUME NEW d \in Deploy, ConvertKey(d) PROVE FilesHaveOwners'
  <2>1. at[d] = "key" /\ encrypted(d) /\ UNCHANGED <<task, tmp>>
    BY <1>8 DEF ConvertKey, FilesHaveOwners
  <2>2. encrypted(d)'
    BY <2>1 DEF encrypted
  <2>3. At(d, "scp") /\ UNCHANGED left
    BY <1>8 DEF ConvertKey
  <2> QED
    BY <2>1, <2>2, <2>3, OwnersKept DEF InTmp, UsesKey
<1>9. ASSUME NEW d \in Deploy, ScpStart(d) \/ ScpFails(d) \/ ScpEnd(d) PROVE FilesHaveOwners'
  <2>1. UNCHANGED <<task, tmp, key_file, left>>
    BY <1>9 DEF ScpStart, ScpFails, ScpEnd
  <2>2. PICK s \in {"copying", "clean"} : At(d, s)
    BY <1>9 DEF ScpStart, ScpFails, ScpEnd
  <2> QED
    BY <1>c, <2>1, <2>2 DEF InTmp, UsesKey
<1>10. ASSUME NEW d \in Deploy, WriteFails(d) \/ CannotRun(d) PROVE FilesHaveOwners'
  <2>1. /\ Leave(d) /\ UNCHANGED <<task, tmp, key_file>>
    BY <1>10 DEF WriteFails, CannotRun
  <2>2. /\ At(d, "tell_error")
        /\ tmp' # None => "binary" \in left'
    BY <2>1 DEF Leave
  <2>3. key_file' => "key" \in left' \/ (key_file /\ "key" \notin left /\ ~encrypted(d))
    BY <2>1 DEF Leave
  <2> QED
    BY <2>1, <2>2, <2>3, OwnersKept DEF InTmp, UsesKey
<1>11. ASSUME NEW d \in Deploy, Clean(d) PROVE FilesHaveOwners'
  <2>1. /\ tmp' = None /\ key_file' = (key_file /\ ~encrypted(d)) /\ UNCHANGED task
        /\ left' = left \ ({"binary"} \cup {x \in {"key"} : encrypted(d)})
    BY <1>11 DEF Clean
  <2>2. PICK s \in {"tell_error", "move"} : At(d, s)
    BY <1>11 DEF Clean
  <2>3. key_file' => "key" \in left' \/ (key_file /\ "key" \notin left /\ ~encrypted(d))
    BY <2>1
  <2> QED
    BY <2>1, <2>2, <2>3, OwnersKept
<1>12. CASE UNCHANGED vars
  BY <1>12, <1>a DEF vars
<1>13. ASSUME NEW c \in Conn, Close(c) \/ Drain(c) PROVE FilesHaveOwners'
  BY <1>13, <1>a DEF Close, Drain
<1>14. ASSUME NEW h \in Host, AgentExits(h) \/ AgentStarts(h) PROVE FilesHaveOwners'
  BY <1>14, <1>a DEF AgentExits, AgentStarts
<1> QED
  BY <1>1, <1>2, <1>3, <1>4, <1>5, <1>6, <1>7, <1>8, <1>9, <1>10, <1>11, <1>12, <1>13, <1>14
     DEF Next, Request, TaskStep

(* The files of deployments are gone when no deployment needs them, unless *)
(* one left early (see TempFilesRemoved).                                  *)
THEOREM NothingIsLeft == Spec => []TempFilesRemoved
<1>1. Init => FilesHaveOwners
  BY DEF Init, FilesHaveOwners
<1>2. FilesHaveOwners => TempFilesRemoved
  BY DEF FilesHaveOwners, TempFilesRemoved, InTmp, UsesKey
<1> QED
  BY <1>1, <1>2, Types, OwnersNext, PTL DEF Spec

-----------------------------------------------------------------------------
(* Statuses.                                                               *)

(* What says that an agent is online, on the way or shown, is so.          *)
Truthful(m) == m.status # "not_installed" /\ (m.status = "online" => m.host \in agents)
OnlineIsRegistered ==
  /\ \A c \in Conn, h \in Host : shown[c][h] = "online" => h \in agents
  /\ \A c \in Conn : \A i \in DOMAIN async_rx[c] : Truthful(async_rx[c][i])
  /\ \A d \in Deploy : at[d] = "tell_online" => host(d) \in agents

(* Showing a status that is true.                                          *)
LEMMA ShowKeeps ==
  ASSUME TInv, OnlineIsRegistered, NEW c \in Conn, NEW h \in Host, NEW status \in Status,
         Show(c, h, status), status = "online" => h \in agents, agents' = agents
  PROVE  \A e \in Conn, g \in Host : shown'[e][g] = "online" => g \in agents'
<1>1. /\ shown'[c] = [shown[c] EXCEPT ![h] = status]
      /\ \A e \in Conn \ {c} : shown'[e] = shown[e]
  BY DEF Show, TInv, TypeOK
<1>2. shown'[c][h] = status /\ \A g \in Host \ {h} : shown'[c][g] = shown[c][g]
  BY <1>1 DEF TInv, TypeOK
<1> QED
  BY <1>1, <1>2 DEF OnlineIsRegistered

LEMMA OnlineNext == TInv /\ OnlineIsRegistered /\ [Next]_vars => OnlineIsRegistered'
<1> SUFFICES ASSUME TInv, OnlineIsRegistered, [Next]_vars PROVE OnlineIsRegistered'
  OBVIOUS
<1> USE DEF conns, tasks, files, hosts, memory, history
<1>a. ASSUME UNCHANGED <<shown, async_rx, agents, at, task>> PROVE OnlineIsRegistered'
  BY <1>a DEF OnlineIsRegistered, Truthful, host
<1>b. ASSUME UNCHANGED <<async_rx, agents, at, task>>,
             \A e \in Conn, g \in Host : shown'[e][g] = "online" => g \in agents'
      PROVE  OnlineIsRegistered'
  BY <1>b DEF OnlineIsRegistered, Truthful, host
<1>c. ASSUME NEW d \in Deploy, NEW s, At(d, s), s # "tell_online",
             \A e \in Deploy \ {d} : task'[e] = task[e], UNCHANGED agents
      PROVE  \A e \in Deploy : at'[e] = "tell_online" => host(e)' \in agents'
  <2>1. at'[d] = s /\ \A e \in Deploy \ {d} : at'[e] = at[e]
    BY <1>c DEF At, TInv, TypeOK
  <2> QED
    BY <1>c, <2>1 DEF OnlineIsRegistered, host
<1>1. ASSUME NEW c \in Conn, NEW h \in Host, StatusRequest(c, h) PROVE OnlineIsRegistered'
  <2> DEFINE status == IF h \in agents THEN "online" ELSE "not_installed"
  <2>1. Show(c, h, status) /\ status \in Status /\ (status = "online" => h \in agents)
        /\ UNCHANGED <<async_rx, agents, at, task>>
    BY <1>1 DEF StatusRequest, Status
  <2> QED
    BY <1>b, <2>1, ShowKeeps
<1>2. ASSUME NEW c \in Conn, NEW s \in Session, Install(c, s) PROVE OnlineIsRegistered'
  <2>1. PICK d \in Deploy : /\ at[d] = "idle" /\ At(d, "tell_installing")
                            /\ task' = [task EXCEPT ![d] = [conn |-> c, session |-> s]]
    BY <1>2 DEF Install
  <2>2. \A e \in Deploy \ {d} : task'[e] = task[e]
    BY <2>1 DEF TInv, TypeOK
  <2>3. /\ Show(c, hostOf[s], "installing") /\ hostOf[s] \in Host /\ UNCHANGED <<async_rx, agents>>
    BY <1>2, HostAssumption DEF Install
  <2>4. \A e \in Conn, g \in Host : shown'[e][g] = "online" => g \in agents'
    BY <2>3, ShowKeeps DEF Status
  <2>5. \A e \in Deploy : at'[e] = "tell_online" => host(e)' \in agents'
    BY <1>c, <2>1, <2>2, <2>3
  <2> QED
    BY <2>3, <2>4, <2>5 DEF OnlineIsRegistered, Truthful
<1>3. ASSUME NEW c \in Conn, Drain(c) PROVE OnlineIsRegistered'
  <2>1. /\ async_rx[c] \in Seq([host : Host, status : Status]) /\ async_rx[c] # <<>>
        /\ Show(c, Head(async_rx[c]).host, Head(async_rx[c]).status)
        /\ async_rx' = [async_rx EXCEPT ![c] = Tail(async_rx[c])]
        /\ UNCHANGED <<agents, at, task>>
    BY <1>3 DEF Drain, TInv, TypeOK
  <2>2. /\ 1 \in DOMAIN async_rx[c] /\ Head(async_rx[c]) = async_rx[c][1]
        /\ \A i \in DOMAIN Tail(async_rx[c]) :
             i + 1 \in DOMAIN async_rx[c] /\ Tail(async_rx[c])[i] = async_rx[c][i + 1]
    <3> DEFINE M == [host : Host, status : Status]
    <3>1. async_rx[c] \in Seq(M) /\ async_rx[c] # <<>>
      BY <2>1
    <3> HIDE DEF M
    <3> QED
      BY <3>1
  <2>3. Head(async_rx[c]) \in [host : Host, status : Status]
    <3> DEFINE M == [host : Host, status : Status]
    <3>1. async_rx[c] \in Seq(M) /\ async_rx[c] # <<>>
      BY <2>1
    <3> HIDE DEF M
    <3>2. Head(async_rx[c]) \in M
      BY <3>1, HeadTail
    <3> QED
      BY <3>2 DEF M
  <2>4. Truthful(Head(async_rx[c]))
    BY <2>2 DEF OnlineIsRegistered
  <2>5. \A e \in Conn, g \in Host : shown'[e][g] = "online" => g \in agents'
    BY <2>1, <2>3, <2>4, ShowKeeps DEF Truthful
  <2>6. \A i \in DOMAIN async_rx'[c] : Truthful(async_rx'[c][i])
    BY <2>1, <2>2 DEF OnlineIsRegistered, TInv, TypeOK
  <2>7. \A e \in Conn \ {c} : async_rx'[e] = async_rx[e]
    BY <2>1 DEF TInv, TypeOK
  <2> QED
    BY <2>1, <2>5, <2>6, <2>7 DEF OnlineIsRegistered, Truthful, host
<1>4. ASSUME NEW c \in Conn, Close(c) PROVE OnlineIsRegistered'
  <2>1. /\ shown' = [shown EXCEPT ![c] = [h \in Host |-> None]]
        /\ async_rx' = [async_rx EXCEPT ![c] = <<>>] /\ UNCHANGED <<agents, at, task>>
    BY <1>4 DEF Close
  <2>2. \A e \in Conn, g \in Host : shown'[e][g] = "online" => shown[e][g] = "online"
    BY <2>1, NoneAssumption DEF TInv, TypeOK, Status
  <2>3. \A e \in Conn : async_rx'[e] \in {async_rx[e], <<>>}
    BY <2>1 DEF TInv, TypeOK
  <2>4. \A e \in Conn : \A i \in DOMAIN async_rx'[e] : Truthful(async_rx'[e][i])
    BY <2>3 DEF OnlineIsRegistered
  <2> QED
    BY <2>1, <2>2, <2>4 DEF OnlineIsRegistered, Truthful, host
<1>5. ASSUME NEW d \in Deploy, Tell(d) PROVE OnlineIsRegistered'
  <2> DEFINE m == [host |-> host(d), status |-> Message[at[d]]]
             c == task[d].conn
  <2>1. /\ at[d] \in DOMAIN Message /\ At(d, After[at[d]]) /\ UNCHANGED <<shown, agents>>
        /\ Forget({e \in {d} : After[at[d]] = "done"})
    BY <1>5 DEF Tell
  <2>2. After[at[d]] # "tell_online" /\ Message[at[d]] # "not_installed"
        /\ (Message[at[d]] = "online" => at[d] = "tell_online")
    BY <2>1, Told
  <2>3. \A e \in Deploy \ {d} : task'[e] = task[e]
    BY <2>1 DEF Forget
  <2>4. \A e \in Deploy : at'[e] = "tell_online" => host(e)' \in agents'
    BY <1>c, <2>1, <2>2, <2>3
  <2>5. Truthful(m)
    BY <2>2 DEF Truthful, OnlineIsRegistered
  <2>6. \/ UNCHANGED async_rx
        \/ async_rx' = [async_rx EXCEPT ![c] = Append(@, m)]
    BY <1>5 DEF Tell
  <2> HIDE DEF m, c
  <2>7. \A e \in Conn : \A i \in DOMAIN async_rx'[e] : Truthful(async_rx'[e][i])
    <3> SUFFICES ASSUME NEW e \in Conn, NEW i \in DOMAIN async_rx'[e]
                 PROVE  Truthful(async_rx'[e][i])
      OBVIOUS
    <3>1. CASE async_rx'[e] = async_rx[e]
      BY <3>1 DEF OnlineIsRegistered
    <3>2. CASE async_rx'[e] = Append(async_rx[e], m)
      <4>1. async_rx[e] \in Seq([host : Host, status : Status])
        BY DEF TInv, TypeOK
      <4>2. async_rx'[e][i] = m \/ (i \in DOMAIN async_rx[e] /\ async_rx'[e][i] = async_rx[e][i])
        BY <3>2, <4>1
      <4> QED
        BY <4>2, <2>5 DEF OnlineIsRegistered
    <3> QED
      BY <3>1, <3>2, <2>6 DEF TInv, TypeOK
  <2> QED
    BY <2>1, <2>4, <2>7 DEF OnlineIsRegistered, Truthful
<1>6. ASSUME NEW d \in Deploy, Register(d) PROVE OnlineIsRegistered'
  <2>1. /\ agents' = agents \cup {host(d)} /\ At(d, "tell_online")
        /\ UNCHANGED <<shown, async_rx, task>>
    BY <1>6, Stages DEF Register
  <2>2. \A e \in Deploy \ {d} : at'[e] = at[e]
    BY <2>1 DEF At, TInv, TypeOK
  <2> QED
    BY <2>1, <2>2 DEF OnlineIsRegistered, Truthful, host
<1>7. ASSUME NEW d \in Deploy,
             \/ SshFails(d) \/ WriteTmp(d) \/ Written(d) \/ WriteFails(d)
             \/ ConvertKey(d) \/ CannotRun(d) \/ ScpStart(d)
             \/ ScpFails(d) \/ ScpEnd(d)
      PROVE  OnlineIsRegistered'
  <2>1. \E s \in {"tell_error", "writing", "key", "scp", "copying", "clean"} : At(d, s)
    BY <1>7 DEF SshFails, WriteTmp, Written, WriteFails, ConvertKey, CannotRun, Leave, ScpStart,
                ScpFails, ScpEnd
  <2>2. UNCHANGED <<task, agents, shown, async_rx>>
    BY <1>7 DEF SshFails, WriteTmp, Written, WriteFails, ConvertKey, CannotRun, Leave, ScpStart,
                ScpFails, ScpEnd
  <2>3. \A e \in Deploy : at'[e] = "tell_online" => host(e)' \in agents'
    BY <1>c, <2>1, <2>2
  <2> QED
    BY <2>2, <2>3 DEF OnlineIsRegistered, Truthful
<1>8. ASSUME NEW d \in Deploy, Clean(d) \/ Move(d) \/ Service(d) \/ Check(d)
      PROVE  OnlineIsRegistered'
  <2>1. \E s \in {"tell_error", "move", "service", "tell_starting", "check", "register"} : At(d, s)
    BY <1>8, Stages DEF Clean, Move, Service, Check
  <2>2. UNCHANGED <<task, agents, shown, async_rx>>
    BY <1>8 DEF Clean, Move, Service, Check
  <2>3. \A e \in Deploy : at'[e] = "tell_online" => host(e)' \in agents'
    BY <1>c, <2>1, <2>2
  <2> QED
    BY <2>2, <2>3 DEF OnlineIsRegistered, Truthful
<1>9. CASE Restart
  <2>1. /\ \A d \in Deploy : at'[d] # "tell_online"
        /\ \A c \in Conn, h \in Host : shown'[c][h] = None
        /\ \A c \in Conn : async_rx'[c] = <<>>
    BY <1>9 DEF Restart
  <2> QED
    BY <2>1, NoneAssumption DEF OnlineIsRegistered, Status
<1>10. ASSUME NEW h \in Host, AgentExits(h) \/ AgentStarts(h) PROVE OnlineIsRegistered'
  BY <1>10, <1>a DEF AgentExits, AgentStarts
<1>11. ASSUME NEW c \in Conn, NEW h \in Host, Upgrade(c, h) PROVE OnlineIsRegistered'
  BY <1>11, <1>a DEF Upgrade
<1>12. CASE UNCHANGED vars
  BY <1>12, <1>a DEF vars
<1> QED
  BY <1>1, <1>2, <1>3, <1>4, <1>5, <1>6, <1>7, <1>8, <1>9, <1>10, <1>11, <1>12
     DEF Next, Request, TaskStep

LEMMA OnlineRegistered == Spec => [](TInv /\ OnlineIsRegistered)
<1>1. Init => OnlineIsRegistered
  <2> SUFFICES ASSUME Init PROVE OnlineIsRegistered
    OBVIOUS
  <2>1. /\ \A c \in Conn, h \in Host : shown[c][h] = None
        /\ \A c \in Conn : async_rx[c] = <<>>
        /\ \A d \in Deploy : at[d] = "idle"
    BY DEF Init
  <2> QED
    BY <2>1, NoneAssumption DEF OnlineIsRegistered, Status
<1> QED
  BY <1>1, Types, OnlineNext, PTL DEF Spec

(* A browser that was told that an agent is online is not told later that  *)
(* there is none (see OnlineIsNotTakenBack): until the process ends, and   *)
(* the connection with it, the agent stays registered, and no message of a *)
(* task says that there is none.                                           *)
THEOREM NeverTakenBack == Spec => OnlineIsNotTakenBack
<1>1. TInv /\ OnlineIsRegistered /\ [Next]_vars =>
        [\A c \in Conn, h \in Host :
           shown[c][h] = "online" => shown'[c][h] # "not_installed"]_vars
  <2> SUFFICES ASSUME TInv, OnlineIsRegistered, [Next]_vars, NEW c \in Conn, NEW h \in Host,
                      shown[c][h] = "online", shown'[c][h] = "not_installed"
               PROVE  FALSE
    OBVIOUS
  <2> USE DEF conns, tasks, files, hosts, memory, history
  <2>1. h \in agents
    BY DEF OnlineIsRegistered
  <2>2. ASSUME NEW e \in Conn, NEW g \in Host, NEW status, Show(e, g, status)
        PROVE  e = c /\ g = h /\ status = "not_installed"
    BY <2>2 DEF Show, TInv, TypeOK
  <2>3. ASSUME NEW e \in Conn, NEW g \in Host, StatusRequest(e, g) PROVE FALSE
    BY <2>1, <2>2, <2>3 DEF StatusRequest
  <2>4. ASSUME NEW e \in Conn, NEW s \in Session, Install(e, s) PROVE FALSE
    BY <2>2, <2>4, HostAssumption DEF Install
  <2>5. ASSUME NEW e \in Conn, Drain(e) PROVE FALSE
    <3> DEFINE M == [host : Host, status : Status]
    <3>1. async_rx[e] \in Seq(M) /\ async_rx[e] # <<>>
          /\ Show(e, Head(async_rx[e]).host, Head(async_rx[e]).status)
      BY <2>5 DEF Drain, TInv, TypeOK
    <3> HIDE DEF M
    <3>2. Head(async_rx[e]) \in M /\ 1 \in DOMAIN async_rx[e] /\ Head(async_rx[e]) = async_rx[e][1]
      BY <3>1
    <3>3. Head(async_rx[e]).host \in Host
      BY <3>2 DEF M
    <3>4. Truthful(Head(async_rx[e]))
      BY <3>2 DEF OnlineIsRegistered
    <3> QED
      BY <2>2, <3>1, <3>3, <3>4 DEF Truthful
  <2>6. ASSUME NEW e \in Conn, Close(e) PROVE FALSE
    <3>1. shown'[c][h] \in {shown[c][h], None}
      BY <2>6 DEF Close, TInv, TypeOK
    <3> QED
      BY <3>1, NoneAssumption DEF Status
  <2>7. CASE Restart
    BY <2>7, NoneAssumption DEF Restart, Status
  <2>8. CASE UNCHANGED shown
    BY <2>8
  <2>9. ASSUME NEW d \in Deploy, TaskStep(d) PROVE UNCHANGED shown
    BY <2>9 DEF TaskStep, Tell, SshFails, WriteTmp, Written, WriteFails, ConvertKey, CannotRun, ScpStart,
                ScpFails, ScpEnd, Clean, Move, Service, Check, Register
  <2>10. ASSUME NEW g \in Host, AgentExits(g) \/ AgentStarts(g) PROVE UNCHANGED shown
    BY <2>10 DEF AgentExits, AgentStarts
  <2>11. ASSUME NEW e \in Conn, NEW g \in Host, Upgrade(e, g) PROVE UNCHANGED shown
    BY <2>11 DEF Upgrade
  <2>12. CASE UNCHANGED vars
    BY <2>8, <2>12 DEF vars
  <2> QED
    BY <2>3, <2>4, <2>5, <2>6, <2>7, <2>8, <2>9, <2>10, <2>11, <2>12 DEF Next, Request
<1> QED
  BY <1>1, OnlineRegistered, PTL DEF Spec, OnlineIsNotTakenBack

-----------------------------------------------------------------------------
(* Secrets.                                                                *)

(* An agent that a task of this process is bringing up, or that is         *)
(* registered, has a unit with the secret of this process.                 *)
BringingUp == {"tell_starting", "check", "register"}
SecretsAgree ==
  /\ \A t \in tokens : t[2] <= life /\ (t[2] = life => t[1] \in agents)
  /\ \A h \in agents : unit[h] = life
  /\ \A d \in Deploy : at[d] \in BringingUp => unit[host(d)] = life
  /\ \A h \in Host : unit[h] = life => running[h] \in {0, life} \/ h \in kept
  /\ \A h \in Host : unit[h] <= life

(* A task that moves on without a part in this.                            *)
LEMMA SecretsKept ==
  ASSUME TInv, SecretsAgree, NEW d \in Deploy, NEW s, At(d, s),
         s \in BringingUp => at[d] \in BringingUp /\ task'[d] = task[d],
         \A e \in Deploy \ {d} : task'[e] = task[e],
         UNCHANGED <<tokens, life, agents, unit, running, kept>>
  PROVE  SecretsAgree'
<1>1. at'[d] = s /\ \A e \in Deploy \ {d} : at'[e] = at[e]
  BY DEF At, TInv, TypeOK
<1>2. \A e \in Deploy : at'[e] \in BringingUp => unit'[host(e)'] = life'
  BY <1>1 DEF SecretsAgree, host
<1> QED
  BY <1>2 DEF SecretsAgree

LEMMA SecretsNext == TInv /\ SecretsAgree /\ [Next]_vars => SecretsAgree'
<1> SUFFICES ASSUME TInv, SecretsAgree, [Next]_vars PROVE SecretsAgree'
  OBVIOUS
<1> USE DEF conns, tasks, files, hosts, memory, history
<1>l. life \in Nat /\ life > 0
  BY Bounds DEF TInv, TypeOK
<1>h. \A d \in Deploy : at[d] \notin {"idle", "done"} => host(d) \in Host
  BY TaskTypes, HostAssumption DEF TInv, TasksHaveRequests
<1>a. ASSUME UNCHANGED <<tokens, life, agents, unit, running, kept, at, task>> PROVE SecretsAgree'
  BY <1>a DEF SecretsAgree, host
<1>1. ASSUME NEW c \in Conn, NEW h \in Host, StatusRequest(c, h) PROVE SecretsAgree'
  BY <1>1, <1>a DEF StatusRequest
<1>2. ASSUME NEW c \in Conn, NEW s \in Session, Install(c, s) PROVE SecretsAgree'
  <2>1. PICK d \in Deploy : /\ at[d] = "idle" /\ At(d, "tell_installing")
                            /\ task' = [task EXCEPT ![d] = [conn |-> c, session |-> s]]
    BY <1>2 DEF Install
  <2>2. \A e \in Deploy \ {d} : task'[e] = task[e]
    BY <2>1 DEF TInv, TypeOK
  <2>3. UNCHANGED <<tokens, life, agents, unit, running, kept>>
    BY <1>2 DEF Install
  <2> QED
    BY <2>1, <2>2, <2>3, SecretsKept DEF BringingUp
<1>3. ASSUME NEW c \in Conn, NEW h \in Host, Upgrade(c, h) PROVE SecretsAgree'
  <2>1. /\ h \in agents /\ tokens' = tokens \cup {<<h, life>>}
        /\ UNCHANGED <<life, agents, unit, running, kept, at, task>>
    BY <1>3 DEF Upgrade
  <2>2. \A t \in tokens' : t[2] <= life /\ (t[2] = life => t[1] \in agents)
    BY <2>1, <1>l DEF SecretsAgree
  <2> QED
    BY <2>1, <2>2 DEF SecretsAgree, host
<1>4. ASSUME NEW c \in Conn, Close(c) \/ Drain(c) PROVE SecretsAgree'
  BY <1>4, <1>a DEF Close, Drain
<1>5. ASSUME NEW d \in Deploy, Tell(d) PROVE SecretsAgree'
  <2>1. /\ at[d] \in DOMAIN Message /\ At(d, After[at[d]])
        /\ Forget({e \in {d} : After[at[d]] = "done"})
        /\ UNCHANGED <<tokens, life, agents, unit, running, kept>>
    BY <1>5 DEF Tell
  <2>2. After[at[d]] \in BringingUp => at[d] = "tell_starting" /\ After[at[d]] # "done"
    BY <2>1, Told DEF BringingUp
  <2>3. \A e \in Deploy : e # d \/ After[at[d]] # "done" => task'[e] = task[e]
    BY <2>1 DEF Forget
  <2> QED
    BY <2>1, <2>2, <2>3, SecretsKept DEF BringingUp
<1>6. ASSUME NEW d \in Deploy,
             \/ SshFails(d) \/ WriteTmp(d) \/ Written(d) \/ WriteFails(d)
             \/ ConvertKey(d) \/ CannotRun(d) \/ ScpStart(d)
             \/ ScpFails(d) \/ ScpEnd(d) \/ Clean(d) \/ Move(d)
      PROVE  SecretsAgree'
  <2>1. \E s \in {"tell_error", "writing", "key", "scp", "copying", "clean", "move", "service"} :
          At(d, s)
    BY <1>6 DEF SshFails, WriteTmp, Written, WriteFails, ConvertKey, CannotRun, Leave, ScpStart,
                ScpFails, ScpEnd,
                Clean, Move
  <2>2. UNCHANGED <<task, tokens, life, agents, unit, running, kept>>
    BY <1>6 DEF SshFails, WriteTmp, Written, WriteFails, ConvertKey, CannotRun, Leave, ScpStart,
                ScpFails, ScpEnd,
                Clean, Move
  <2> QED
    BY <2>1, <2>2, SecretsKept DEF BringingUp
<1>7. ASSUME NEW d \in Deploy, Check(d) PROVE SecretsAgree'
  <2>1. /\ at[d] = "check" /\ \E s \in {"register", "check", "tell_error"} : At(d, s)
        /\ UNCHANGED <<task, tokens, life, agents, unit, running, kept>>
    BY <1>7, Stages DEF Check
  <2> QED
    BY <2>1, SecretsKept DEF BringingUp
<1>8. ASSUME NEW d \in Deploy, Register(d) PROVE SecretsAgree'
  <2>1. /\ at[d] = "register" /\ At(d, "tell_online") /\ agents' = agents \cup {host(d)}
        /\ UNCHANGED <<task, tokens, life, unit, running, kept>>
    BY <1>8, Stages DEF Register
  <2>2. unit[host(d)] = life
    BY <2>1 DEF SecretsAgree, BringingUp
  <2>3. at'[d] = "tell_online" /\ \A e \in Deploy \ {d} : at'[e] = at[e]
    BY <2>1 DEF At, TInv, TypeOK
  <2> QED
    BY <2>1, <2>2, <2>3 DEF SecretsAgree, BringingUp, host
<1>9. ASSUME NEW d \in Deploy, Service(d) PROVE SecretsAgree'
  <2> DEFINE h == host(d)
  <2>1. h \in Host
    BY <1>9, <1>h DEF Service
  <2>2. UNCHANGED <<task, tokens, life, agents>>
    BY <1>9 DEF Service
  <2>3. CASE At(d, "tell_error") /\ UNCHANGED <<unit, running, kept>>
    BY <2>2, <2>3, SecretsKept DEF BringingUp
  <2>4. CASE /\ unit' = [unit EXCEPT ![h] = life]
             /\ running' \in {running, [running EXCEPT ![h] = IF @ = 0 /\ Starts(h) THEN life ELSE @]}
             /\ kept' = IF running[h] \notin {0, life} THEN kept \cup {h} ELSE kept
             /\ \E s \in {"tell_starting", "tell_error"} : At(d, s)
    <3>1. PICK s \in {"tell_starting", "tell_error"} : At(d, s)
      BY <2>4
    <3>2. at'[d] = s /\ \A e \in Deploy \ {d} : at'[e] = at[e]
      BY <3>1 DEF At, TInv, TypeOK
    <3>3. \A e \in Deploy : host(e)' = host(e)
      BY <2>2 DEF host
    <3> HIDE DEF h
    <3>4. unit'[h] = life /\ \A g \in Host \ {h} : unit'[g] = unit[g]
      BY <2>1, <2>4 DEF TInv, TypeOK
    <3>5. /\ \A g \in Host \ {h} : running'[g] = running[g] /\ (g \in kept' <=> g \in kept)
          /\ running'[h] \in {0, life} \/ h \in kept'
      BY <2>1, <2>4 DEF TInv, TypeOK
    <3>6. \A g \in agents : unit'[g] = life
      BY <3>4 DEF SecretsAgree, TInv, TypeOK
    <3>7. \A e \in Deploy : at'[e] \in BringingUp => unit'[host(e)] = life
      <4> SUFFICES ASSUME NEW e \in Deploy, at'[e] \in BringingUp PROVE unit'[host(e)] = life
        OBVIOUS
      <4>1. CASE e = d
        BY <4>1, <3>4 DEF h
      <4>2. CASE e # d
        <5>1. at[e] \in BringingUp
          BY <4>2, <3>2
        <5>2. host(e) \in Host /\ unit[host(e)] = life
          BY <5>1, <1>h DEF SecretsAgree, BringingUp
        <5> QED
          BY <5>2, <3>4
      <4> QED
        BY <4>1, <4>2
    <3>8. \A g \in Host : unit'[g] = life => running'[g] \in {0, life} \/ g \in kept'
      BY <3>4, <3>5 DEF SecretsAgree
    <3>9. \A g \in Host : unit'[g] <= life
      BY <3>4, <1>l DEF SecretsAgree
    <3> QED
      BY <2>2, <3>3, <3>6, <3>7, <3>8, <3>9 DEF SecretsAgree
  <2> QED
    BY <1>9, <2>3, <2>4 DEF Service
<1>10. ASSUME NEW h \in Host, AgentExits(h) PROVE SecretsAgree'
  <2>1. /\ running' = [running EXCEPT ![h] = 0] /\ kept' = kept \ {h}
        /\ UNCHANGED <<tokens, life, agents, unit, at, task>>
    BY <1>10 DEF AgentExits
  <2>2. \A g \in Host : unit[g] = life => running'[g] \in {0, life} \/ g \in kept'
    BY <2>1 DEF SecretsAgree, TInv, TypeOK
  <2> QED
    BY <2>1, <2>2 DEF SecretsAgree, host
<1>11. ASSUME NEW h \in Host, AgentStarts(h) PROVE SecretsAgree'
  <2>1. /\ running' = [running EXCEPT ![h] = unit[h]]
        /\ UNCHANGED <<tokens, life, agents, unit, kept, at, task>>
    BY <1>11 DEF AgentStarts
  <2>2. \A g \in Host : unit[g] = life => running'[g] \in {0, life} \/ g \in kept'
    BY <2>1 DEF SecretsAgree, TInv, TypeOK
  <2> QED
    BY <2>1, <2>2 DEF SecretsAgree, host
<1>12. CASE Restart
  <2>1. /\ life' = life + 1 /\ agents' = {} /\ \A d \in Deploy : at'[d] \in {"idle", "done"}
        /\ UNCHANGED <<tokens, unit, running, kept>>
    BY <1>12 DEF Restart
  <2>2. \A t \in tokens : t[2] \in Nat /\ t[2] < life'
    BY <2>1, <1>l, Bounds DEF SecretsAgree, TInv, TypeOK
  <2>3. \A h \in Host : unit[h] \in Nat /\ unit[h] < life'
    BY <2>1, <1>l, Bounds DEF SecretsAgree, TInv, TypeOK
  <2>4. life' \in Nat
    BY <2>1, <1>l
  <2>5. \A t \in tokens' : t[2] <= life' /\ (t[2] = life' => t[1] \in agents')
    BY <2>1, <2>2, <2>4
  <2>6. \A h \in Host : unit'[h] # life' /\ unit'[h] <= life'
    BY <2>1, <2>3, <2>4
  <2>7. \A d \in Deploy : at'[d] \notin BringingUp
    BY <2>1 DEF BringingUp
  <2> QED
    BY <2>1, <2>5, <2>6, <2>7 DEF SecretsAgree
<1>13. CASE UNCHANGED vars
  BY <1>13, <1>a DEF vars
<1> QED
  BY <1>1, <1>2, <1>3, <1>4, <1>5, <1>6, <1>7, <1>8, <1>9, <1>10, <1>11, <1>12, <1>13
     DEF Next, Request, TaskStep

(* Tokens lead to agents that take them (see UpgradesAreAccepted): a       *)
(* registered agent has a unit of this process, and an agent that runs     *)
(* with another secret has run since before that unit was written.         *)
THEOREM TokensAreTaken == Spec => []UpgradesAreAccepted
<1>1. Init => SecretsAgree
  <2> SUFFICES ASSUME Init PROVE SecretsAgree
    OBVIOUS
  <2>1. /\ tokens = {} /\ agents = {} /\ life = 1
        /\ \A d \in Deploy : at[d] = "idle"
        /\ \A h \in Host : unit[h] = 0
    BY DEF Init
  <2> QED
    BY <2>1 DEF SecretsAgree, BringingUp
<1>2. TInv /\ SecretsAgree => UpgradesAreAccepted
  BY DEF SecretsAgree, UpgradesAreAccepted, TInv, TypeOK
<1> QED
  BY <1>1, <1>2, Types, SecretsNext, PTL DEF Spec

-----------------------------------------------------------------------------
(* Files that share a name.                                                *)

(* An upload: a file that a deployment created by starting its scp.        *)
Before == {"idle", "tell_installing", "ssh", "writing", "key", "scp"}
Uploaded(f) == f \in File /\ f[2] = "upload" /\ at[f[1]] \notin Before

(* The upload of a host is of no other host and is nobody's binary.        *)
NamesApart ==
  /\ tmp # None => tmp[2] = "tmp"
  /\ \A h \in Host : upload[h] # None => Uploaded(upload[h])
  /\ \A h \in Host : installed[h] # None => Uploaded(installed[h].file)
  /\ \A h, g \in Host : upload[h] # None /\ upload[h] = upload[g] => h = g
  /\ \A h, g \in Host : upload[h] # None /\ installed[g] # None => upload[h] # installed[g].file

(* A copy goes to the upload of its host, if that is still its name, and   *)
(* to a binary only if another deployment moved it there meanwhile.        *)
CopiesApart ==
  \A e \in Deploy : at[e] = "copying" =>
    /\ Uploaded(dst[e])
    /\ \A h \in Host : upload[h] = dst[e] => h = host(e)
    /\ \A h \in Host : installed[h] # None /\ installed[h].file = dst[e] => installed[h].by \in crossed

(* A deployment that no other crossed has the files for itself.            *)
Holds(d) == at[d] \in OnHost /\ d \notin failed
Alone ==
  \A d \in Deploy \ crossed : \A e \in Deploy \ {d} :
    /\ at[d] \in InTmp => at[e] \notin InTmp
    /\ Holds(d) /\ Holds(e) => host(e) # host(d)

(* How far it has come with them.                                          *)
Progress(d) ==
  /\ at[d] = "writing" => src[d] = tmp /\ tmp # None /\ writer[tmp] = d
  /\ at[d] \in {"key", "scp"} => tmp \in whole
  /\ at[d] = "copying" => dst[d] = upload[host(d)] /\ writer[dst[d]] = d
  /\ at[d] \in {"clean", "move"} /\ d \notin failed => upload[host(d)] \in whole

FailedStages ==
  torn \subseteq crossed /\ \A d \in failed : at[d] \in {"clean", "tell_error"}
InstalledWhole ==
  \A h \in Host : installed[h] # None /\ installed[h].by \notin crossed => installed[h].file \in whole

UInv == /\ NamesApart /\ CopiesApart /\ Alone /\ FailedStages /\ InstalledWhole
        /\ \A d \in Deploy \ crossed : Progress(d)

(* Uploads stay uploads.                                                   *)
LEMMA UploadsStay ==
  ASSUME TInv, NEW d \in Deploy, NEW s, At(d, s), at[d] \in Before \/ s \notin Before
  PROVE  \A f \in File : Uploaded(f) => Uploaded(f)'
<1>1. at'[d] = s /\ \A e \in Deploy \ {d} : at'[e] = at[e]
  BY DEF At, TInv, TypeOK
<1>2. \A f \in File : f[1] \in Deploy
  BY DEF File
<1> QED
  BY <1>1, <1>2 DEF Uploaded

(* A file that is complete has a name, and an upload is not in /tmp.       *)
LEMMA WholeFiles ==
  ASSUME TInv, NamesApart, NEW h \in Host, upload[h] \in whole
  PROVE  upload[h] # None /\ Uploaded(upload[h]) /\ upload[h] # tmp
<1>1. upload[h] # None
  BY FileAssumption DEF TInv, TypeOK
<1>2. Uploaded(upload[h])
  BY <1>1 DEF NamesApart
<1>3. upload[h] # tmp
  BY <1>1, <1>2 DEF NamesApart, Uploaded
<1> QED
  BY <1>1, <1>2, <1>3

(* A task moves on, and renames nothing on a host: the parts of the        *)
(* invariant that concern names only.                                      *)
LEMMA NamesKept ==
  ASSUME TInv, UInv, NEW d \in Deploy, NEW s, At(d, s),
         at[d] \in Before \/ s \notin Before, s # "copying",
         tmp' # None => tmp'[2] = "tmp", crossed \subseteq crossed',
         \A e \in Deploy \ {d} : task'[e] = task[e] /\ dst'[e] = dst[e],
         UNCHANGED <<upload, installed>>
  PROVE  NamesApart' /\ CopiesApart'
<1>1. at'[d] = s /\ \A e \in Deploy \ {d} : at'[e] = at[e]
  BY DEF At, TInv, TypeOK
<1>2. \A e \in Deploy \ {d} : host(e)' = host(e)
  BY DEF host
<1>3. NamesApart'
  <2>1. \A h \in Host : upload[h] # None => upload[h] \in File
    BY DEF UInv, NamesApart, Uploaded
  <2>2. \A h \in Host : installed[h] # None => installed[h].file \in File
    BY DEF UInv, NamesApart, Uploaded
  <2> QED
    BY <2>1, <2>2, UploadsStay DEF UInv, NamesApart
<1>4. CopiesApart'
  <2> SUFFICES ASSUME NEW e \in Deploy, at'[e] = "copying"
               PROVE  /\ Uploaded(dst[e])'
                      /\ \A h \in Host : upload'[h] = dst'[e] => h = host(e)'
                      /\ \A h \in Host : installed'[h] # None /\ installed'[h].file = dst'[e]
                                           => installed'[h].by \in crossed'
    BY DEF CopiesApart
  <2>1. e # d /\ at[e] = "copying" /\ dst'[e] = dst[e]
    BY <1>1
  <2>2. Uploaded(dst[e]) /\ dst[e] \in File
    BY <2>1 DEF UInv, CopiesApart, Uploaded
  <2>3. Uploaded(dst[e])'
    BY <2>1, <2>2, UploadsStay DEF Uploaded
  <2> QED
    BY <1>2, <2>1, <2>3 DEF UInv, CopiesApart
<1> QED
  BY <1>3, <1>4

(* A task moves on and touches no file.                                    *)
LEMMA FilesUntouched ==
  ASSUME TInv, UInv, NEW d \in Deploy, NEW s, At(d, s),
         at[d] \in Before \/ s \notin Before,
         s \notin {"writing", "copying", "clean", "move"},
         s \in {"key", "scp"} => at[d] \in {"key", "scp"},
         failed' \subseteq failed, torn' \subseteq torn, d \in failed' => s = "tell_error",
         \A e \in Deploy \ {d} : task'[e] = task[e] /\ src'[e] = src[e] /\ dst'[e] = dst[e]
                                 /\ (e \in failed' <=> e \in failed),
         \A f \in File : writer[f] # d => writer'[f] = writer[f],
         UNCHANGED <<tmp, upload, installed, whole, crossed>>
  PROVE  UInv'
<1>1. at'[d] = s /\ \A e \in Deploy \ {d} : at'[e] = at[e] /\ host(e)' = host(e)
  BY DEF At, TInv, TypeOK, host
<1>2. s \notin OnHost /\ (s \in InTmp => s \in {"key", "scp"})
  BY DEF OnHost, InTmp
<1>3. NamesApart' /\ CopiesApart'
  BY NamesKept DEF UInv, NamesApart
<1>4. Alone'
  <2>1. \A e \in Deploy : at'[e] \in InTmp => at[e] \in InTmp
    BY <1>1, <1>2 DEF InTmp
  <2>2. \A e \in Deploy : Holds(e)' => e # d /\ Holds(e) /\ host(e)' = host(e)
    BY <1>1, <1>2 DEF Holds
  <2> QED
    BY <2>1, <2>2 DEF UInv, Alone
<1>5. FailedStages' /\ InstalledWhole'
  BY <1>1 DEF UInv, FailedStages, InstalledWhole, TInv, TypeOK
<1>6. ASSUME NEW e \in Deploy \ crossed PROVE Progress(e)'
  <2>1. Progress(e)
    BY DEF UInv
  <2>2. CASE e = d
    BY <1>1, <2>1, <2>2 DEF Progress
  <2>3. CASE e # d
    <3>1. tmp # None => tmp \in File
      BY DEF TInv, TypeOK
    <3>2. at[e] = "copying" => dst[e] \in File
      BY DEF UInv, CopiesApart, Uploaded
    <3>3. at[e] = "writing" => writer'[tmp] = e
      BY <2>1, <2>3, <3>1 DEF Progress
    <3>4. at[e] = "copying" => writer'[dst[e]] = e
      BY <2>1, <2>3, <3>2 DEF Progress
    <3> QED
      BY <1>1, <2>1, <2>3, <3>3, <3>4 DEF Progress
  <2> QED
    BY <2>2, <2>3
<1> QED
  BY <1>3, <1>4, <1>5, <1>6 DEF UInv

(* What one task does to its files, another that is not crossed by it does *)
(* not notice.                                                             *)
LEMMA WriteTmpKeeps ==
  ASSUME TInv, UInv, NEW d \in Deploy, WriteTmp(d)
  PROVE  UInv'
<1> DEFINE f == IF tmp = None THEN <<d, "tmp">> ELSE tmp
           others == {e \in Deploy : at[e] \in InTmp}
<1>1. /\ at[d] = "ssh" /\ at'[d] = "writing" /\ \A e \in Deploy \ {d} : at'[e] = at[e]
      /\ At(d, "writing")
  BY DEF WriteTmp, At, TInv, TypeOK
<1>2. /\ tmp' = f /\ whole' = whole \ {f} /\ writer' = [writer EXCEPT ![f] = d]
      /\ src' = [src EXCEPT ![d] = f]
      /\ torn' = torn \cup {e \in others : at[e] = "copying" /\ src[e] = f}
      /\ crossed' = crossed \cup others \cup {e \in {d} : others # {}}
      /\ UNCHANGED <<task, dst, failed, upload, installed>>
  BY DEF WriteTmp, Truncate
<1>3. f \in File /\ f[2] = "tmp" /\ f # None
  BY FileAssumption DEF TInv, TypeOK, UInv, NamesApart, File
<1> HIDE DEF f, others
<1>4. \A e \in Deploy : host(e)' = host(e)
  BY <1>2 DEF host
<1>5. \A g \in File : Uploaded(g) => Uploaded(g)' /\ g # f
  BY <1>1, <1>3, UploadsStay DEF Before, Uploaded
<1>6. NamesApart' /\ CopiesApart'
  BY <1>1, <1>2, <1>3, NamesKept DEF Before
<1>7. Alone'
  <2> SUFFICES ASSUME NEW x \in Deploy \ crossed', NEW e \in Deploy \ {x}
               PROVE  /\ at'[x] \in InTmp => at'[e] \notin InTmp
                      /\ Holds(x)' /\ Holds(e)' => host(x)' # host(e)'
    BY DEF Alone
  <2>1. x \notin crossed /\ x \notin others /\ (x = d => others = {})
    BY <1>2
  <2>2. at'[x] \in InTmp => at'[e] \notin InTmp
    <3>1. CASE x = d
      BY <1>1, <2>1, <3>1 DEF others
    <3>2. CASE x # d
      BY <1>1, <2>1, <3>2 DEF others
    <3> QED
      BY <3>1, <3>2
  <2>3. \A y \in Deploy : Holds(y)' => Holds(y)
    BY <1>1, <1>2 DEF Holds, OnHost
  <2> QED
    BY <1>4, <2>1, <2>2, <2>3 DEF UInv, Alone
<1>8. FailedStages'
  <2>1. torn' \subseteq crossed'
    BY <1>2 DEF UInv, FailedStages
  <2>2. \A e \in failed' : at'[e] \in {"clean", "tell_error"}
    BY <1>1, <1>2 DEF UInv, FailedStages, TInv, TypeOK
  <2> QED
    BY <2>1, <2>2 DEF FailedStages
<1>9. InstalledWhole'
  BY <1>2, <1>5 DEF UInv, InstalledWhole, NamesApart, Uploaded
<1>10. ASSUME NEW x \in Deploy \ crossed' PROVE Progress(x)'
  <2>1. x \notin crossed /\ x \notin others /\ Progress(x)
    BY <1>2 DEF UInv
  <2>2. CASE x = d
    BY <1>1, <1>2, <1>3, <2>2 DEF Progress, TInv, TypeOK
  <2>3. CASE x # d
    <3>1. at'[x] = at[x] /\ at[x] \notin InTmp
      BY <1>1, <2>1, <2>3 DEF others
    <3>2. ASSUME at[x] = "move", x \notin failed PROVE upload'[host(x)'] \in whole'
      <4>1. host(x) \in Host
        BY <3>2, TaskTypes, HostAssumption DEF TInv, TasksHaveRequests
      <4>2. upload[host(x)] \in whole
        BY <2>1, <3>2 DEF Progress
      <4> QED
        BY <1>2, <1>4, <1>5, <4>1, <4>2, WholeFiles DEF UInv, Uploaded
    <3> QED
      BY <1>2, <1>4, <3>1, <3>2 DEF Progress, InTmp
  <2> QED
    BY <2>2, <2>3
<1> QED
  BY <1>6, <1>7, <1>8, <1>9, <1>10 DEF UInv

LEMMA WrittenKeeps ==
  ASSUME TInv, UInv, NEW d \in Deploy, Written(d)
  PROVE  UInv'
<1>1. PICK s \in {"key", "scp"} : At(d, s)
  BY DEF Written
<1>2. at[d] = "writing" /\ at'[d] = s /\ \A e \in Deploy \ {d} : at'[e] = at[e]
  BY <1>1 DEF Written, At, TInv, TypeOK
<1>3. /\ whole' = whole \cup {g \in {src[d]} : writer[g] = d}
      /\ writer' = [g \in File |-> IF g = src[d] /\ writer[g] = d THEN 0 ELSE writer[g]]
      /\ UNCHANGED <<task, src, dst, failed, torn, crossed, tmp, upload, installed>>
  BY DEF Written, Complete, tasks, history
<1>4. NamesApart' /\ CopiesApart'
  BY <1>1, <1>2, <1>3, NamesKept DEF Before, UInv, NamesApart
<1>5. Alone'
  <2>1. \A e \in Deploy : (at'[e] \in InTmp <=> at[e] \in InTmp) /\ (at'[e] \in OnHost <=> at[e] \in OnHost)
    BY <1>2 DEF InTmp, OnHost
  <2> QED
    BY <1>3, <2>1 DEF UInv, Alone, Holds, host
<1>6. FailedStages' /\ InstalledWhole'
  BY <1>2, <1>3 DEF UInv, FailedStages, InstalledWhole, TInv, TypeOK
<1>7. ASSUME NEW x \in Deploy \ crossed' PROVE Progress(x)'
  <2>1. Progress(x) /\ host(x)' = host(x)
    BY <1>3 DEF UInv, host
  <2>2. CASE x = d
    BY <1>2, <1>3, <2>1, <2>2 DEF Progress
  <2>3. CASE x # d
    <3>1. at'[x] = at[x] /\ \A g \in File : writer[g] = x => writer'[g] = x
      BY <1>2, <1>3, <2>3
    <3>2. tmp # None => tmp \in File
      BY DEF TInv, TypeOK
    <3>3. at[x] = "copying" => dst[x] \in File
      BY DEF TInv, TasksHaveRequests
    <3> QED
      BY <1>3, <2>1, <3>1, <3>2, <3>3 DEF Progress
  <2> QED
    BY <2>2, <2>3
<1> QED
  BY <1>4, <1>5, <1>6, <1>7 DEF UInv

LEMMA ScpStartKeeps ==
  ASSUME TInv, UInv, NEW d \in Deploy, ScpStart(d)
  PROVE  UInv'
<1>h. PICK h \in Host : h = host(d)
  BY TaskTypes, HostAssumption DEF TInv, TasksHaveRequests, ScpStart
<1>f. PICK f \in File : f = IF upload[h] = None THEN <<d, "upload">> ELSE upload[h]
  <2>1. <<d, "upload">> \in File
    BY DEF File
  <2>2. upload[h] \in File \cup {None}
    BY DEF TInv, TypeOK
  <2> QED
    BY <2>1, <2>2
<1> DEFINE others == {e \in Deploy \ {d} : at[e] \in OnHost /\ host(e) = h}
<1>1. /\ at[d] = "scp" /\ at'[d] = "copying" /\ \A e \in Deploy \ {d} : at'[e] = at[e]
      /\ At(d, "copying")
  BY DEF ScpStart, At, TInv, TypeOK
<1>2. /\ tmp # None
      /\ torn' = IF tmp \in whole THEN torn ELSE torn \cup {d}
      /\ upload' = [upload EXCEPT ![h] = f] /\ dst' = [dst EXCEPT ![d] = f]
      /\ whole' = whole \ {f} /\ writer' = [writer EXCEPT ![f] = d]
      /\ crossed' = crossed \cup others \cup {e \in {d} : others # {}}
      /\ UNCHANGED <<task, failed, tmp, installed>>
      /\ src' = [src EXCEPT ![d] = tmp]
  BY <1>h, <1>f DEF ScpStart, Truncate
<1>3. h = host(d)
  BY <1>h
<1>4. f \in File /\ f[2] = "upload" /\ f # None
  <2>1. CASE upload[h] = None
    BY <1>f, <2>1, FileAssumption
  <2>2. CASE upload[h] # None
    BY <1>f, <2>2 DEF UInv, NamesApart, Uploaded
  <2> QED
    BY <2>1, <2>2
<1>5. Uploaded(f) => f = upload[h] /\ upload[h] # None
  BY <1>1, <1>f DEF Uploaded, Before
<1>6. Uploaded(f)'
  <2>1. CASE upload[h] = None
    BY <1>1, <1>4, <1>f, <2>1 DEF Uploaded, Before
  <2>2. CASE upload[h] # None
    BY <1>1, <1>f, <2>2, UploadsStay DEF UInv, NamesApart, Uploaded, Before
  <2> QED
    BY <2>1, <2>2
<1> HIDE DEF others
<1>7. \A e \in Deploy : host(e)' = host(e)
  BY <1>2 DEF host
<1>8. \A g \in File : Uploaded(g) => Uploaded(g)'
  BY <1>1, UploadsStay DEF Before
<1>9. upload'[h] = f /\ dst'[d] = f /\ writer'[f] = d
  BY <1>2, <1>3, <1>4 DEF TInv, TypeOK
<1>10. \A g \in Host \ {h} : upload'[g] = upload[g] /\ (upload[g] # None => upload[g] # f)
  <2>1. \A g \in Host \ {h} : upload'[g] = upload[g]
    BY <1>2 DEF TInv, TypeOK
  <2>2. \A g \in Host \ {h} : upload[g] # None => upload[g] # f
    BY <1>3, <1>5 DEF UInv, NamesApart
  <2> QED
    BY <2>1, <2>2
<1>11. \A g \in Host : installed[g] # None => installed[g].file # f /\ installed[g].file \in File
  BY <1>3, <1>5 DEF UInv, NamesApart, Uploaded
<1>12. NamesApart'
  <2>1. tmp' # None => tmp'[2] = "tmp"
    BY <1>2 DEF UInv, NamesApart
  <2>2. \A g \in Host : upload'[g] # None => Uploaded(upload[g])'
    <3>1. ASSUME NEW g \in Host \ {h}, upload[g] # None PROVE Uploaded(upload[g]) /\ upload[g] \in File
      BY <3>1 DEF UInv, NamesApart, Uploaded
    <3> QED
      BY <1>6, <1>8, <1>9, <1>10, <3>1 DEF Uploaded
  <2>3. \A g \in Host : installed'[g] # None => Uploaded(installed[g].file)'
    BY <1>2, <1>8, <1>11 DEF UInv, NamesApart, Uploaded
  <2>4. \A a, b \in Host : upload'[a] # None /\ upload'[a] = upload'[b] => a = b
    BY <1>4, <1>9, <1>10 DEF UInv, NamesApart
  <2>5. \A a, b \in Host : upload'[a] # None /\ installed'[b] # None => upload'[a] # installed'[b].file
    BY <1>2, <1>9, <1>10, <1>11 DEF UInv, NamesApart
  <2> QED
    BY <2>1, <2>2, <2>3, <2>4, <2>5 DEF NamesApart
<1>13. CopiesApart'
  <2> SUFFICES ASSUME NEW e \in Deploy, at'[e] = "copying"
               PROVE  /\ Uploaded(dst[e])'
                      /\ \A g \in Host : upload'[g] = dst'[e] => g = host(e)'
                      /\ \A g \in Host : installed'[g] # None /\ installed'[g].file = dst'[e]
                                           => installed'[g].by \in crossed'
    BY DEF CopiesApart
  <2>1. CASE e = d
    <3>1. Uploaded(dst[e])'
      BY <1>6, <1>9, <2>1 DEF Uploaded
    <3>2. \A g \in Host : upload'[g] = f => g = h
      BY <1>4, <1>10
    <3> QED
      BY <1>2, <1>3, <1>7, <1>9, <1>11, <2>1, <3>1, <3>2
  <2>2. CASE e # d
    <3>1. at[e] = "copying" /\ dst'[e] = dst[e]
      BY <1>1, <1>2, <2>2 DEF TInv, TypeOK
    <3>2. Uploaded(dst[e]) /\ dst[e] \in File
      BY <3>1 DEF UInv, CopiesApart, Uploaded
    <3>3. Uploaded(dst[e])'
      BY <1>8, <3>1, <3>2 DEF Uploaded
    <3>4. \A g \in Host : upload'[g] = dst[e] => g = host(e)
      <4>1. ASSUME NEW g \in Host \ {h}, upload'[g] = dst[e] PROVE g = host(e)
        BY <1>10, <3>1, <4>1 DEF UInv, CopiesApart
      <4>2. ASSUME f = dst[e] PROVE h = host(e)
        BY <1>3, <1>5, <3>1, <3>2, <4>2 DEF UInv, CopiesApart
      <4> QED
        BY <1>9, <4>1, <4>2
    <3> QED
      BY <1>2, <1>7, <3>1, <3>3, <3>4 DEF UInv, CopiesApart
  <2> QED
    BY <2>1, <2>2
<1>14. \A x \in Deploy \ crossed' : x \notin crossed /\ x \notin others /\ (x = d => others = {})
  BY <1>2
<1>15. Alone'
  <2> SUFFICES ASSUME NEW x \in Deploy \ crossed', NEW e \in Deploy \ {x}
               PROVE  /\ at'[x] \in InTmp => at'[e] \notin InTmp
                      /\ Holds(x)' /\ Holds(e)' => host(x)' # host(e)'
    BY DEF Alone
  <2>1. \A y \in Deploy : at'[y] \in InTmp <=> at[y] \in InTmp
    BY <1>1 DEF InTmp
  <2>2. \A y \in Deploy \ {d} : Holds(y)' => Holds(y) /\ at[y] \in OnHost
    BY <1>1, <1>2 DEF Holds
  <2>3. Holds(x)' /\ Holds(e)' => host(x) # host(e)
    <3>1. CASE x = d
      BY <1>3, <1>14, <2>2, <3>1 DEF others
    <3>2. CASE e = d
      BY <1>3, <1>14, <2>2, <3>2 DEF others
    <3>3. CASE x # d /\ e # d
      BY <1>14, <2>2, <3>3 DEF UInv, Alone
    <3> QED
      BY <3>1, <3>2, <3>3
  <2> QED
    BY <1>7, <1>14, <2>1, <2>3 DEF UInv, Alone
<1>16. FailedStages'
  <2>1. torn' \subseteq crossed'
    BY <1>1, <1>2 DEF UInv, FailedStages, Progress
  <2>2. \A e \in failed' : at'[e] \in {"clean", "tell_error"}
    BY <1>1, <1>2 DEF UInv, FailedStages, TInv, TypeOK
  <2> QED
    BY <2>1, <2>2 DEF FailedStages
<1>17. InstalledWhole'
  BY <1>2, <1>11 DEF UInv, InstalledWhole
<1>18. ASSUME NEW x \in Deploy \ crossed' PROVE Progress(x)'
  <2>1. CASE x = d
    BY <1>1, <1>3, <1>7, <1>9, <2>1 DEF Progress
  <2>2. CASE x # d
    <3>1. at'[x] = at[x] /\ at[x] \notin InTmp
      BY <1>1, <1>14, <2>2 DEF UInv, Alone, InTmp
    <3>2. ASSUME at[x] = "move", x \notin failed PROVE upload'[host(x)] \in whole'
      <4>1. host(x) \in Host
        BY <3>2, TaskTypes, HostAssumption DEF TInv, TasksHaveRequests
      <4>2. upload[host(x)] \in whole
        BY <1>14, <3>2 DEF UInv, Progress
      <4>3. host(x) # h
        BY <1>14, <2>2, <3>2 DEF others, OnHost
      <4> QED
        BY <1>2, <1>10, <4>1, <4>2, <4>3, WholeFiles DEF UInv
    <3> QED
      BY <1>2, <1>7, <3>1, <3>2 DEF Progress, InTmp
  <2> QED
    BY <2>1, <2>2
<1> QED
  BY <1>12, <1>13, <1>15, <1>16, <1>17, <1>18 DEF UInv

LEMMA ScpFailsKeeps ==
  ASSUME TInv, UInv, NEW d \in Deploy, ScpFails(d)
  PROVE  UInv'
<1>1. /\ at[d] \in {"scp", "copying"} /\ at'[d] = "clean" /\ At(d, "clean")
      /\ \A e \in Deploy \ {d} : at'[e] = at[e]
  BY DEF ScpFails, At, TInv, TypeOK
<1>2. /\ failed' = failed \cup {d}
      /\ UNCHANGED <<task, src, dst, torn, tmp, upload, installed, whole, writer, crossed>>
  BY DEF ScpFails, files, history
<1>3. at[d] \in Before \/ "clean" \notin Before
  BY DEF Before
<1>4. NamesApart' /\ CopiesApart'
  BY <1>1, <1>2, <1>3, NamesKept DEF UInv, NamesApart
<1>5. Alone'
  <2>1. \A e \in Deploy : at'[e] \in InTmp => at[e] \in InTmp
    BY <1>1 DEF InTmp
  <2>2. \A e \in Deploy : Holds(e)' => Holds(e) /\ host(e)' = host(e)
    BY <1>1, <1>2 DEF Holds, host
  <2>3. \A e \in Deploy : host(e)' = host(e)
    BY <1>2 DEF host
  <2> QED
    BY <1>2, <2>1, <2>2, <2>3 DEF UInv, Alone
<1>6. FailedStages' /\ InstalledWhole'
  BY <1>1, <1>2 DEF UInv, FailedStages, InstalledWhole, TInv, TypeOK
<1>7. ASSUME NEW x \in Deploy \ crossed' PROVE Progress(x)'
  <2>1. Progress(x) /\ host(x)' = host(x)
    BY <1>2 DEF UInv, host
  <2> QED
    BY <1>1, <1>2, <2>1 DEF Progress
<1> QED
  BY <1>4, <1>5, <1>6, <1>7 DEF UInv

LEMMA ScpEndKeeps ==
  ASSUME TInv, UInv, NEW d \in Deploy, ScpEnd(d)
  PROVE  UInv'
<1>1. /\ at[d] = "copying" /\ at'[d] = "clean" /\ At(d, "clean")
      /\ \A e \in Deploy \ {d} : at'[e] = at[e]
  BY DEF ScpEnd, At, TInv, TypeOK
<1>2. UNCHANGED <<task, src, dst, failed, torn, tmp, upload, installed, crossed>>
  BY DEF ScpEnd, tasks, history
<1>3. at[d] \in Before \/ "clean" \notin Before
  BY DEF Before
<1>4. \A e \in Deploy : host(e)' = host(e)
  BY <1>2 DEF host
<1>5. NamesApart' /\ CopiesApart'
  BY <1>1, <1>2, <1>3, NamesKept DEF UInv, NamesApart
<1>6. Alone'
  <2>1. \A e \in Deploy : at'[e] \in InTmp <=> at[e] \in InTmp
    BY <1>1 DEF InTmp
  <2>2. \A e \in Deploy : Holds(e)' => Holds(e)
    BY <1>1, <1>2 DEF Holds, OnHost
  <2> QED
    BY <1>2, <1>4, <2>1, <2>2 DEF UInv, Alone
<1>7. FailedStages'
  BY <1>1, <1>2 DEF UInv, FailedStages, TInv, TypeOK
<1>8. CASE d \notin torn /\ Complete(dst[d], d)
  <2>1. /\ whole' = whole \cup {g \in {dst[d]} : writer[g] = d}
        /\ writer' = [g \in File |-> IF g = dst[d] /\ writer[g] = d THEN 0 ELSE writer[g]]
    BY <1>8 DEF Complete
  <2>2. InstalledWhole'
    BY <1>2, <2>1 DEF UInv, InstalledWhole
  <2>3. ASSUME NEW x \in Deploy \ crossed' PROVE Progress(x)'
    <3>1. Progress(x)
      BY <1>2 DEF UInv
    <3>2. CASE x = d
      BY <1>1, <1>2, <1>4, <2>1, <3>1, <3>2 DEF Progress
    <3>3. CASE x # d
      <4>1. at'[x] = at[x] /\ \A g \in File : writer[g] = x => writer'[g] = x
        BY <1>1, <2>1, <3>3
      <4>2. tmp # None => tmp \in File
        BY DEF TInv, TypeOK
      <4>3. at[x] = "copying" => dst[x] \in File
        BY DEF TInv, TasksHaveRequests
      <4> QED
        BY <1>2, <1>4, <2>1, <3>1, <4>1, <4>2, <4>3 DEF Progress
    <3> QED
      BY <3>2, <3>3
  <2> QED
    BY <1>5, <1>6, <1>7, <2>2, <2>3 DEF UInv
<1>9. CASE d \in torn /\ whole' = whole \ {dst[d]} /\ UNCHANGED writer
  <2>1. d \in crossed
    BY <1>9 DEF UInv, FailedStages
  <2>2. InstalledWhole'
    BY <1>1, <1>2, <1>9 DEF UInv, InstalledWhole, CopiesApart
  <2>3. ASSUME NEW x \in Deploy \ crossed' PROVE Progress(x)'
    <3>1. Progress(x) /\ x # d /\ at'[x] = at[x] /\ at[x] \notin InTmp
      BY <1>1, <1>2, <2>1 DEF UInv, Alone, InTmp
    <3>2. ASSUME at[x] = "move", x \notin failed PROVE upload[host(x)] \in whole'
      <4>1. host(x) \in Host /\ upload[host(x)] \in whole
        BY <3>1, <3>2, TaskTypes, HostAssumption DEF TInv, TasksHaveRequests, Progress
      <4>2. host(x) # host(d)
        <5>1. Holds(x) /\ Holds(d)
          BY <1>1, <3>2 DEF Holds, OnHost, UInv, FailedStages
        <5> QED
          BY <1>2, <3>1, <5>1 DEF UInv, Alone
      <4>3. upload[host(x)] # dst[d]
        BY <1>1, <4>1, <4>2 DEF UInv, CopiesApart
      <4> QED
        BY <1>9, <4>1, <4>3
    <3> QED
      BY <1>2, <1>4, <3>1, <3>2 DEF Progress, InTmp
  <2> QED
    BY <1>5, <1>6, <1>7, <2>2, <2>3 DEF UInv
<1> QED
  BY <1>8, <1>9 DEF ScpEnd

LEMMA CleanKeeps ==
  ASSUME TInv, UInv, NEW d \in Deploy, Clean(d)
  PROVE  UInv'
<1>1. PICK s \in {"tell_error", "move"} : /\ At(d, s)
                                          /\ d \in failed => s = "tell_error"
  BY DEF Clean
<1>2. at[d] = "clean" /\ at'[d] = s /\ \A e \in Deploy \ {d} : at'[e] = at[e]
  BY <1>1 DEF Clean, At, TInv, TypeOK
<1>3. /\ tmp' = None /\ whole' = whole \ {tmp}
      /\ writer' = [f \in File |-> IF f = tmp THEN 0 ELSE writer[f]]
      /\ UNCHANGED <<task, src, dst, failed, torn, upload, installed, crossed>>
  BY DEF Clean, tasks, history
<1>4. \A e \in Deploy : host(e)' = host(e)
  BY <1>3 DEF host
<1>5. NamesApart' /\ CopiesApart'
  BY <1>1, <1>3, NamesKept DEF Before
<1>6. Alone'
  <2>1. \A e \in Deploy : at'[e] \in InTmp => at[e] \in InTmp
    BY <1>2 DEF InTmp
  <2>2. \A e \in Deploy : Holds(e)' => Holds(e)
    BY <1>2, <1>3 DEF Holds, OnHost
  <2> QED
    BY <1>3, <1>4, <2>1, <2>2 DEF UInv, Alone
<1>7. FailedStages'
  BY <1>1, <1>2, <1>3 DEF UInv, FailedStages, TInv, TypeOK
<1>8. InstalledWhole'
  <2>1. \A h \in Host : installed[h] # None => installed[h].file # tmp
    BY FileAssumption DEF UInv, NamesApart, Uploaded
  <2> QED
    BY <1>3, <2>1 DEF UInv, InstalledWhole
<1>9. ASSUME NEW x \in Deploy, at[x] \in {"clean", "move"}, x \notin failed,
             upload[host(x)] \in whole
      PROVE  upload[host(x)] \in whole'
  <2>1. host(x) \in Host
    BY <1>9, TaskTypes, HostAssumption DEF TInv, TasksHaveRequests
  <2> QED
    BY <1>3, <1>9, <2>1, WholeFiles DEF UInv
<1>10. ASSUME NEW x \in Deploy \ crossed' PROVE Progress(x)'
  <2>1. Progress(x)
    BY <1>3 DEF UInv
  <2>2. CASE x = d
    BY <1>1, <1>2, <1>3, <1>4, <1>9, <2>1, <2>2 DEF Progress
  <2>3. CASE x # d
    <3>1. at'[x] = at[x] /\ at[x] \notin InTmp
      BY <1>2, <1>3, <2>3 DEF UInv, Alone, InTmp
    <3> QED
      BY <1>3, <1>4, <1>9, <2>1, <3>1 DEF Progress, InTmp
  <2> QED
    BY <2>2, <2>3
<1> QED
  BY <1>5, <1>6, <1>7, <1>8, <1>10 DEF UInv

LEMMA MoveKeeps ==
  ASSUME TInv, UInv, NEW d \in Deploy, Move(d), NEW h \in Host, h = host(d),
         upload[h] # None, NEW s \in {"service", "tell_error"}, At(d, s), NEW x \in BOOLEAN,
         installed' = [installed EXCEPT ![h] = [file |-> upload[h], by |-> d, executable |-> x]],
         upload' = [upload EXCEPT ![h] = None]
  PROVE  UInv'
<1>1. /\ at[d] = "move" /\ at'[d] = s /\ \A e \in Deploy \ {d} : at'[e] = at[e]
      /\ UNCHANGED <<task, src, dst, failed, torn, tmp, whole, writer, crossed>>
  BY DEF Move, At, TInv, TypeOK, tasks, history
<1>2. d \notin failed /\ Holds(d)
  BY <1>1 DEF UInv, FailedStages, Holds, OnHost
<1>3. \A e \in Deploy : host(e)' = host(e)
  BY <1>1 DEF host
<1>4. /\ installed'[h] = [file |-> upload[h], by |-> d, executable |-> x] /\ upload'[h] = None
      /\ \A g \in Host \ {h} : installed'[g] = installed[g] /\ upload'[g] = upload[g]
  BY DEF TInv, TypeOK
<1>5. \A f \in File : Uploaded(f) => Uploaded(f)'
  BY <1>1, UploadsStay DEF Before
<1>6. \A e \in Deploy \ {d} : Holds(e) /\ host(e) = h => d \in crossed /\ e \in crossed
  BY <1>2 DEF UInv, Alone
<1>7. NamesApart'
  <2>1. \A g \in Host : upload[g] # None => Uploaded(upload[g]) /\ upload[g] \in File
    BY DEF UInv, NamesApart, Uploaded
  <2>2. \A g \in Host : installed[g] # None => Uploaded(installed[g].file) /\ installed[g].file \in File
    BY DEF UInv, NamesApart, Uploaded
  <2>3. \A g \in Host : upload'[g] # None => g # h /\ upload'[g] = upload[g]
    BY <1>4
  <2>4. \A g \in Host : installed'[g] # None =>
          \/ g = h /\ installed'[g].file = upload[h]
          \/ g # h /\ installed'[g] = installed[g]
    BY <1>4
  <2>5. \A g \in Host : upload'[g] # None => Uploaded(upload[g])'
    BY <1>5, <2>1, <2>3 DEF Uploaded
  <2>6. \A g \in Host : installed'[g] # None => Uploaded(installed[g].file)'
    <3>1. \A f \in File : Uploaded(f) => f[2] = "upload" /\ at'[f[1]] \notin Before
      BY <1>5 DEF Uploaded
    <3> QED
      BY <2>1, <2>2, <2>4, <3>1 DEF Uploaded
  <2>7. \A a, b \in Host : upload'[a] # None /\ upload'[a] = upload'[b] => a = b
    BY <2>3 DEF UInv, NamesApart
  <2>8. \A a, b \in Host : upload'[a] # None /\ installed'[b] # None => upload'[a] # installed'[b].file
    BY <2>3, <2>4 DEF UInv, NamesApart
  <2> QED
    BY <1>1, <2>5, <2>6, <2>7, <2>8 DEF UInv, NamesApart
<1>8. CopiesApart'
  <2> SUFFICES ASSUME NEW e \in Deploy, at'[e] = "copying"
               PROVE  /\ Uploaded(dst[e])'
                      /\ \A g \in Host : upload'[g] = dst'[e] => g = host(e)'
                      /\ \A g \in Host : installed'[g] # None /\ installed'[g].file = dst'[e]
                                           => installed'[g].by \in crossed'
    BY DEF CopiesApart
  <2>1. e # d /\ at[e] = "copying" /\ dst'[e] = dst[e]
    BY <1>1
  <2>2. Uploaded(dst[e]) /\ dst[e] \in File /\ dst[e] # None
    BY <2>1, FileAssumption DEF UInv, CopiesApart, Uploaded
  <2>3. Uploaded(dst[e])'
    BY <1>5, <2>1, <2>2 DEF Uploaded
  <2>4. Holds(e)
    BY <2>1 DEF Holds, OnHost, UInv, FailedStages
  <2>5. upload[h] = dst[e] => d \in crossed
    BY <1>6, <2>1, <2>4 DEF UInv, CopiesApart
  <2>6. \A g \in Host : upload'[g] = dst[e] => g = host(e)
    BY <1>4, <2>1, <2>2 DEF UInv, CopiesApart
  <2>7. \A g \in Host : installed'[g] # None /\ installed'[g].file = dst[e] => installed'[g].by \in crossed
    <3>1. ASSUME NEW g \in Host, g # h, installed'[g] # None, installed'[g].file = dst[e]
          PROVE  installed'[g].by \in crossed
      BY <1>4, <2>1, <3>1 DEF UInv, CopiesApart
    <3> QED
      BY <1>4, <2>5, <3>1
  <2> QED
    BY <1>1, <1>3, <2>1, <2>3, <2>6, <2>7
<1>9. Alone'
  <2>1. \A e \in Deploy : at'[e] \in InTmp <=> at[e] \in InTmp
    BY <1>1 DEF InTmp
  <2>2. \A e \in Deploy : Holds(e)' => Holds(e)
    BY <1>1 DEF Holds, OnHost
  <2> QED
    BY <1>1, <1>3, <2>1, <2>2 DEF UInv, Alone
<1>10. FailedStages'
  BY <1>1, <1>2 DEF UInv, FailedStages, TInv, TypeOK
<1>11. InstalledWhole'
  <2>1. d \notin crossed => upload[h] \in whole
    BY <1>1, <1>2 DEF UInv, Progress
  <2> QED
    BY <1>1, <1>4, <2>1 DEF UInv, InstalledWhole
<1>12. ASSUME NEW e \in Deploy \ crossed' PROVE Progress(e)'
  <2>1. CASE e = d
    BY <1>1, <2>1 DEF Progress
  <2>2. CASE e # d
    <3>1. Progress(e) /\ at'[e] = at[e]
      BY <1>1, <2>2 DEF UInv
    <3>2. ASSUME at[e] \in OnHost, e \notin failed PROVE upload'[host(e)] = upload[host(e)]
      <4>1. host(e) \in Host
        BY <3>2, TaskTypes, HostAssumption DEF TInv, TasksHaveRequests, OnHost
      <4>2. host(e) # h
        BY <1>1, <1>6, <2>2, <3>2 DEF Holds
      <4> QED
        BY <1>4, <4>1, <4>2
    <3>3. at[e] = "copying" => e \notin failed
      BY DEF UInv, FailedStages
    <3> QED
      BY <1>1, <1>3, <3>1, <3>2, <3>3 DEF Progress, OnHost
  <2> QED
    BY <2>1, <2>2
<1> QED
  BY <1>7, <1>8, <1>9, <1>10, <1>11, <1>12 DEF UInv

LEMMA UploadsNext == TInv /\ UInv /\ [Next]_vars => UInv'
<1> SUFFICES ASSUME TInv, UInv, [Next]_vars PROVE UInv'
  OBVIOUS
<1> USE DEF conns, tasks, files, hosts, memory, history
<1>a. ASSUME UNCHANGED <<at, task, src, dst, failed, torn, tmp, upload, installed, whole, writer,
                         crossed>>
      PROVE  UInv'
  BY <1>a DEF UInv, NamesApart, CopiesApart, Alone, Holds, FailedStages, InstalledWhole, Progress,
              Uploaded, host
<1>f. \A d \in failed : at[d] \in {"clean", "tell_error"}
  BY DEF UInv, FailedStages
<1>1. CASE UNCHANGED vars
  BY <1>1, <1>a DEF vars
<1>2. ASSUME NEW c \in Conn, (\E h \in Host : StatusRequest(c, h) \/ Upgrade(c, h)) \/ Close(c) \/ Drain(c)
      PROVE  UInv'
  BY <1>2, <1>a DEF StatusRequest, Upgrade, Close, Drain
<1>3. ASSUME NEW h \in Host, AgentExits(h) \/ AgentStarts(h) PROVE UInv'
  BY <1>3, <1>a DEF AgentExits, AgentStarts
<1>4. ASSUME NEW c \in Conn, NEW s \in Session, Install(c, s) PROVE UInv'
  <2>1. PICK d \in Deploy : /\ at[d] = "idle" /\ At(d, "tell_installing")
                            /\ task' = [task EXCEPT ![d] = [conn |-> c, session |-> s]]
    BY <1>4 DEF Install
  <2>2. /\ \A e \in Deploy \ {d} : task'[e] = task[e]
        /\ UNCHANGED <<src, dst, failed, torn, tmp, upload, installed, whole, writer, crossed>>
    BY <1>4, <2>1 DEF Install, TInv, TypeOK
  <2>3. d \notin failed' /\ "tell_installing" \notin {"key", "scp"}
    BY <1>f, <2>1, <2>2
  <2>4. at[d] \in Before
    BY <2>1 DEF Before
  <2> QED
    BY <2>1, <2>2, <2>3, <2>4, FilesUntouched
<1>5. ASSUME NEW d \in Deploy, Tell(d) PROVE UInv'
  <2>1. PICK s : s = After[at[d]]
    OBVIOUS
  <2>2. /\ at[d] \in DOMAIN Message /\ At(d, s) /\ Forget({e \in {d} : s = "done"})
        /\ UNCHANGED <<tmp, upload, installed, whole, writer, crossed>>
    BY <1>5, <2>1 DEF Tell
  <2>3. s \in {"ssh", "check", "done"} /\ (s = "ssh" => at[d] = "tell_installing")
        /\ (at[d] = "tell_error" => s = "done")
    BY <2>1, <2>2, Stages
  <2>4. /\ failed' \subseteq failed /\ torn' \subseteq torn
        /\ \A e \in Deploy \ {d} : task'[e] = task[e] /\ src'[e] = src[e] /\ dst'[e] = dst[e]
                                   /\ (e \in failed' <=> e \in failed)
        /\ s = "done" => d \notin failed'
    BY <2>2 DEF Forget
  <2>5. d \in failed' => s = "tell_error"
    BY <1>f, <2>2, <2>3, <2>4, Stages
  <2>6. at[d] \in Before \/ s \notin Before
    BY <2>3 DEF Before
  <2> QED
    BY <2>2, <2>3, <2>4, <2>5, <2>6, FilesUntouched
<1>6. ASSUME NEW d \in Deploy, NEW s \in {"tell_error", "service", "tell_starting", "check", "register",
                                          "tell_online"},
             At(d, s), d \notin failed \/ s = "tell_error",
             UNCHANGED <<task, src, dst, failed, torn, tmp, upload, installed, whole, writer, crossed>>
      PROVE  UInv'
  <2>1. s \notin Before /\ s \notin {"writing", "copying", "clean", "move", "key", "scp"}
    BY <1>6 DEF Before
  <2> QED
    BY <1>6, <2>1, FilesUntouched
<1>7. ASSUME NEW d \in Deploy, SshFails(d) \/ CannotRun(d) PROVE UInv'
  BY <1>6, <1>7 DEF SshFails, CannotRun, Leave
<1>12. ASSUME NEW d \in Deploy, WriteFails(d) PROVE UInv'
  <2>1. /\ at[d] = "writing" /\ At(d, "tell_error")
        /\ writer' = [writer EXCEPT ![src[d]] = IF @ = d THEN 0 ELSE @]
        /\ UNCHANGED <<task, src, dst, failed, torn, tmp, upload, installed, whole, crossed>>
    BY <1>12 DEF WriteFails, Leave
  <2>2. \A f \in File : writer[f] # d => writer'[f] = writer[f]
    BY <2>1 DEF TInv, TypeOK
  <2> QED
    BY <2>1, <2>2, FilesUntouched DEF Before
<1>8. ASSUME NEW d \in Deploy, Service(d) \/ Check(d) \/ Register(d) PROVE UInv'
  <2>1. /\ d \notin failed
        /\ UNCHANGED <<task, src, dst, failed, torn, tmp, upload, installed, whole, writer, crossed>>
    BY <1>8, <1>f DEF Service, Check, Register
  <2>2. \E s \in {"tell_error", "tell_starting", "check", "register", "tell_online"} : At(d, s)
    BY <1>8, Stages DEF Service, Check, Register
  <2> QED
    BY <1>6, <2>1, <2>2
<1>9. ASSUME NEW d \in Deploy, ConvertKey(d) PROVE UInv'
  <2>1. /\ at[d] = "key" /\ d \notin failed
        /\ UNCHANGED <<task, src, dst, failed, torn, tmp, upload, installed, whole, writer, crossed>>
    BY <1>9, <1>f DEF ConvertKey
  <2>2. At(d, "scp")
    BY <1>9 DEF ConvertKey
  <2> QED
    BY <2>1, <2>2, FilesUntouched DEF Before
<1>10. ASSUME NEW d \in Deploy, Move(d) PROVE UInv'
  <2>1. host(d) \in Host
    BY <1>10, TaskTypes, HostAssumption DEF TInv, TasksHaveRequests, Move
  <2>2. CASE At(d, "tell_error") /\ UNCHANGED <<installed, upload>>
    BY <1>6, <1>10, <2>2 DEF Move
  <2>3. ASSUME NEW x \in BOOLEAN, upload[host(d)] # None,
               installed' = [installed EXCEPT ![host(d)] =
                               [file |-> upload[host(d)], by |-> d, executable |-> x]],
               upload' = [upload EXCEPT ![host(d)] = None],
               At(d, "tell_error") \/ At(d, "service")
        PROVE  UInv'
    BY <1>10, <2>1, <2>3, MoveKeeps
  <2> QED
    BY <1>10, <2>2, <2>3 DEF Move
<1>11. CASE Restart
  <2>1. /\ \A d \in Deploy : at'[d] \in {"idle", "done"} /\ (at[d] \notin Before => at'[d] \notin Before)
        /\ failed' = {} /\ torn' = {}
        /\ UNCHANGED <<tmp, upload, installed, whole, writer, crossed>>
    BY <1>11 DEF Restart, Forget, TInv, TypeOK, Before
  <2>2. \A f \in File : Uploaded(f) => f[2] = "upload" /\ at'[f[1]] \notin Before
    BY <2>1 DEF Uploaded, File
  <2>3. NamesApart'
    <3>1. \A h \in Host : upload[h] # None => upload[h] \in File
      BY DEF UInv, NamesApart, Uploaded
    <3>2. \A h \in Host : installed[h] # None => installed[h].file \in File
      BY DEF UInv, NamesApart, Uploaded
    <3> QED
      BY <2>1, <2>2, <3>1, <3>2 DEF UInv, NamesApart, Uploaded
  <2>4. CopiesApart' /\ Alone' /\ FailedStages'
    BY <2>1 DEF CopiesApart, Alone, Holds, InTmp, OnHost, FailedStages
  <2>5. InstalledWhole' /\ \A d \in Deploy \ crossed' : Progress(d)'
    BY <2>1 DEF UInv, InstalledWhole, Progress
  <2> QED
    BY <2>3, <2>4, <2>5 DEF UInv
<1> QED
  BY <1>1, <1>2, <1>3, <1>4, <1>5, <1>7, <1>8, <1>9, <1>10, <1>11, <1>12, WriteTmpKeeps, WrittenKeeps,
     ScpStartKeeps, ScpFailsKeeps, ScpEndKeeps, CleanKeeps
     DEF Next, Request, TaskStep

(* A deployment that no other crossed finds the file it wrote, complete,   *)
(* and installs a complete binary (see UploadsAreWhole): while it has the  *)
(* files nobody else has one of them, and a file that has become a binary  *)
(* is nobody's upload, so that no later deployment truncates it.           *)
THEOREM OwnFilesAreWhole == Spec => []UploadsAreWhole
<1>1. Init => UInv
  <2> SUFFICES ASSUME Init PROVE UInv
    OBVIOUS
  <2>1. /\ \A d \in Deploy : at[d] = "idle"
        /\ \A h \in Host : upload[h] = None /\ installed[h] = None
        /\ tmp = None /\ torn = {} /\ failed = {}
    BY DEF Init
  <2>2. NamesApart /\ FailedStages /\ InstalledWhole
    BY <2>1 DEF NamesApart, FailedStages, InstalledWhole
  <2>3. CopiesApart /\ Alone /\ \A d \in Deploy : Progress(d)
    BY <2>1 DEF CopiesApart, Alone, Holds, Progress, InTmp, OnHost
  <2> QED
    BY <2>2, <2>3 DEF UInv
<1>2. UInv => UploadsAreWhole
  BY DEF UInv, InstalledWhole, Progress, UploadsAreWhole, Starts
<1> QED
  BY <1>1, <1>2, Types, UploadsNext, PTL DEF Spec

=============================================================================
