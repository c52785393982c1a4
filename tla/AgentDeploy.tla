----------------------------- MODULE AgentDeploy -----------------------------
(***************************************************************************)
(* How the server installs its agent on a host, and hands it out.          *)
(*                                                                         *)
(* InstallAgent starts a task in the background (one per request, any      *)
(* number at once).  It connects over SSH, writes the binary to a file in  *)
(* /tmp, copies that to the host with scp, moves it into place, writes a   *)
(* systemd unit and waits for the agent to be active; then it registers    *)
(* the agent.  What it has to say goes through the asynchronous queue of   *)
(* the connection that asked.  The file in /tmp has one name per server    *)
(* process, and the upload one name per host, so tasks share them.  A file *)
(* is modelled by the deployment that created it (its inode): a name may   *)
(* be removed or moved while someone still reads or writes the file.       *)
(*                                                                         *)
(* TransportUpgrade gives a browser a token for the registered agent of a  *)
(* host.  The token is signed with the secret of the server's process, the *)
(* agent knows the secret that its unit had when it was started.           *)
(*                                                                         *)
(* External: SSH, scp, systemd and the agent's process.                    *)
(***************************************************************************)
EXTENDS Naturals, Sequences, FiniteSets

CONSTANTS
  WebSocket, WebTransport,  (* connections of browsers, by endpoint        *)
  Prompt,      (* the WebSockets whose client keeps reading                *)
  Host,
  Session,     (* sessions on SSH hosts                                    *)
  hostOf,      (* the host of a session                                    *)
  Encrypted,   (* sessions whose private key is an encrypted file          *)
  None,
  QueueCap,    (* capacity of the queue of asynchronous messages (64)      *)
  Attempts,    (* how often a task asks whether the agent is active (5)    *)
  MaxDeploys,  (* bound: deployments                                       *)
  MaxLives     (* bound: processes of the server, one after the other      *)

Conn == WebSocket \cup WebTransport
Deploy == 1 .. MaxDeploys

ASSUME ConnAssumption == /\ WebSocket \cap WebTransport = {} /\ None \notin Conn
                         /\ Prompt \subseteq WebSocket
ASSUME HostAssumption == hostOf \in [Session -> Host] /\ Encrypted \subseteq Session
ASSUME BoundAssumption == /\ {QueueCap, Attempts, MaxLives} \subseteq Nat \ {0}
                          /\ MaxDeploys \in Nat

VARIABLES
  (* connections *)
  open,       (* those that are open                                       *)
  async_rx,   (* statuses waiting in the queue of a connection             *)
  shown,      (* the last status of a host that was sent over it           *)
  tokens,     (* the answers to TransportUpgrade: host and process         *)
  (* the tasks *)
  at,         (* where the task of a deployment is                         *)
  task,       (* its request: the connection and the session               *)
  tries,      (* rounds of the loop that asks whether the agent is active  *)
  src, dst,   (* the files that it writes or copies                        *)
  failed,     (* its scp has failed                                        *)
  torn,       (* what its scp reads is not the whole binary                *)
  (* files *)
  tmp,        (* /tmp/oxmux-agent-<pid> of the server                      *)
  upload,     (* /tmp/oxmux-agent-upload of a host                         *)
  installed,  (* the agent's binary on a host, who moved it there, and     *)
              (* whether it may be executed                                *)
  whole,      (* files that are complete                                   *)
  writer,     (* who is writing a file: the last one to truncate it, or 0  *)
  key_file,   (* /tmp/oxmux-scp-key-<pid>, a decrypted key, is there       *)
  (* hosts *)
  unit,       (* the process of the server whose secret the unit has       *)
  running,    (* the process of the server whose secret the agent has      *)
  (* the server's memory *)
  life,       (* the number of its process                                 *)
  agents,     (* the registry: the hosts of registered agents              *)
  (* history *)
  crossed,    (* deployments that had a file in common with another        *)
  left,       (* the files in /tmp that were there when a task of theirs   *)
              (* took an early exit, or was killed: nobody removes them    *)
  kept        (* hosts where the agent already ran when its unit was       *)
              (* written, and has run since                                *)

conns == <<open, async_rx, shown, tokens>>
tasks == <<task, tries, src, dst, failed, torn>>
files == <<tmp, upload, installed, whole, writer, key_file>>
hosts == <<unit, running, kept>>
memory == <<life, agents>>
history == <<crossed, left>>
vars == <<conns, at, tasks, files, hosts, memory, history>>

Status == {"not_installed", "installing", "starting", "online", "error"}
ASSUME NoneAssumption == None \notin Status

(* Mutant of After: the task says "online" and then registers the agent.   *)
AfterToldFirst == [tell_installing |-> "ssh", tell_starting |-> "check",
                   check |-> "tell_online", tell_online |-> "register",
                   register |-> "done", tell_error |-> "done"]

(* What a task says at a stage, and where a stage leads.                   *)
Message == [tell_installing |-> "installing", tell_starting |-> "starting",
            tell_online |-> "online", tell_error |-> "error"]
After == [tell_installing |-> "ssh", tell_starting |-> "check", check |-> "register",
          register |-> "tell_online", tell_online |-> "done", tell_error |-> "done"]

InTmp == {"writing", "key", "scp", "copying", "clean"}
OnHost == {"copying", "clean", "move"}
Stage == {"idle", "ssh", "service", "done", "move"} \cup InTmp \cup DOMAIN After
File == Deploy \X {"tmp", "upload"}
ASSUME FileAssumption == None \notin File
At(d, s) == at' = [at EXCEPT ![d] = s]
host(d) == hostOf[task[d].session]
encrypted(d) == task[d].session \in Encrypted

TypeOK ==
  /\ open \subseteq Conn
  /\ async_rx \in [Conn -> Seq([host : Host, status : Status])]
  /\ \A c \in Conn : Len(async_rx[c]) <= QueueCap
  /\ shown \in [Conn -> [Host -> Status \cup {None}]]
  /\ tokens \subseteq Host \X (1 .. MaxLives)
  /\ at \in [Deploy -> Stage]
  /\ task \in [Deploy -> [conn : Conn, session : Session] \cup {None}]
  /\ tries \in [Deploy -> 0 .. Attempts]
  /\ src \in [Deploy -> File \cup {None}] /\ dst \in [Deploy -> File \cup {None}]
  /\ failed \subseteq Deploy /\ torn \subseteq Deploy
  /\ tmp \in File \cup {None}
  /\ upload \in [Host -> File \cup {None}]
  /\ installed \in [Host -> [file : File, by : Deploy, executable : BOOLEAN] \cup {None}]
  /\ whole \subseteq File /\ writer \in [File -> 0 .. MaxDeploys]
  /\ key_file \in BOOLEAN
  /\ unit \in [Host -> 0 .. MaxLives] /\ running \in [Host -> 0 .. MaxLives]
  /\ life \in 1 .. MaxLives
  /\ agents \subseteq Host /\ kept \subseteq Host
  /\ crossed \subseteq Deploy
  /\ left \subseteq {"binary", "key"}

Init ==
  /\ open = Conn
  /\ async_rx = [c \in Conn |-> <<>>]
  /\ shown = [c \in Conn |-> [h \in Host |-> None]]
  /\ tokens = {}
  /\ at = [d \in Deploy |-> "idle"]
  /\ task = [d \in Deploy |-> None]
  /\ tries = [d \in Deploy |-> 0]
  /\ src = [d \in Deploy |-> None] /\ dst = [d \in Deploy |-> None]
  /\ failed = {} /\ torn = {}
  /\ tmp = None
  /\ upload = [h \in Host |-> None]
  /\ installed = [h \in Host |-> None]
  /\ whole = {} /\ writer = [f \in File |-> 0]
  /\ key_file = FALSE
  /\ unit = [h \in Host |-> 0] /\ running = [h \in Host |-> 0]
  /\ life = 1
  /\ agents = {} /\ kept = {}
  /\ crossed = {}
  /\ left = {}

-----------------------------------------------------------------------------
(* Requests.  A reply is sent before anything else of the connection's     *)
(* task, so it is shown at once.                                           *)

Show(c, h, status) == shown' = [shown EXCEPT ![c][h] = status]

(* AgentStatusRequest: whether the registry has an agent of the host.      *)
StatusRequest(c, h) ==
  /\ c \in open
  /\ Show(c, h, IF h \in agents THEN "online" ELSE "not_installed")
  /\ UNCHANGED <<open, async_rx, tokens, at, tasks, files, hosts, memory, history>>

(* InstallAgent: start the task, answer "installing".                      *)
Install(c, s) ==
  /\ c \in open
  /\ \E d \in Deploy :
       /\ at[d] = "idle" /\ \A e \in 1 .. d - 1 : at[e] # "idle"
       /\ At(d, "tell_installing")
       /\ task' = [task EXCEPT ![d] = [conn |-> c, session |-> s]]
  /\ Show(c, hostOf[s], "installing")
  /\ UNCHANGED <<open, async_rx, tokens, tries, src, dst, failed, torn,
                 files, hosts, memory, history>>

(* TransportUpgrade of a session on the host, if there is an agent: a      *)
(* token, signed with the secret of this process.                          *)
Upgrade(c, h) ==
  /\ c \in open /\ h \in agents
  /\ tokens' = tokens \cup {<<h, life>>}
  /\ UNCHANGED <<open, async_rx, shown, at, tasks, files, hosts, memory, history>>

(* The loop of a WebSocket forwards what is in the queue; the loop of      *)
(* WebTransport never reads it.                                            *)
Drain(c) ==
  /\ c \in open \cap WebSocket /\ async_rx[c] # <<>>
  /\ Show(c, Head(async_rx[c]).host, Head(async_rx[c]).status)
  /\ async_rx' = [async_rx EXCEPT ![c] = Tail(@)]
  /\ UNCHANGED <<open, tokens, at, tasks, files, hosts, memory, history>>

(* The task of the connection ends, and with it the receiver.              *)
Close(c) ==
  /\ c \in open
  /\ open' = open \ {c}
  /\ async_rx' = [async_rx EXCEPT ![c] = <<>>]
  /\ shown' = [shown EXCEPT ![c] = [h \in Host |-> None]]
  /\ UNCHANGED <<tokens, at, tasks, files, hosts, memory, history>>

-----------------------------------------------------------------------------
(* The task of a deployment.                                               *)

(* What a task knows is gone when it ends.                                 *)
Forget(D) ==
  /\ task' = [d \in Deploy |-> IF d \in D THEN None ELSE task[d]]
  /\ tries' = [d \in Deploy |-> IF d \in D THEN 0 ELSE tries[d]]
  /\ src' = [d \in Deploy |-> IF d \in D THEN None ELSE src[d]]
  /\ dst' = [d \in Deploy |-> IF d \in D THEN None ELSE dst[d]]
  /\ failed' = failed \ D
  /\ torn' = torn \ D

(* async_tx.send(..).await: waits for room, unless the receiver is gone.   *)
Tell(d) ==
  /\ at[d] \in DOMAIN Message
  /\ LET c == task[d].conn IN
       \/ /\ c \in open /\ Len(async_rx[c]) < QueueCap
          /\ async_rx' = [async_rx EXCEPT ![c] =
                            Append(@, [host |-> host(d), status |-> Message[at[d]]])]
       \/ c \notin open /\ UNCHANGED async_rx
  /\ At(d, After[at[d]])
  /\ Forget({e \in {d} : After[at[d]] = "done"})
  /\ UNCHANGED <<open, shown, tokens, files, hosts, memory, history>>

(* Connecting, authenticating, finding or reading the binary may fail, and *)
(* so may creating the file in /tmp.                                       *)
SshFails(d) ==
  /\ at[d] = "ssh"
  /\ At(d, "tell_error")
  /\ UNCHANGED <<conns, tasks, files, hosts, memory, history>>

Truncate(f, d) == whole' = whole \ {f} /\ writer' = [writer EXCEPT ![f] = d]

(* The file is complete, unless somebody truncated it since.               *)
Complete(f, d) ==
  /\ whole' = whole \cup {g \in {f} : writer[g] = d}
  /\ writer' = [g \in File |-> IF g = f /\ writer[g] = d THEN 0 ELSE writer[g]]

(* Mutant of WriteTmp: scp does not wait for the write.                    *)
WriteTmpInBackground(d) ==
  /\ at[d] = "ssh"
  /\ tmp' = <<d, "tmp">>
  /\ Truncate(<<d, "tmp">>, d)
  /\ src' = [src EXCEPT ![d] = <<d, "tmp">>]
  /\ At(d, "scp")
  /\ UNCHANGED <<conns, task, tries, dst, failed, torn, upload, installed, key_file,
                 hosts, memory, history>>

(* Otherwise tokio::fs::write creates or truncates the file, ...           *)
WriteTmp(d) ==
  /\ at[d] = "ssh"
  /\ LET f == IF tmp = None THEN <<d, "tmp">> ELSE tmp
         others == {e \in Deploy : at[e] \in InTmp} IN
       /\ tmp' = f
       /\ Truncate(f, d)
       /\ src' = [src EXCEPT ![d] = f]
       /\ torn' = torn \cup {e \in others : at[e] = "copying" /\ src[e] = f}
       /\ crossed' = crossed \cup others \cup {e \in {d} : others # {}}
  /\ At(d, "writing")
  /\ UNCHANGED <<conns, task, tries, dst, failed, upload, installed, key_file,
                 hosts, memory, left>>

(* ... and has written it all.                                             *)
Written(d) ==
  /\ at[d] = "writing"
  /\ Complete(src[d], d)
  /\ At(d, IF encrypted(d) THEN "key" ELSE "scp")
  /\ UNCHANGED <<conns, tasks, tmp, upload, installed, key_file, hosts, memory, history>>

(* What a task that leaves early, with no clean-up, leaves in /tmp.        *)
Leave(d) ==
  /\ left' = left \cup {x \in {"binary"} : tmp # None}
                  \cup {x \in {"key"} : encrypted(d) /\ key_file}
  /\ At(d, "tell_error")

(* The write fails part-way (a full disk): the task leaves by its `?`, and *)
(* a part of the binary stays in /tmp.                                     *)
WriteFails(d) ==
  /\ at[d] = "writing"
  /\ writer' = [writer EXCEPT ![src[d]] = IF @ = d THEN 0 ELSE @]
  /\ Leave(d)
  /\ UNCHANGED <<conns, tasks, tmp, upload, installed, whole, key_file, hosts, memory, crossed>>

(* An encrypted key is decrypted to a file for scp.                        *)
ConvertKey(d) ==
  /\ at[d] = "key"
  /\ key_file' = TRUE
  /\ At(d, "scp")
  /\ UNCHANGED <<conns, tasks, tmp, upload, installed, whole, writer, hosts, memory, history>>

(* openssl or scp cannot be run, or openssl fails: the task leaves and     *)
(* removes nothing.                                                        *)
CannotRun(d) ==
  /\ at[d] \in {"key", "scp"}
  /\ Leave(d)
  /\ UNCHANGED <<conns, tasks, files, hosts, memory, crossed>>

(* scp opens both files.                                                   *)
ScpStart(d) ==
  /\ at[d] = "scp"
  /\ tmp # None /\ (encrypted(d) => key_file)
  /\ LET h == host(d)
         f == IF upload[h] = None THEN <<d, "upload">> ELSE upload[h]
         others == {e \in Deploy \ {d} : at[e] \in OnHost /\ host(e) = h} IN
       /\ src' = [src EXCEPT ![d] = tmp]
       /\ torn' = IF tmp \in whole THEN torn ELSE torn \cup {d}
       /\ upload' = [upload EXCEPT ![h] = f]
       /\ dst' = [dst EXCEPT ![d] = f]
       /\ Truncate(f, d)
       /\ crossed' = crossed \cup others \cup {e \in {d} : others # {}}
  /\ At(d, "copying")
  /\ UNCHANGED <<conns, task, tries, failed, tmp, installed, key_file,
                 hosts, memory, left>>

(* It fails without the binary or the key, or later.                       *)
ScpFails(d) ==
  /\ \/ at[d] = "scp" /\ (tmp = None \/ (encrypted(d) /\ ~key_file))
     \/ at[d] = "copying"
  /\ failed' = failed \cup {d}
  /\ At(d, "clean")
  /\ UNCHANGED <<conns, task, tries, src, dst, torn, files, hosts, memory, history>>

(* scp is done: the file on the host is complete if what it read was.      *)
ScpEnd(d) ==
  /\ at[d] = "copying"
  /\ \/ d \notin torn /\ Complete(dst[d], d)
     \/ d \in torn /\ whole' = whole \ {dst[d]} /\ UNCHANGED writer
  /\ At(d, "clean")
  /\ UNCHANGED <<conns, tasks, tmp, upload, installed, key_file, hosts, memory, history>>

(* Mutant of Clean: the result of scp first.                               *)
CleanIfCopied(d) ==
  /\ at[d] = "clean"
  /\ IF d \in failed THEN At(d, "tell_error") /\ UNCHANGED files
     ELSE /\ tmp' = None /\ key_file' = FALSE /\ At(d, "move")
          /\ UNCHANGED <<upload, installed, whole, writer>>
  /\ left' = {}
  /\ UNCHANGED <<conns, tasks, hosts, memory, crossed>>

(* Remove the files in /tmp, whoever wrote them, and only then look at the *)
(* result of scp.                                                          *)
Clean(d) ==
  /\ at[d] = "clean"
  /\ tmp' = None
  /\ whole' = whole \ {tmp}
  /\ writer' = [f \in File |-> IF f = tmp THEN 0 ELSE writer[f]]
  /\ key_file' = (key_file /\ ~encrypted(d))
  /\ left' = left \ ({"binary"} \cup {x \in {"key"} : encrypted(d)})
  /\ At(d, IF d \in failed THEN "tell_error" ELSE "move")
  /\ UNCHANGED <<conns, tasks, upload, installed, hosts, memory, crossed>>

(* mv and chmod on the host, with or without sudo.  mv may succeed and     *)
(* chmod fail, or the connection before it has said so: the binary is in   *)
(* place and the task has an error.                                        *)
Move(d) ==
  /\ at[d] = "move"
  /\ LET h == host(d) IN
       \/ \E executable \in BOOLEAN :
            /\ upload[h] # None
            /\ installed' = [installed EXCEPT ![h] =
                  [file |-> upload[h], by |-> d, executable |-> executable]]
            /\ upload' = [upload EXCEPT ![h] = None]
            /\ At(d, "tell_error") \/ (executable /\ At(d, "service"))
       \/ At(d, "tell_error") /\ UNCHANGED <<installed, upload>>
  /\ UNCHANGED <<conns, tasks, tmp, whole, writer, key_file, hosts, memory, history>>

(* An agent starts if its binary is complete and may be executed.          *)
Starts(h) == installed[h] # None /\ installed[h].file \in whole /\ installed[h].executable

(* Write the unit; enable --now starts the agent unless it runs.  The      *)
(* command may fail before or after the unit is written.                   *)
Service(d) ==
  /\ at[d] = "service"
  /\ LET h == host(d) IN
       \/ /\ unit' = [unit EXCEPT ![h] = life]
          /\ \/ /\ running' = [running EXCEPT ![h] = IF @ = 0 /\ Starts(h) THEN life ELSE @]
                /\ At(d, "tell_starting")
             \/ At(d, "tell_error") /\ UNCHANGED running
          /\ kept' = IF running[h] \notin {0, life} THEN kept \cup {h} ELSE kept
       \/ At(d, "tell_error") /\ UNCHANGED <<unit, running, kept>>
  /\ UNCHANGED <<conns, tasks, files, memory, history>>

(* Mutant of Check: the loop goes on until the agent is active.            *)
CheckUntilActive(d) ==
  /\ at[d] = "check"
  /\ running[host(d)] # 0 /\ At(d, After["check"])
  /\ UNCHANGED <<conns, tasks, files, hosts, memory, history>>

(* One round of the loop after the service was started: the agent is       *)
(* active, or not (or the command fails), and there may be rounds left.    *)
Check(d) ==
  /\ at[d] = "check"
  /\ \/ running[host(d)] # 0 /\ At(d, After["check"]) /\ UNCHANGED tries
     \/ /\ tries' = [tries EXCEPT ![d] = @ + 1]
        /\ At(d, IF tries[d] + 1 < Attempts THEN "check" ELSE "tell_error")
  /\ UNCHANGED <<conns, task, src, dst, failed, torn, files, hosts, memory, history>>

Register(d) ==
  /\ at[d] = "register"
  /\ agents' = agents \cup {host(d)}
  /\ At(d, After["register"])
  /\ UNCHANGED <<conns, tasks, files, hosts, life, history>>

-----------------------------------------------------------------------------
(* systemd: an agent exits, and is started again (Restart=always).         *)
AgentExits(h) ==
  /\ running[h] # 0
  /\ running' = [running EXCEPT ![h] = 0]
  /\ kept' = kept \ {h}
  /\ UNCHANGED <<conns, at, tasks, files, unit, memory, history>>

AgentStarts(h) ==
  /\ running[h] = 0 /\ unit[h] # 0 /\ Starts(h)
  /\ running' = [running EXCEPT ![h] = unit[h]]
  /\ UNCHANGED <<conns, at, tasks, files, unit, kept, memory, history>>

(* Mutant of Restart: the registry survives.                               *)
RestartWithRegistry ==
  /\ life < MaxLives
  /\ life' = life + 1
  /\ at' = [d \in Deploy |-> IF at[d] = "idle" THEN "idle" ELSE "done"]
  /\ Forget(Deploy)
  /\ left' = left \cup {x \in {"binary"} : tmp # None} \cup {x \in {"key"} : key_file}
  /\ open' = Conn
  /\ async_rx' = [c \in Conn |-> <<>>]
  /\ shown' = [c \in Conn |-> [h \in Host |-> None]]
  /\ UNCHANGED <<tokens, files, hosts, agents, crossed>>

(* The server ends and is started again, with another secret perhaps: its  *)
(* tasks are gone, files stay, and nothing in memory survives.  Browsers   *)
(* connect again.                                                          *)
Restart ==
  /\ life < MaxLives
  /\ life' = life + 1
  /\ agents' = {}
  /\ at' = [d \in Deploy |-> IF at[d] = "idle" THEN "idle" ELSE "done"]
  /\ Forget(Deploy)
  /\ left' = left \cup {x \in {"binary"} : tmp # None} \cup {x \in {"key"} : key_file}
  /\ open' = Conn
  /\ async_rx' = [c \in Conn |-> <<>>]
  /\ shown' = [c \in Conn |-> [h \in Host |-> None]]
  /\ UNCHANGED <<tokens, files, hosts, crossed>>

Request(c) ==
  \/ \E h \in Host : StatusRequest(c, h) \/ Upgrade(c, h)
  \/ \E s \in Session : Install(c, s)
  \/ Close(c)

TaskStep(d) ==
  \/ Tell(d) \/ SshFails(d) \/ WriteTmp(d) \/ Written(d) \/ WriteFails(d)
  \/ ConvertKey(d) \/ CannotRun(d) \/ ScpStart(d) \/ ScpFails(d) \/ ScpEnd(d) \/ Clean(d)
  \/ Move(d) \/ Service(d) \/ Check(d) \/ Register(d)

Next ==
  \/ \E c \in Conn : Request(c) \/ Drain(c)
  \/ \E d \in Deploy : TaskStep(d)
  \/ \E h \in Host : AgentExits(h) \/ AgentStarts(h)
  \/ Restart

(* The runtime polls every task, SSH and scp end, and prompt clients read: *)
(* the task of a WebSocket waits in tx.send for a client that does not,    *)
(* and drains nothing meanwhile.                                           *)
Fairness ==
  /\ \A d \in Deploy : WF_vars(TaskStep(d))
  /\ \A c \in Prompt : WF_vars(Drain(c))

Spec == Init /\ [][Next]_vars /\ Fairness

-----------------------------------------------------------------------------
(* Files that share a name: a deployment that no other crossed finds the   *)
(* file it wrote, complete, and installs a complete binary                 *)
(* (deployer.rs:41, 92-93: the names do not tell deployments apart).       *)
UploadsAreWhole ==
  /\ \A d \in Deploy \ crossed : at[d] = "scp" => tmp \in whole
  /\ \A h \in Host : installed[h] # None /\ installed[h].by \notin crossed =>
                       installed[h].file \in whole

(* What a deployment writes to /tmp, the decrypted key above all, is gone  *)
(* when no deployment needs it, whatever scp returned and however many     *)
(* there were (deployer.rs:97-106).  What is there all the same was there  *)
(* when a task left early (the write or openssl failed, scp could not be   *)
(* run) or the server ended, and no deployment has cleaned up since.       *)
TempFilesRemoved ==
  (\A d \in Deploy : at[d] \notin InTmp) =>
    /\ tmp # None => "binary" \in left
    /\ key_file => "key" \in left

(* Upgrades lead to agents that take the token: an agent that is up knows  *)
(* the secret of the process that signed it, unless it has been running    *)
(* since before its unit was written (deployer.rs:157 does not restart it, *)
(* and the registry, registry.rs:21, forgets agents with the process).     *)
UpgradesAreAccepted ==
  \A h \in Host : <<h, life>> \in tokens => running[h] \in {0, life} \/ h \in kept

(* A browser that was told that an agent is online is not told later, over *)
(* the same connection, that there is none: replies and the messages of    *)
(* the task travel separately, and the registry is updated before either   *)
(* can say "online" (session_handler.rs:348-369).                          *)
OnlineIsNotTakenBack ==
  [][\A c \in Conn, h \in Host :
       shown[c][h] = "online" => shown'[c][h] # "not_installed"]_vars

(* Every installation ends, however often it asks for the agent and        *)
(* whatever fails on the way.  The exception is one that waits for room    *)
(* for ever, in the queue of an open connection that nobody empties: one   *)
(* of WebTransport (webtransport.rs:101), or of a client that does not     *)
(* read.                                                                   *)
WaitsForRoom(d) == /\ at[d] \in DOMAIN Message /\ task[d].conn \in open \ Prompt
                   /\ Len(async_rx[task[d].conn]) = QueueCap
InstallsFinish ==
  \A d \in Deploy : [](at[d] \notin {"idle", "done"} => <>(at[d] = "done" \/ []WaitsForRoom(d)))

=============================================================================
