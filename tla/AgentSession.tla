----------------------------- MODULE AgentSession -----------------------------
(***************************************************************************)
(* The agent on a tmux host, as a browser in QUIC mode uses it: the        *)
(* browser opens a WebTransport stream to the agent, and the agent runs a  *)
(* tmux control client of its own for every such session.                  *)
(*                                                                         *)
(* One task per session (handle_session) reads the browser's messages off  *)
(* the stream, writes tmux commands to the stdin of the control client,    *)
(* and forwards the output of the panes the browser subscribed to.         *)
(* Another task keeps the control client running: it exits now and then    *)
(* and is started again.                                                   *)
(*                                                                         *)
(* The browser resizes a pane to its terminal, and counts on the program   *)
(* in the pane to redraw: tmux signals it (SIGWINCH) when its size         *)
(* changes, and the agent asks for a signal when the size stays the same.  *)
(* An output is modelled by the size it was drawn at.                      *)
(*                                                                         *)
(* A message travels as a frame of two parts, so that reads can end inside *)
(* one.  External: tmux, the programs in its panes, and the network.       *)
(***************************************************************************)
EXTENDS Naturals, Sequences, SequencesExt

CONSTANTS
  Session,   (* connections of browsers to the agent                       *)
  Pane,      (* panes of the tmux session                                  *)
  Size,      (* sizes of a terminal, (cols, rows)                          *)
  NoPane, NoSize,
  FirstAlone,  (* the network delivers the first frame by itself           *)
  MaxSent,     (* bound: messages of one connection                        *)
  MaxExits     (* bound: exits of one session's control client             *)

ASSUME PaneAssumption == IsFiniteSet(Pane) /\ NoPane \notin Pane
ASSUME SizeAssumption == Size # {} /\ NoSize \notin Size
ASSUME FirstAloneAssumption == FirstAlone \in BOOLEAN
ASSUME BoundAssumption == MaxSent \in Nat /\ MaxExits \in Nat

VARIABLES
  (* the browser *)
  mounted,    (* panes that have a terminal                                *)
  term,       (* the size of that terminal                                 *)
  gone,       (* the connection is closed or lost                          *)
  sent,       (* number of messages sent                                   *)
  wire,       (* what the agent has not read yet                           *)
  shown,      (* the size of the last output the agent forwarded           *)
  (* the task of a session *)
  at,         (* "new", "first" (message), (message) "loop" or "ended"     *)
  stream_buf, (* read and not yet handled                                  *)
  handled,    (* number of the last message handled                        *)
  subscribed_panes,
  pane_dimensions,
  output_rx,  (* output read by the control client and not yet forwarded   *)
  (* the control client of a session *)
  ctrl,       (* "none" was started yet; "spawned", "attached" or "exited" *)
  stdin,      (* commands written and not executed yet                     *)
  exits,      (* number of times it exited                                 *)
  (* tmux *)
  tmux_size,  (* size of a pane                                            *)
  signalled,  (* the program in the pane has yet to redraw                 *)
  (* history *)
  disturbed   (* a resize of this session was lost, or a session resized   *)
              (* the pane to another size                                  *)

browser == <<mounted, term, gone, sent, shown>>
task == <<at, stream_buf, handled, subscribed_panes, pane_dimensions>>
control == <<ctrl, exits>>
tmux == <<tmux_size, signalled>>
vars == <<browser, wire, task, output_rx, control, stdin, tmux, disturbed>>

(* The messages of the browser.                                            *)
SessConnect == [t |-> "sess_connect", pane |-> NoPane, size |-> NoSize]
Sub(p) == [t |-> "sub", pane |-> p, size |-> NoSize]
Unsub(p) == [t |-> "unsub", pane |-> p, size |-> NoSize]
I(p) == [t |-> "i", pane |-> p, size |-> NoSize]
R(p, z) == [t |-> "r", pane |-> p, size |-> z]

Message == {SessConnect} \cup {Sub(p) : p \in Pane} \cup {Unsub(p) : p \in Pane}
           \cup {I(p) : p \in Pane} \cup {R(p, z) : p \in Pane, z \in Size}
Unit == [msg : Message, n : 1 .. MaxSent, part : {1, 2}]
Keys(p) == [op |-> "send-keys", pane |-> p, size |-> NoSize, force |-> FALSE]
Command == {Keys(p) : p \in Pane}
           \cup [op : {"resize"}, pane : Pane, size : Size, force : BOOLEAN]
Output == [pane : Pane, size : Size]

TypeOK ==
  /\ mounted \in [Session -> SUBSET Pane]
  /\ term \in [Session -> [Pane -> Size \cup {NoSize}]]
  /\ gone \in [Session -> BOOLEAN]
  /\ sent \in [Session -> 0 .. MaxSent]
  /\ wire \in [Session -> Seq(Unit)]
  /\ shown \in [Session -> [Pane -> Size \cup {NoSize}]]
  /\ at \in [Session -> {"new", "first", "loop", "ended"}]
  /\ stream_buf \in [Session -> Seq(Unit)]
  /\ handled \in [Session -> 0 .. MaxSent]
  /\ subscribed_panes \in [Session -> SUBSET Pane]
  /\ pane_dimensions \in [Session -> [Pane -> Size \cup {NoSize}]]
  /\ output_rx \in [Session -> Seq(Output)]
  /\ ctrl \in [Session -> {"none", "spawned", "attached", "exited"}]
  /\ stdin \in [Session -> Seq(Command)]
  /\ exits \in [Session -> 0 .. MaxExits]
  /\ tmux_size \in [Pane -> Size]
  /\ signalled \in [Pane -> BOOLEAN]
  /\ disturbed \in [Session -> [Pane -> BOOLEAN]]

(* Nobody is connected; the panes have some size.                          *)
Init ==
  /\ mounted = [s \in Session |-> {}]
  /\ term = [s \in Session |-> [p \in Pane |-> NoSize]]
  /\ gone = [s \in Session |-> FALSE]
  /\ sent = [s \in Session |-> 0]
  /\ wire = [s \in Session |-> <<>>]
  /\ shown = [s \in Session |-> [p \in Pane |-> NoSize]]
  /\ at = [s \in Session |-> "new"]
  /\ stream_buf = [s \in Session |-> <<>>]
  /\ handled = [s \in Session |-> 0]
  /\ subscribed_panes = [s \in Session |-> {}]
  /\ pane_dimensions = [s \in Session |-> [p \in Pane |-> NoSize]]
  /\ output_rx = [s \in Session |-> <<>>]
  /\ ctrl = [s \in Session |-> "none"]
  /\ stdin = [s \in Session |-> <<>>]
  /\ exits = [s \in Session |-> 0]
  /\ tmux_size \in [Pane -> Size]
  /\ signalled = [p \in Pane |-> FALSE]
  /\ disturbed = [s \in Session |-> [p \in Pane |-> FALSE]]

-----------------------------------------------------------------------------
(* The browser.                                                            *)

(* The frames of a sequence of messages, the first of them number k + 1.   *)
Frames(msgs, k) ==
  [i \in 1 .. 2 * Len(msgs) |->
     [msg |-> msgs[(i + 1) \div 2], n |-> k + (i + 1) \div 2, part |-> 2 - (i % 2)]]

Send(s, msgs) ==
  /\ sent[s] + Len(msgs) <= MaxSent
  /\ sent' = [sent EXCEPT ![s] = @ + Len(msgs)]
  /\ wire' = [wire EXCEPT ![s] = @ \o Frames(msgs, sent[s])]

(* sess_connect, then subscribe and resize for every pane with a terminal. *)
Resubscribe(order, tm) ==
  [i \in 1 .. 2 * Len(order) + 1 |->
     IF i = 1 THEN SessConnect
     ELSE LET p == order[i \div 2] IN IF i % 2 = 0 THEN Sub(p) ELSE R(p, tm[p])]

(* connectQuicP2P, after the handshake: the messages are sent in one turn, *)
(* and nothing of the agent's is waited for.                               *)
Connect(s) ==
  /\ at[s] = "new"
  /\ \E panes \in SUBSET Pane : \E tm \in [panes -> Size], order \in SetToSeqs(panes) :
       /\ Send(s, Resubscribe(order, tm))
       /\ mounted' = [mounted EXCEPT ![s] = panes]
       /\ term' = [term EXCEPT ![s] =
            [p \in Pane |-> IF p \in panes THEN tm[p] ELSE NoSize]]
  /\ at' = [at EXCEPT ![s] = "first"]
  /\ UNCHANGED <<gone, shown, stream_buf, handled, subscribed_panes, pane_dimensions,
                 output_rx, control, stdin, tmux, disturbed>>

Connected(s) == at[s] \in {"first", "loop"} /\ ~gone[s]

(* A terminal is mounted, or moved to another view: both subscribe and     *)
(* resize whatever was sent before.                                        *)
Mount(s, p, z) ==
  /\ Connected(s)
  /\ Send(s, <<Sub(p), R(p, z)>>)
  /\ mounted' = [mounted EXCEPT ![s] = @ \cup {p}]
  /\ term' = [term EXCEPT ![s][p] = z]
  /\ UNCHANGED <<gone, shown, task, output_rx, control, stdin, tmux, disturbed>>

(* The window or a split is resized; the same size is not sent again.      *)
Resize(s, p, z) ==
  /\ Connected(s) /\ p \in mounted[s] /\ z # term[s][p]
  /\ Send(s, <<R(p, z)>>)
  /\ term' = [term EXCEPT ![s][p] = z]
  /\ UNCHANGED <<mounted, gone, shown, task, output_rx, control, stdin, tmux, disturbed>>

Unmount(s, p) ==
  /\ Connected(s) /\ p \in mounted[s]
  /\ Send(s, <<Unsub(p)>>)
  /\ mounted' = [mounted EXCEPT ![s] = @ \ {p}]
  /\ UNCHANGED <<term, gone, shown, task, output_rx, control, stdin, tmux, disturbed>>

Type(s, p) ==
  /\ Connected(s) /\ p \in mounted[s]
  /\ Send(s, <<I(p)>>)
  /\ UNCHANGED <<mounted, term, gone, shown, task, output_rx, control, stdin, tmux, disturbed>>

(* The browser closes the connection, or the network loses it.             *)
Close(s) ==
  /\ Connected(s)
  /\ gone' = [gone EXCEPT ![s] = TRUE]
  /\ UNCHANGED <<mounted, term, sent, shown, wire, task, output_rx, control, stdin, tmux,
                 disturbed>>

-----------------------------------------------------------------------------
(* The task of a session reads the stream.                                 *)

(* Mutant of HasFrame: a frame is only seen with a byte of the next one.   *)
HasFrameLate(buf) == Len(buf) > 2 /\ buf[1].part = 1

(* A frame is complete.  A buffer that starts inside a frame has none: its *)
(* first bytes, taken for a length, announce more than is ever sent.       *)
HasFrame(buf) == Len(buf) >= 2 /\ buf[1].part = 1

(* How much one read may return: anything that has arrived.                *)
Chunk(s) == 1 .. Len(wire[s])
FirstChunk(s) == {k \in Chunk(s) : FirstAlone => Len(stream_buf[s]) + k <= 2}

Received(s, k) == stream_buf[s] \o SubSeq(wire[s], 1, k)
Take(s, k) == wire' = [wire EXCEPT ![s] = SubSeq(@, k + 1, Len(@))]

(* handle_session returns: the stream and the channel are dropped, and the *)
(* control task is aborted.                                                *)
Leave(s) ==
  /\ at' = [at EXCEPT ![s] = "ended"]
  /\ stream_buf' = [stream_buf EXCEPT ![s] = <<>>]
  /\ wire' = [wire EXCEPT ![s] = <<>>]
  /\ output_rx' = [output_rx EXCEPT ![s] = <<>>]

FirstRead(s) ==
  /\ at[s] = "first"
  /\ \E k \in FirstChunk(s) :
       /\ ~HasFrame(Received(s, k))
       /\ stream_buf' = [stream_buf EXCEPT ![s] = Received(s, k)]
       /\ Take(s, k)
  /\ UNCHANGED <<browser, at, handled, subscribed_panes, pane_dimensions, output_rx, control,
                 stdin, tmux, disturbed>>

(* The first message names the tmux session.  The main loop starts with an *)
(* empty buffer: what was read with the first message is dropped.          *)
FirstMessage(s) ==
  /\ at[s] = "first"
  /\ \E k \in FirstChunk(s) : HasFrame(Received(s, k)) /\ Take(s, k)
  /\ handled' = [handled EXCEPT ![s] = 1]
  /\ stream_buf' = [stream_buf EXCEPT ![s] = <<>>]
  /\ at' = [at EXCEPT ![s] = "loop"]
  /\ UNCHANGED <<browser, subscribed_panes, pane_dimensions, output_rx, control, stdin, tmux,
                 disturbed>>

(* The tmux session is not there and cannot be created.                    *)
FirstMessageFails(s) ==
  /\ at[s] = "first"
  /\ \E k \in FirstChunk(s) : HasFrame(Received(s, k))
  /\ Leave(s)
  /\ UNCHANGED <<handled, browser, subscribed_panes, pane_dimensions, control, stdin, tmux,
                 disturbed>>

Read(s) ==
  /\ at[s] = "loop" /\ ~HasFrame(stream_buf[s])
  /\ \E k \in Chunk(s) :
       /\ stream_buf' = [stream_buf EXCEPT ![s] = Received(s, k)]
       /\ Take(s, k)
  /\ UNCHANGED <<browser, at, handled, subscribed_panes, pane_dimensions, output_rx, control,
                 stdin, tmux, disturbed>>

-----------------------------------------------------------------------------
(* The task handles what it read (handle_message).                         *)

(* Mutant of NextMessage: the buffer is cleared with the message.          *)
NextMessageClears(s, type) ==
  /\ at[s] = "loop" /\ HasFrame(stream_buf[s])
  /\ stream_buf[s][1].msg.t = type
  /\ stream_buf' = [stream_buf EXCEPT ![s] = <<>>]
  /\ handled' = [handled EXCEPT ![s] = stream_buf[s][1].n]
  /\ UNCHANGED <<browser, wire, at, output_rx, control, tmux>>

NextMessage(s, type) ==
  /\ at[s] = "loop" /\ HasFrame(stream_buf[s])
  /\ stream_buf[s][1].msg.t = type
  /\ stream_buf' = [stream_buf EXCEPT ![s] = SubSeq(@, 3, Len(@))]
  /\ handled' = [handled EXCEPT ![s] = stream_buf[s][1].n]
  /\ UNCHANGED <<browser, wire, at, output_rx, control, tmux>>

HandleSub(s) ==
  /\ NextMessage(s, "sub")
  /\ subscribed_panes' = [subscribed_panes EXCEPT ![s] = @ \cup {stream_buf[s][1].msg.pane}]
  /\ UNCHANGED <<pane_dimensions, stdin, disturbed>>

HandleUnsub(s) ==
  /\ NextMessage(s, "unsub")
  /\ subscribed_panes' = [subscribed_panes EXCEPT ![s] = @ \ {stream_buf[s][1].msg.pane}]
  /\ UNCHANGED <<pane_dimensions, stdin, disturbed>>

(* ctrl_stdin is the pipe to a control client that runs, None before the   *)
(* first, and the closed pipe of the last one between two: the command is  *)
(* lost then, with a warning.                                              *)
Writable(s) == ctrl[s] \in {"spawned", "attached"}
Write(s, cmd) == stdin' = IF Writable(s) THEN [stdin EXCEPT ![s] = Append(@, cmd)] ELSE stdin

HandleInput(s) ==
  /\ NextMessage(s, "i")
  /\ Write(s, Keys(stream_buf[s][1].msg.pane))
  /\ UNCHANGED <<subscribed_panes, pane_dimensions, disturbed>>

(* Mutant of DimsChanged: the new dimensions are recorded before they are  *)
(* compared.                                                               *)
NeverChanged(s, p, z) == FALSE

DimsChanged(s, p, z) == pane_dimensions[s][p] # z

(* Mutant of HandleResize: a pane is resized to the size recorded before.  *)
HandleResizeOld(s) ==
  /\ NextMessage(s, "r")
  /\ LET p == stream_buf[s][1].msg.pane
         z == stream_buf[s][1].msg.size
     IN  /\ pane_dimensions' = [pane_dimensions EXCEPT ![s][p] = z]
         /\ Write(s, [op |-> "resize", pane |-> p, size |-> pane_dimensions[s][p],
                      force |-> ~DimsChanged(s, p, z)])
  /\ UNCHANGED <<subscribed_panes, disturbed>>

(* The commands resize the window and the pane, and ask for a signal if    *)
(* the size is the one that was sent last.                                 *)
HandleResize(s) ==
  /\ NextMessage(s, "r")
  /\ LET p == stream_buf[s][1].msg.pane
         z == stream_buf[s][1].msg.size
     IN  /\ pane_dimensions' = [pane_dimensions EXCEPT ![s][p] = z]
         /\ Write(s, [op |-> "resize", pane |-> p, size |-> z, force |-> ~DimsChanged(s, p, z)])
         /\ disturbed' = [disturbed EXCEPT ![s][p] = @ \/ ~Writable(s)]
  /\ UNCHANGED subscribed_panes

-----------------------------------------------------------------------------
(* The task forwards output.  output_rx stands for the channel and the     *)
(* stdout of the control client before it, so the stream may be read       *)
(* although there is output, which select! would take first.               *)

Forwarding(s) == at[s] = "loop" /\ ~HasFrame(stream_buf[s]) /\ output_rx[s] # <<>>

(* Mutant of PopOutput: all output is taken, and the first forwarded.      *)
PopOutputs(s) == output_rx' = [output_rx EXCEPT ![s] = <<>>]

PopOutput(s) == output_rx' = [output_rx EXCEPT ![s] = Tail(@)]

ForwardOutput(s) ==
  /\ Forwarding(s) /\ ~gone[s]
  /\ LET o == Head(output_rx[s])
     IN  /\ o.pane \in subscribed_panes[s]
         /\ shown' = [shown EXCEPT ![s][o.pane] = o.size]
  /\ PopOutput(s)
  /\ UNCHANGED <<mounted, term, gone, sent, wire, task, control, stdin, tmux, disturbed>>

DiscardOutput(s) ==
  /\ Forwarding(s)
  /\ Head(output_rx[s]).pane \notin subscribed_panes[s]
  /\ PopOutput(s)
  /\ UNCHANGED <<browser, wire, task, control, stdin, tmux, disturbed>>

(* The browser is gone: the read fails, or the send of an output.          *)
End(s) ==
  /\ at[s] \in {"first", "loop"} /\ gone[s] /\ ~HasFrame(stream_buf[s])
  /\ Leave(s)
  /\ UNCHANGED <<browser, handled, subscribed_panes, pane_dimensions, control, stdin, tmux,
                 disturbed>>

-----------------------------------------------------------------------------
(* The control client of a session (run_control_mode).                     *)

(* Started for the first time, or 100 ms after it exited; ctrl_stdin is    *)
(* now its stdin.                                                          *)
Spawn(s) ==
  /\ at[s] = "loop" /\ ctrl[s] \in {"none", "exited"}
  /\ ctrl' = [ctrl EXCEPT ![s] = "spawned"]
  /\ UNCHANGED <<browser, wire, task, output_rx, exits, stdin, tmux, disturbed>>

(* It attaches to tmux, and gets the output from then on.                  *)
Attach(s) ==
  /\ ctrl[s] = "spawned"
  /\ ctrl' = [ctrl EXCEPT ![s] = "attached"]
  /\ UNCHANGED <<browser, wire, task, output_rx, exits, stdin, tmux, disturbed>>

(* It exits, and what it has not read from its stdin is lost.              *)
Exit(s) ==
  /\ Writable(s) /\ exits[s] < MaxExits
  /\ ctrl' = [ctrl EXCEPT ![s] = "exited"]
  /\ exits' = [exits EXCEPT ![s] = @ + 1]
  /\ disturbed' = [disturbed EXCEPT ![s] =
       [p \in Pane |-> @[p] \/ \E i \in DOMAIN stdin[s] :
                                stdin[s][i].op = "resize" /\ stdin[s][i].pane = p]]
  /\ stdin' = [stdin EXCEPT ![s] = <<>>]
  /\ UNCHANGED <<browser, wire, task, output_rx, tmux>>

-----------------------------------------------------------------------------
(* tmux.                                                                   *)

ExecuteKeys(s) ==
  /\ ctrl[s] = "attached" /\ stdin[s] # <<>> /\ Head(stdin[s]).op = "send-keys"
  /\ stdin' = [stdin EXCEPT ![s] = Tail(@)]
  /\ UNCHANGED <<browser, wire, task, output_rx, control, tmux, disturbed>>

(* The pane is resized; its program is signalled if that changes its size, *)
(* or if the agent asks for it.                                            *)
ExecuteResize(s) ==
  /\ ctrl[s] = "attached" /\ stdin[s] # <<>> /\ Head(stdin[s]).op = "resize"
  /\ LET c == Head(stdin[s])
         changes == c.size # tmux_size[c.pane]
     IN  /\ tmux_size' = [tmux_size EXCEPT ![c.pane] = c.size]
         /\ signalled' = [signalled EXCEPT ![c.pane] = @ \/ changes \/ c.force]
         /\ disturbed' = [d \in Session |-> [p \in Pane |->
              disturbed[d][p] \/ (d # s /\ p = c.pane /\ changes)]]
  /\ stdin' = [stdin EXCEPT ![s] = Tail(@)]
  /\ UNCHANGED <<browser, wire, task, output_rx, control>>

(* A signalled program redraws at the size its pane has by then; every     *)
(* control client that is attached gets the output.                        *)
Redraw(p) ==
  /\ signalled[p]
  /\ signalled' = [signalled EXCEPT ![p] = FALSE]
  /\ output_rx' = [s \in Session |->
       IF ctrl[s] = "attached" /\ at[s] = "loop"
       THEN Append(output_rx[s], [pane |-> p, size |-> tmux_size[p]])
       ELSE output_rx[s]]
  /\ UNCHANGED <<browser, wire, task, control, stdin, tmux_size, disturbed>>

-----------------------------------------------------------------------------
Browser(s) ==
  \/ Connect(s) \/ Close(s)
  \/ \E p \in Pane : Unmount(s, p) \/ Type(s, p)
  \/ \E p \in Pane, z \in Size : Mount(s, p, z) \/ Resize(s, p, z)

Receive(s) == FirstRead(s) \/ FirstMessage(s) \/ FirstMessageFails(s) \/ Read(s)
Handle(s) == HandleSub(s) \/ HandleUnsub(s) \/ HandleInput(s) \/ HandleResize(s)
Forward(s) == ForwardOutput(s) \/ DiscardOutput(s)
Execute(s) == ExecuteKeys(s) \/ ExecuteResize(s)

Next ==
  \/ \E s \in Session :
       \/ Browser(s) \/ Receive(s) \/ Handle(s) \/ Forward(s) \/ End(s)
       \/ Spawn(s) \/ Attach(s) \/ Exit(s) \/ Execute(s)
  \/ \E p \in Pane : Redraw(p)

Spec == Init /\ [][Next]_vars

(* The runtime polls both tasks of a session, QUIC delivers what is sent,  *)
(* and tmux and its programs do what they are told.  Browsers and exits    *)
(* are not fair.                                                           *)
FairSpec ==
  /\ Spec
  /\ \A s \in Session :
       /\ WF_vars(Receive(s)) /\ WF_vars(Handle(s)) /\ WF_vars(Forward(s)) /\ WF_vars(End(s))
       /\ WF_vars(Spawn(s)) /\ WF_vars(Attach(s)) /\ WF_vars(Execute(s))
  /\ \A p \in Pane : WF_vars(Redraw(p))

-----------------------------------------------------------------------------
(* The messages of the browser are handled in order, each once and none    *)
(* left out, wherever the reads cut the stream.                            *)
MessagesInOrder ==
  [][\A s \in Session : handled'[s] # handled[s] => handled'[s] = handled[s] + 1]_vars

(* The resizes of p that s has under way, by their place in the pipe; and  *)
(* the one just before another.                                            *)
Pending(s, p) ==
  {i \in DOMAIN stdin[s] : stdin[s][i].op = "resize" /\ stdin[s][i].pane = p}
Before(s, p, j, i) ==
  j < i /\ \A k \in Pending(s, p) : k <= j \/ i <= k

(* What the agent remembers of a pane is the size it has once the commands *)
(* under way are executed, and the agent asks for a signal only where tmux *)
(* sends none itself, so that no resize signals a program twice; unless a  *)
(* resize was lost or another session interfered.                          *)
DimensionsAreKnown ==
  \A s \in Session, p \in Pane : ~disturbed[s][p] /\ pane_dimensions[s][p] # NoSize =>
    /\ Pending(s, p) = {} => tmux_size[p] = pane_dimensions[s][p]
    /\ Pending(s, p) # {} => \E i \in Pending(s, p) :
         (\A j \in Pending(s, p) : j <= i) /\ stdin[s][i].size = pane_dimensions[s][p]
    /\ \A i \in Pending(s, p) : stdin[s][i].force =>
         \/ \E j \in Pending(s, p) : Before(s, p, j, i) /\ stdin[s][j].size = stdin[s][i].size
         \/ (\A j \in Pending(s, p) : i <= j) /\ tmux_size[p] = stdin[s][i].size

(* When all that the browser sent is handled, the agent forwards the panes *)
(* that have a terminal and no other, and the last size it gave each pane  *)
(* is that of its terminal: no earlier resize or subscription wins.  tmux  *)
(* has the pane at that size once the commands under way are executed,     *)
(* unless a resize was lost or another session interfered.                 *)
TerminalsAreFollowed ==
  \A s \in Session : at[s] = "loop" /\ stream_buf[s] = <<>> /\ wire[s] = <<>> =>
    /\ subscribed_panes[s] = mounted[s]
    /\ \A p \in mounted[s] :
         /\ pane_dimensions[s][p] = term[s][p]
         /\ ~disturbed[s][p] /\ Pending(s, p) = {} => tmux_size[p] = term[s][p]

(* Liveness: the agent tracks every pane that has a terminal in the        *)
(* browser, as the browser counts on when it resizes it.                   *)
PanesAreTracked ==
  \A s \in Session, p \in Pane :
    p \in mounted[s]
      ~> p \in subscribed_panes[s] \/ p \notin mounted[s] \/ gone[s] \/ at[s] = "ended"

(* Liveness: when a pane is signalled, a browser whose control client is   *)
(* attached and whose session tracks the pane is sent it at its new size.  *)
RedrawsArrive ==
  \A s \in Session, p \in Pane :
    signalled[p] /\ ctrl[s] = "attached" /\ p \in subscribed_panes[s]
      ~> \/ shown[s][p] = tmux_size[p]
         \/ ctrl[s] # "attached" \/ p \notin subscribed_panes[s] \/ gone[s]

=============================================================================
