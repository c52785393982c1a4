---------------------------- MODULE ControlReader ----------------------------
(***************************************************************************)
(* The control mode connection of one SSH session: how the output of tmux  *)
(* becomes pane output on the server.                                      *)
(*                                                                         *)
(* SshTransport::connect attaches a tmux control client over a channel and *)
(* spawns a reader task.  The task selects between two sources: chunks of  *)
(* bytes from the channel, which it cuts into lines and feeds to           *)
(* ControlModeParser, and the parser's events, which the parser sends to a *)
(* bounded mpsc queue and the same task takes out again.  A reconnect      *)
(* attaches a second client before it aborts the first reader.             *)
(*                                                                         *)
(* A line is cut into two halves, because a chunk may end anywhere.  What  *)
(* a line says is abstracted to its kind and, for %output, the number of   *)
(* the output.  External: tmux, which writes every output to all attached  *)
(* clients, and the SSH channel.                                           *)
(***************************************************************************)
EXTENDS Naturals, Sequences

CONSTANTS
  EventCap,    (* capacity of the event queue (512 in the code)            *)
  MaxOutputs,  (* bound: outputs that tmux produces                        *)
  MaxOthers,   (* bound: notifications and command replies of tmux         *)
  MaxChunk,    (* bound: halves of lines that arrive in one chunk          *)
  MaxAttach,   (* bound: times the transport connects                      *)
  ChannelMayClose  (* whether tmux or the network may end a channel        *)

ASSUME CapAssumption == EventCap \in Nat \ {0}
ASSUME BoundAssumption == /\ MaxOutputs \in Nat /\ MaxOthers \in Nat
                          /\ MaxChunk \in Nat \ {0} /\ MaxAttach \in Nat \ {0}
ASSUME CloseAssumption == ChannelMayClose \in BOOLEAN

VARIABLES
  produced,  (* number of outputs tmux has produced                        *)
  others,    (* number of other things tmux has written                    *)
  from,      (* outputs produced before the control client was attached    *)
  attached,  (* the control client is attached                             *)
  wire,      (* halves of lines written to the channel and not yet read    *)
  conn,      (* progress of SshTransport::connect                          *)
  current,   (* the last attachment                                        *)
  task,      (* where the reader task of an attachment is                  *)
  aborted,   (* abort() was called on its handle                           *)
  line_buf,  (* bytes read that do not make a line yet                     *)
  in_block,  (* the parser is inside a %begin/%end block                   *)
  events,    (* the mpsc queue                                             *)
  outputs    (* history: the outputs the reader has broadcast              *)

vars == <<produced, others, from, attached, wire, conn, current, task, aborted, line_buf,
          in_block, events, outputs>>
tmux == <<produced, others, from, attached, wire>>
link == <<conn, current>>
reader == <<line_buf, in_block, events, outputs>>

Attach == 1 .. MaxAttach
Output(n) == [kind |-> "output", n |-> n]
Other(k) == [kind |-> k, n |-> 0]
Line == [kind : {"output"}, n : 1 .. MaxOutputs]
        \cup [kind : {"begin", "text", "end", "error", "notify", "exit"}, n : {0}]
Halves(l) == <<[line |-> l, last |-> FALSE], [line |-> l, last |-> TRUE]>>
NoEvent == Other("none")

TypeOK ==
  /\ produced \in 0 .. MaxOutputs
  /\ others \in 0 .. MaxOthers
  /\ from \in [Attach -> 0 .. MaxOutputs]
  /\ attached \in [Attach -> BOOLEAN]
  /\ wire \in [Attach -> Seq([line : Line, last : BOOLEAN])]
  /\ conn \in {"down", "attached", "aborted", "closed", "up"}
  /\ current \in 0 .. MaxAttach
  /\ task \in [Attach -> {"none", "select", "lines", "send", "ended"}]
  /\ aborted \in [Attach -> BOOLEAN]
  /\ line_buf \in [Attach -> Seq([line : Line, last : BOOLEAN])]
  /\ in_block \in [Attach -> BOOLEAN]
  /\ events \in [Attach -> Seq(Line)]
  /\ outputs \in [Attach -> Seq(1 .. MaxOutputs)]

Init ==
  /\ produced = 0 /\ others = 0 /\ current = 0 /\ conn = "down"
  /\ from = [a \in Attach |-> 0]
  /\ attached = [a \in Attach |-> FALSE]
  /\ wire = [a \in Attach |-> <<>>]
  /\ task = [a \in Attach |-> "none"]
  /\ aborted = [a \in Attach |-> FALSE]
  /\ line_buf = [a \in Attach |-> <<>>]
  /\ in_block = [a \in Attach |-> FALSE]
  /\ events = [a \in Attach |-> <<>>]
  /\ outputs = [a \in Attach |-> <<>>]

-----------------------------------------------------------------------------
(* tmux and the channel (external).                                        *)

WriteToAll(l) ==
  wire' = [a \in Attach |-> IF attached[a] THEN wire[a] \o Halves(l) ELSE wire[a]]

TmuxOutput ==
  /\ produced < MaxOutputs
  /\ produced' = produced + 1
  /\ WriteToAll(Output(produced'))
  /\ UNCHANGED <<others, from, attached, link, task, aborted, reader>>

TmuxNotify ==
  /\ others < MaxOthers
  /\ others' = others + 1
  /\ WriteToAll(Other("notify"))
  /\ UNCHANGED <<produced, from, attached, link, task, aborted, reader>>

(* The reply to a command, to the client that sent it, in one piece.       *)
TmuxReply(a) ==
  /\ others < MaxOthers
  /\ attached[a]
  /\ others' = others + 1
  /\ \E closing \in {"end", "error"} :
       wire' = [wire EXCEPT ![a] = @ \o Halves(Other("begin")) \o Halves(Other("text"))
                                     \o Halves(Other(closing))]
  /\ UNCHANGED <<produced, from, attached, link, task, aborted, reader>>

(* tmux detaches the client, with or without saying so; or the link breaks. *)
ChannelEnds(a) ==
  /\ ChannelMayClose
  /\ attached[a]
  /\ attached' = [attached EXCEPT ![a] = FALSE]
  /\ \/ UNCHANGED wire
     \/ wire' = [wire EXCEPT ![a] = @ \o Halves(Other("exit"))]
  /\ UNCHANGED <<produced, others, from, link, task, aborted, reader>>

-----------------------------------------------------------------------------
(* The reader task.                                                        *)

HasLine(b) == Len(b) >= 2
DropLine(b) == SubSeq(b, 3, Len(b))

(* The while loop over the lines of line_buf, or back to the select!.      *)
Loop(b) == IF HasLine(b) THEN "lines" ELSE "select"

(* Some(ChannelMsg::Data): the chunk goes to line_buf.                     *)
ReadChunk(a) ==
  /\ task[a] = "select"
  /\ \E n \in 1 .. MaxChunk :
       /\ n <= Len(wire[a])
       /\ line_buf' = [line_buf EXCEPT ![a] = @ \o SubSeq(wire[a], 1, n)]
       /\ wire' = [wire EXCEPT ![a] = SubSeq(@, n + 1, Len(@))]
  /\ task' = [task EXCEPT ![a] = Loop(line_buf'[a])]
  /\ UNCHANGED <<produced, others, from, attached, link, aborted, in_block, events, outputs>>

(* Mutant of NextBlock: an error does not end a block.                     *)
NextBlockAfterEnd(blocked, l) ==
  IF blocked THEN l.kind # "end" ELSE l.kind = "begin"

(* feed_line: what the parser makes of a line.  Inside a block nothing but *)
(* its end is recognised.                                                  *)
Event(blocked, l) ==
  IF blocked
  THEN IF l.kind = "end" THEN l ELSE NoEvent
  ELSE IF l.kind \in {"output", "notify", "exit"} THEN l ELSE NoEvent

NextBlock(blocked, l) ==
  IF blocked THEN l.kind \notin {"end", "error"} ELSE l.kind = "begin"

(* Mutant of Emit: try_send, the event is dropped when the queue is full.   *)
EmitOrDrop(a, e) ==
  /\ events' = IF Len(events[a]) < EventCap
               THEN [events EXCEPT ![a] = Append(@, e)] ELSE events
  /\ task' = [task EXCEPT ![a] = Loop(line_buf'[a])]

(* emit: tx.send(event).await waits while the queue is full.  As only this *)
(* task takes events out, it waits until it is aborted.                    *)
Emit(a, e) ==
  \/ /\ Len(events[a]) < EventCap
     /\ events' = [events EXCEPT ![a] = Append(@, e)]
     /\ task' = [task EXCEPT ![a] = Loop(line_buf'[a])]
  \/ /\ Len(events[a]) = EventCap
     /\ task' = [task EXCEPT ![a] = "send"]
     /\ UNCHANGED events

(* The next complete line is fed to the parser, which sends its event.     *)
FeedLine(a) ==
  /\ task[a] = "lines"
  /\ line_buf' = [line_buf EXCEPT ![a] = DropLine(@)]
  /\ LET l == Head(line_buf[a]).line
         e == Event(in_block[a], l)
     IN  /\ in_block' = [in_block EXCEPT ![a] = NextBlock(@, l)]
         /\ \/ e # NoEvent /\ Emit(a, e)
            \/ /\ e = NoEvent
               /\ task' = [task EXCEPT ![a] = Loop(line_buf'[a])]
               /\ UNCHANGED events
  /\ UNCHANGED <<tmux, link, aborted, outputs>>

(* event_rx.recv(): an output is broadcast, %exit ends the task.           *)
HandleEvent(a) ==
  /\ task[a] = "select"
  /\ events[a] # <<>>
  /\ LET e == Head(events[a])
     IN  /\ outputs' = IF e.kind = "output" THEN [outputs EXCEPT ![a] = Append(@, e.n)] ELSE outputs
         /\ task' = IF e.kind = "exit" THEN [task EXCEPT ![a] = "ended"] ELSE task
  /\ events' = [events EXCEPT ![a] = Tail(@)]
  /\ UNCHANGED <<tmux, link, aborted, line_buf, in_block>>

(* Eof, Close or None: the task ends, whatever the queue still holds.      *)
ReadClose(a) ==
  /\ task[a] = "select"
  /\ ~attached[a] /\ wire[a] = <<>>
  /\ task' = [task EXCEPT ![a] = "ended"]
  /\ UNCHANGED <<tmux, link, aborted, reader>>

(* An aborted task is dropped when it next waits.                          *)
Cancelled(a) ==
  /\ aborted[a]
  /\ task[a] \in {"select", "send"}
  /\ task' = [task EXCEPT ![a] = "ended"]
  /\ UNCHANGED <<tmux, link, aborted, reader>>

-----------------------------------------------------------------------------
(* SshTransport::connect and disconnect, under the transport's mutex.      *)

(* tmux -CC attach is running on a new channel.  (A connect that fails     *)
(* before leaves everything as it was.)                                    *)
ConnectAttach ==
  /\ conn \in {"down", "up"}
  /\ current < MaxAttach
  /\ current' = current + 1
  /\ attached' = [attached EXCEPT ![current'] = TRUE]
  /\ from' = [from EXCEPT ![current'] = produced]
  /\ conn' = "attached"
  /\ UNCHANGED <<produced, others, wire, task, aborted, reader>>

(* Abort any existing reader task ...                                      *)
ConnectAbort ==
  /\ conn = "attached"
  /\ aborted' = [a \in Attach |-> aborted[a] \/ a < current]
  /\ conn' = "aborted"
  /\ UNCHANGED <<tmux, current, task, reader>>

(* ... close the old SSH handle ...                                        *)
ConnectClose ==
  /\ conn = "aborted"
  /\ attached' = [a \in Attach |-> attached[a] /\ a = current]
  /\ conn' = "closed"
  /\ UNCHANGED <<produced, others, from, wire, current, task, aborted, reader>>

(* ... and spawn the task that reads the new channel.                      *)
ConnectSpawn ==
  /\ conn = "closed"
  /\ task' = [task EXCEPT ![current] = "select"]
  /\ conn' = "up"
  /\ UNCHANGED <<tmux, current, aborted, reader>>

Disconnect ==
  /\ conn = "up"
  /\ aborted' = [aborted EXCEPT ![current] = TRUE]
  /\ attached' = [attached EXCEPT ![current] = FALSE]
  /\ conn' = "down"
  /\ UNCHANGED <<produced, others, from, wire, current, task, reader>>

-----------------------------------------------------------------------------
Reader(a) ==
  ReadChunk(a) \/ FeedLine(a) \/ HandleEvent(a) \/ ReadClose(a) \/ Cancelled(a)

Connector == ConnectAttach \/ ConnectAbort \/ ConnectClose \/ ConnectSpawn \/ Disconnect

Next ==
  \/ TmuxOutput \/ TmuxNotify
  \/ \E a \in Attach : TmuxReply(a) \/ ChannelEnds(a) \/ Reader(a)
  \/ Connector

Spec == Init /\ [][Next]_vars

(* The runtime polls the reader while it can make a step.  select! picks   *)
(* at random among the branches that are ready, and every step consumes    *)
(* something: no branch needs a fairness of its own.                       *)
FairSpec ==
  /\ Spec
  /\ \A a \in Attach : WF_vars(Reader(a))
  /\ WF_vars(ConnectAbort \/ ConnectClose \/ ConnectSpawn)

-----------------------------------------------------------------------------
Broadcast(n) == \E a \in Attach : \E i \in DOMAIN outputs[a] : outputs[a][i] = n

(* Liveness: "%output events parsed and broadcast per pane".  An output    *)
(* that tmux writes to an attached client is broadcast, unless the client  *)
(* is disconnected first.                                                  *)
OutputsArrive ==
  \A n \in 1 .. MaxOutputs :
    n <= produced /\ conn = "up" /\ from[current] < n ~> Broadcast(n) \/ conn # "up"

(* The task waits for room in a queue that only it empties.                *)
Blocked(a) == task[a] = "send"

(* What OutputsArrive leaves: an output is broadcast unless the task has   *)
(* blocked itself, the channel has ended, or the transport is disconnected *)
(* or reconnects (ssh_transport.rs:403-453).  No reply, block or cut of a  *)
(* chunk holds it back.                                                    *)
OutputsArriveOrBlocked ==
  \A n \in 1 .. MaxOutputs :
    n <= produced /\ conn = "up" /\ from[current] < n
      ~> Broadcast(n) \/ conn # "up" \/ ~attached[current] \/ Blocked(current)

-----------------------------------------------------------------------------
Stream(a) == INSTANCE OutputStream WITH first <- from[a], got <- outputs[a]

(* Refinement: every reader broadcasts the outputs tmux produces from its  *)
(* attachment on, each once, in order and without a gap, however the       *)
(* channel cuts them into chunks and whatever replies come in between, and *)
(* whatever the reader of the previous attachment was doing when it was    *)
(* aborted (ssh_transport.rs:375-453).                                     *)
ReadersStream ==
  /\ \A a \in Attach : Stream(a)!Init
  /\ [][\A a \in Attach : [Stream(a)!Next]_<<produced, from[a], outputs[a]>>]_<<produced, from, outputs>>

-----------------------------------------------------------------------------
(* The inductive invariant.                                                *)

(* What tmux has written and the parser has not been fed.                  *)
Unfed(a) == line_buf[a] \o wire[a]

(* The numbers of the outputs in a queue, and of those that halves of      *)
(* lines complete; 0 for what is no output.                                *)
EventNumbers(q) == [i \in DOMAIN q |-> q[i].n]
HalfNumbers(h) == [i \in DOMAIN h |-> IF h[i].last THEN h[i].line.n ELSE 0]

(* The numbers after low, up to high, in order.                            *)
Gapless(numbers, low, high) ==
  /\ low <= high
  /\ \A i \in DOMAIN numbers : numbers[i] # 0 => numbers[i] \in low + 1 .. high
  /\ \A i, j \in DOMAIN numbers :
       i < j /\ numbers[i] # 0 /\ numbers[j] # 0 => numbers[i] < numbers[j]
  /\ \A n \in low + 1 .. high : \E i \in DOMAIN numbers : numbers[i] = n

(* What the reader has broadcast, what waits in the queue and what it has  *)
(* yet to be fed follow one another, unless the event at hand was lost.    *)
InOrder(a) ==
  \E queued, written \in 0 .. produced :
    /\ Gapless(EventNumbers(events[a]), from[a] + Len(outputs[a]), queued)
    /\ Gapless(HalfNumbers(Unfed(a)), queued, written)
    /\ attached[a] => written = produced
NothingSkipped == \A a \in Attach : task[a] \notin {"send", "ended"} => InOrder(a)

(* The halves of a line follow one another, as do the lines of a reply.    *)
Whole(h) ==
  /\ h # <<>> => ~h[1].last
  /\ \A i \in DOMAIN h :
       /\ ~h[i].last => i < Len(h) /\ h[i + 1] = [line |-> h[i].line, last |-> TRUE]
       /\ h[i].last /\ i < Len(h) => ~h[i + 1].last
       /\ h[i].last /\ h[i].line.kind = "begin" => i < Len(h) /\ h[i + 1].line.kind = "text"
       /\ h[i].last /\ h[i].line.kind = "text" =>
            i < Len(h) /\ h[i + 1].line.kind \in {"end", "error"}

(* Lines are fed whole, and no output is inside a block.                   *)
FedWhole(a) ==
  /\ Whole(Unfed(a))
  /\ in_block[a] => Unfed(a) # <<>> /\ Unfed(a)[1].line.kind \in {"text", "end", "error"}
WholeBlocks == \A a \in Attach : FedWhole(a)

(* A channel that has yet to be attached has nothing.                      *)
Untouched(a) ==
  /\ ~attached[a] /\ task[a] = "none" /\ ~in_block[a]
  /\ wire[a] = <<>> /\ line_buf[a] = <<>> /\ events[a] = <<>> /\ outputs[a] = <<>>
YetToCome == \A a \in Attach : a > current => Untouched(a)

(* The task of an attachment is spawned when it has been attached.         *)
SpawnedLast == conn \in {"attached", "aborted", "closed"} =>
  current \in Attach /\ task[current] = "none"

=============================================================================
