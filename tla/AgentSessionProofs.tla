------------------------- MODULE AgentSessionProofs -------------------------
(***************************************************************************)
(* What AgentSession promises for any number of sessions, panes and sizes. *)
(***************************************************************************)
EXTENDS AgentSession, FiniteSetTheorems, SequenceTheorems, TLAPS

-----------------------------------------------------------------------------
(* Sequences.                                                              *)

LEMMA SubSeqType ==
  ASSUME NEW S, NEW seq \in Seq(S), NEW m \in Nat \ {0}, NEW n \in 0 .. Len(seq)
  PROVE  SubSeq(seq, m, n) \in Seq(S)
  OBVIOUS

LEMMA OrderType ==
  ASSUME NEW S \in SUBSET Pane, NEW order \in SetToSeqs(S)
  PROVE  order \in Seq(S)
<1>1. IsFiniteSet(S)
  BY PaneAssumption, FS_Subset
<1>2. Cardinality(S) \in Nat
  BY <1>1, FS_CardinalityType
<1>3. order \in [1 .. Cardinality(S) -> S]
  BY DEF SetToSeqs
<1> QED
  BY <1>2, <1>3

(* What is sent after the handshake are messages.                          *)
LEMMA ResubscribeType ==
  ASSUME NEW panes \in SUBSET Pane, NEW tm \in [panes -> Size], NEW order \in SetToSeqs(panes)
  PROVE  Resubscribe(order, tm) \in Seq(Message)
<1>1. order \in Seq(panes)
  BY OrderType
<1>2. 2 * Len(order) + 1 \in Nat
  BY <1>1
<1>3. ASSUME NEW i \in 1 .. 2 * Len(order) + 1, i # 1
      PROVE  Sub(order[i \div 2]) \in Message /\ R(order[i \div 2], tm[order[i \div 2]]) \in Message
  <2>1. i \div 2 \in 1 .. Len(order)
    BY <1>1, <1>3
  <2>2. order[i \div 2] \in panes
    BY <1>1, <2>1
  <2> QED
    BY <2>2 DEF Sub, R, Message
<1>4. SessConnect \in Message
  BY DEF SessConnect, Message
<1>5. \A i \in 1 .. 2 * Len(order) + 1 : Resubscribe(order, tm)[i] \in Message
  BY <1>3, <1>4 DEF Resubscribe
<1>6. DOMAIN Resubscribe(order, tm) = 1 .. 2 * Len(order) + 1
  BY DEF Resubscribe
<1>7. Resubscribe(order, tm) = [i \in 1 .. 2 * Len(order) + 1 |-> Resubscribe(order, tm)[i]]
  BY DEF Resubscribe
<1> QED
  BY <1>2, <1>5, <1>7

(* Frames of messages are units with the numbers that follow k.            *)
LEMMA FramesType ==
  ASSUME NEW msgs \in Seq(Message), NEW k \in Nat, k + Len(msgs) <= MaxSent
  PROVE  Frames(msgs, k) \in Seq(Unit)
<1>1. 2 * Len(msgs) \in Nat
  OBVIOUS
<1> DEFINE F(i) == [msg |-> msgs[(i + 1) \div 2], n |-> k + (i + 1) \div 2, part |-> 2 - (i % 2)]
<1>2. ASSUME NEW i \in 1 .. 2 * Len(msgs) PROVE F(i) \in Unit
  <2>1. (i + 1) \div 2 \in 1 .. Len(msgs)
    OBVIOUS
  <2>2. msgs[(i + 1) \div 2] \in Message
    BY <2>1
  <2>3. k + (i + 1) \div 2 \in 1 .. MaxSent
    BY <2>1, BoundAssumption
  <2>4. 2 - (i % 2) \in {1, 2}
    OBVIOUS
  <2> QED
    BY <2>2, <2>3, <2>4 DEF Unit
<1> HIDE DEF F
<1>3. [i \in 1 .. 2 * Len(msgs) |-> F(i)] \in Seq(Unit)
  BY <1>1, <1>2
<1> QED
  BY <1>3 DEF Frames, F

-----------------------------------------------------------------------------
(* Type correctness.                                                       *)

LEMMA InitTypes == Init => TypeOK
BY BoundAssumption DEF Init, TypeOK

(* Send extends the stream by the frames of its messages.                  *)
LEMMA SendTypes ==
  ASSUME TypeOK, NEW s \in Session, NEW msgs \in Seq(Message), Send(s, msgs)
  PROVE  sent' \in [Session -> 0 .. MaxSent] /\ wire' \in [Session -> Seq(Unit)]
<1>1. Frames(msgs, sent[s]) \in Seq(Unit)
  BY FramesType DEF Send, TypeOK
<1>2. wire[s] \o Frames(msgs, sent[s]) \in Seq(Unit)
  BY <1>1 DEF TypeOK
<1>3. sent[s] + Len(msgs) \in 0 .. MaxSent
  BY BoundAssumption DEF Send, TypeOK
<1> QED
  BY <1>2, <1>3 DEF Send, TypeOK

LEMMA BrowserTypes ==
  ASSUME TypeOK, NEW s \in Session, Browser(s)
  PROVE  TypeOK'
<1>1. CASE Connect(s)
  <2>1. PICK panes \in SUBSET Pane : \E tm \in [panes -> Size], order \in SetToSeqs(panes) :
          /\ Send(s, Resubscribe(order, tm))
          /\ mounted' = [mounted EXCEPT ![s] = panes]
          /\ term' = [term EXCEPT ![s] = [p \in Pane |-> IF p \in panes THEN tm[p] ELSE NoSize]]
    BY <1>1 DEF Connect
  <2>2. PICK tm \in [panes -> Size], order \in SetToSeqs(panes) :
          /\ Send(s, Resubscribe(order, tm))
          /\ mounted' = [mounted EXCEPT ![s] = panes]
          /\ term' = [term EXCEPT ![s] = [p \in Pane |-> IF p \in panes THEN tm[p] ELSE NoSize]]
    BY <2>1
  <2>3. sent' \in [Session -> 0 .. MaxSent] /\ wire' \in [Session -> Seq(Unit)]
    BY <2>2, ResubscribeType, SendTypes
  <2>4. [p \in Pane |-> IF p \in panes THEN tm[p] ELSE NoSize] \in [Pane -> Size \cup {NoSize}]
    OBVIOUS
  <2> QED
    BY <1>1, <2>2, <2>3, <2>4 DEF Connect, TypeOK, control, tmux
<1>2. CASE Close(s)
  BY <1>2 DEF Close, TypeOK, task, control, tmux
<1>3. ASSUME NEW p \in Pane, Unmount(s, p) PROVE TypeOK'
  <2>1. <<Unsub(p)>> \in Seq(Message)
    BY DEF Unsub, Message
  <2>2. sent' \in [Session -> 0 .. MaxSent] /\ wire' \in [Session -> Seq(Unit)]
    BY <1>3, <2>1, SendTypes DEF Unmount
  <2> QED
    BY <1>3, <2>2 DEF Unmount, TypeOK, task, control, tmux
<1>4. ASSUME NEW p \in Pane, Type(s, p) PROVE TypeOK'
  <2>1. <<I(p)>> \in Seq(Message)
    BY DEF I, Message
  <2>2. sent' \in [Session -> 0 .. MaxSent] /\ wire' \in [Session -> Seq(Unit)]
    BY <1>4, <2>1, SendTypes DEF Type
  <2> QED
    BY <1>4, <2>2 DEF Type, TypeOK, task, control, tmux
<1>5. ASSUME NEW p \in Pane, NEW z \in Size, Mount(s, p, z) PROVE TypeOK'
  <2>1. <<Sub(p), R(p, z)>> \in Seq(Message)
    BY DEF Sub, R, Message
  <2>2. sent' \in [Session -> 0 .. MaxSent] /\ wire' \in [Session -> Seq(Unit)]
    BY <1>5, <2>1, SendTypes DEF Mount
  <2> QED
    BY <1>5, <2>2 DEF Mount, TypeOK, task, control, tmux
<1>6. ASSUME NEW p \in Pane, NEW z \in Size, Resize(s, p, z) PROVE TypeOK'
  <2>1. <<R(p, z)>> \in Seq(Message)
    BY DEF R, Message
  <2>2. sent' \in [Session -> 0 .. MaxSent] /\ wire' \in [Session -> Seq(Unit)]
    BY <1>6, <2>1, SendTypes DEF Resize
  <2> QED
    BY <1>6, <2>2 DEF Resize, TypeOK, task, control, tmux
<1> QED
  BY <1>1, <1>2, <1>3, <1>4, <1>5, <1>6 DEF Browser

(* What a read takes and leaves.                                           *)
LEMMA ReadTypes ==
  ASSUME TypeOK, NEW s \in Session, NEW k \in Chunk(s)
  PROVE  /\ Received(s, k) \in Seq(Unit)
         /\ SubSeq(wire[s], k + 1, Len(wire[s])) \in Seq(Unit)
<1>1. wire[s] \in Seq(Unit) /\ stream_buf[s] \in Seq(Unit)
  BY DEF TypeOK
<1>2. k \in 1 .. Len(wire[s])
  BY DEF Chunk
<1>3. SubSeq(wire[s], 1, k) \in Seq(Unit)
  BY <1>1, <1>2
<1>4. SubSeq(wire[s], k + 1, Len(wire[s])) \in Seq(Unit)
  BY <1>1, <1>2
<1> QED
  BY <1>1, <1>3, <1>4 DEF Received

LEMMA ReceiveTypes ==
  ASSUME TypeOK, NEW s \in Session, Receive(s)
  PROVE  TypeOK'
<1>1. CASE FirstRead(s)
  <2>1. PICK k \in FirstChunk(s) :
          /\ stream_buf' = [stream_buf EXCEPT ![s] = Received(s, k)]
          /\ Take(s, k)
    BY <1>1 DEF FirstRead
  <2>2. k \in Chunk(s)
    BY DEF FirstChunk
  <2> QED
    BY <1>1, <2>1, <2>2, ReadTypes DEF FirstRead, Take, TypeOK, browser, control, tmux
<1>2. CASE FirstMessage(s)
  <2>1. PICK k \in FirstChunk(s) : HasFrame(Received(s, k)) /\ Take(s, k)
    BY <1>2 DEF FirstMessage
  <2>2. k \in Chunk(s)
    BY DEF FirstChunk
  <2>3. Received(s, k) \in Seq(Unit) /\ Len(Received(s, k)) >= 2
    BY <2>1, <2>2, ReadTypes DEF HasFrame
  <2>4. Received(s, k)[1] \in Unit
    BY <2>3
  <2>5. 1 \in 0 .. MaxSent
    BY <2>4, BoundAssumption DEF Unit
  <2>6. wire' \in [Session -> Seq(Unit)]
    BY <2>1, <2>2, ReadTypes DEF Take, TypeOK
  <2>7. handled' \in [Session -> 0 .. MaxSent]
    BY <1>2, <2>5 DEF FirstMessage, TypeOK
  <2> QED
    BY <1>2, <2>6, <2>7 DEF FirstMessage, TypeOK, browser, control, tmux
<1>3. CASE FirstMessageFails(s)
  BY <1>3 DEF FirstMessageFails, Leave, TypeOK, browser, control, tmux
<1>4. CASE Read(s)
  <2>1. PICK k \in Chunk(s) :
          /\ stream_buf' = [stream_buf EXCEPT ![s] = Received(s, k)]
          /\ Take(s, k)
    BY <1>4 DEF Read
  <2> QED
    BY <1>4, <2>1, ReadTypes DEF Read, Take, TypeOK, browser, control, tmux
<1> QED
  BY <1>1, <1>2, <1>3, <1>4 DEF Receive

(* The message that is handled, by its type.                               *)
LEMMA MessageTypes ==
  ASSUME TypeOK, NEW s \in Session, NEW type, NextMessage(s, type)
  PROVE  /\ stream_buf' \in [Session -> Seq(Unit)]
         /\ handled' \in [Session -> 0 .. MaxSent]
         /\ stream_buf[s][1].msg \in Message
         /\ type \in {"sub", "unsub", "i", "r"} => stream_buf[s][1].msg.pane \in Pane
         /\ type = "r" => stream_buf[s][1].msg.size \in Size
<1>1. stream_buf[s] \in Seq(Unit) /\ Len(stream_buf[s]) >= 2
  BY DEF NextMessage, HasFrame, TypeOK
<1>2. stream_buf[s][1] \in Unit
  BY <1>1
<1>3. SubSeq(stream_buf[s], 3, Len(stream_buf[s])) \in Seq(Unit)
  BY <1>1
<1>4. stream_buf[s][1].msg \in Message /\ stream_buf[s][1].n \in 0 .. MaxSent
  BY <1>2, BoundAssumption DEF Unit
<1>5. stream_buf[s][1].msg.t = type
  BY DEF NextMessage
<1>6. type \in {"sub", "unsub", "i", "r"} => stream_buf[s][1].msg.pane \in Pane
  BY <1>4, <1>5 DEF Message, SessConnect, Sub, Unsub, I, R
<1>7. type = "r" => stream_buf[s][1].msg.size \in Size
  BY <1>4, <1>5 DEF Message, SessConnect, Sub, Unsub, I, R
<1> QED
  BY <1>3, <1>4, <1>6, <1>7 DEF NextMessage, TypeOK

LEMMA WriteTypes ==
  ASSUME TypeOK, NEW s \in Session, NEW cmd \in Command, Write(s, cmd)
  PROVE  stdin' \in [Session -> Seq(Command)]
<1>1. Append(stdin[s], cmd) \in Seq(Command)
  BY DEF TypeOK
<1> QED
  BY <1>1 DEF Write, TypeOK

LEMMA HandleTypes ==
  ASSUME TypeOK, NEW s \in Session, Handle(s)
  PROVE  TypeOK'
<1>1. CASE HandleSub(s)
  <2>1. NextMessage(s, "sub")
    BY <1>1 DEF HandleSub
  <2>2. stream_buf' \in [Session -> Seq(Unit)] /\ handled' \in [Session -> 0 .. MaxSent]
    BY <2>1, MessageTypes
  <2>3. subscribed_panes' \in [Session -> SUBSET Pane]
    BY <1>1, <2>1, MessageTypes DEF HandleSub, TypeOK
  <2> QED
    BY <1>1, <2>1, <2>2, <2>3 DEF HandleSub, NextMessage, TypeOK, browser, control, tmux
<1>2. CASE HandleUnsub(s)
  <2>1. NextMessage(s, "unsub")
    BY <1>2 DEF HandleUnsub
  <2>2. stream_buf' \in [Session -> Seq(Unit)] /\ handled' \in [Session -> 0 .. MaxSent]
    BY <2>1, MessageTypes
  <2>3. subscribed_panes' \in [Session -> SUBSET Pane]
    BY <1>2, <2>1, MessageTypes DEF HandleUnsub, TypeOK
  <2> QED
    BY <1>2, <2>1, <2>2, <2>3 DEF HandleUnsub, NextMessage, TypeOK, browser, control, tmux
<1>3. CASE HandleInput(s)
  <2>1. NextMessage(s, "i")
    BY <1>3 DEF HandleInput
  <2>2. Keys(stream_buf[s][1].msg.pane) \in Command
    BY <2>1, MessageTypes DEF Keys, Command
  <2>3. stdin' \in [Session -> Seq(Command)]
    BY <1>3, <2>2, WriteTypes DEF HandleInput
  <2> QED
    BY <1>3, <2>1, <2>3, MessageTypes DEF HandleInput, NextMessage, TypeOK, browser, control, tmux
<1>4. CASE HandleResize(s)
  <2> DEFINE p == stream_buf[s][1].msg.pane
             z == stream_buf[s][1].msg.size
             cmd == [op |-> "resize", pane |-> p, size |-> z, force |-> ~DimsChanged(s, p, z)]
  <2>1. NextMessage(s, "r")
    BY <1>4 DEF HandleResize
  <2>2. p \in Pane /\ z \in Size
    BY <2>1, MessageTypes
  <2>3. cmd \in Command
    BY <2>2 DEF Command
  <2>4. Write(s, cmd)
    BY <1>4 DEF HandleResize
  <2>5. stdin' \in [Session -> Seq(Command)]
    BY <2>3, <2>4, WriteTypes
  <2>6. pane_dimensions' \in [Session -> [Pane -> Size \cup {NoSize}]]
    BY <1>4, <2>2 DEF HandleResize, TypeOK
  <2>7. disturbed' \in [Session -> [Pane -> BOOLEAN]]
    <3>1. disturbed' = [disturbed EXCEPT ![s][p] = @ \/ ~Writable(s)]
      BY <1>4 DEF HandleResize
    <3> QED
      BY <2>2, <3>1 DEF TypeOK
  <2> QED
    BY <1>4, <2>1, <2>5, <2>6, <2>7, MessageTypes
      DEF HandleResize, NextMessage, TypeOK, browser, control, tmux
<1> QED
  BY <1>1, <1>2, <1>3, <1>4 DEF Handle

LEMMA ForwardTypes ==
  ASSUME TypeOK, NEW s \in Session, Forward(s) \/ End(s)
  PROVE  TypeOK'
<1>1. ASSUME Forwarding(s) PROVE Head(output_rx[s]) \in Output /\ Tail(output_rx[s]) \in Seq(Output)
  BY <1>1 DEF Forwarding, TypeOK
<1>2. CASE ForwardOutput(s)
  BY <1>1, <1>2 DEF ForwardOutput, PopOutput, TypeOK, Output, task, control, tmux
<1>3. CASE DiscardOutput(s)
  BY <1>1, <1>3 DEF DiscardOutput, PopOutput, TypeOK, browser, task, control, tmux
<1>4. CASE End(s)
  BY <1>4 DEF End, Leave, TypeOK, browser, control, tmux
<1> QED
  BY <1>2, <1>3, <1>4 DEF Forward

LEMMA ControlTypes ==
  ASSUME TypeOK, NEW s \in Session, Spawn(s) \/ Attach(s) \/ Exit(s)
  PROVE  TypeOK'
<1>1. CASE Spawn(s)
  BY <1>1 DEF Spawn, TypeOK, browser, task, tmux
<1>2. CASE Attach(s)
  BY <1>2 DEF Attach, TypeOK, browser, task, tmux
<1>3. CASE Exit(s)
  <2>1. exits[s] + 1 \in 0 .. MaxExits
    BY <1>3, BoundAssumption DEF Exit, TypeOK
  <2>2. disturbed' \in [Session -> [Pane -> BOOLEAN]]
    BY <1>3 DEF Exit, TypeOK
  <2> QED
    BY <1>3, <2>1, <2>2 DEF Exit, TypeOK, browser, task, tmux
<1> QED
  BY <1>1, <1>2, <1>3

LEMMA TmuxTypes ==
  ASSUME TypeOK
  PROVE  /\ \A s \in Session : Execute(s) => TypeOK'
         /\ \A p \in Pane : Redraw(p) => TypeOK'
<1>1. ASSUME NEW s \in Session, stdin[s] # <<>>
      PROVE  Head(stdin[s]) \in Command /\ Tail(stdin[s]) \in Seq(Command)
  BY <1>1 DEF TypeOK
<1>2. ASSUME NEW s \in Session, ExecuteKeys(s) PROVE TypeOK'
  BY <1>1, <1>2 DEF ExecuteKeys, TypeOK, browser, task, control, tmux
<1>3. ASSUME NEW s \in Session, ExecuteResize(s) PROVE TypeOK'
  <2> DEFINE c == Head(stdin[s])
  <2>1. c.pane \in Pane /\ c.size \in Size /\ c.force \in BOOLEAN
    <3>1. c \in Command /\ c.op = "resize"
      BY <1>1, <1>3 DEF ExecuteResize
    <3> QED
      BY <3>1 DEF Command, Keys
  <2>2. tmux_size' \in [Pane -> Size] /\ stdin' \in [Session -> Seq(Command)]
    BY <1>1, <1>3, <2>1 DEF ExecuteResize, TypeOK
  <2>3. signalled' \in [Pane -> BOOLEAN]
    <3>1. signalled' = [signalled EXCEPT ![c.pane] = @ \/ c.size # tmux_size[c.pane] \/ c.force]
      BY <1>3 DEF ExecuteResize
    <3> QED
      BY <2>1, <3>1 DEF TypeOK
  <2>4. disturbed' \in [Session -> [Pane -> BOOLEAN]]
    BY <1>3 DEF ExecuteResize, TypeOK
  <2> QED
    BY <1>3, <2>2, <2>3, <2>4 DEF ExecuteResize, TypeOK, browser, task, control
<1>4. ASSUME NEW p \in Pane, Redraw(p) PROVE TypeOK'
  <2>1. [pane |-> p, size |-> tmux_size[p]] \in Output
    BY DEF TypeOK, Output
  <2>2. output_rx' \in [Session -> Seq(Output)]
    BY <1>4, <2>1 DEF Redraw, TypeOK
  <2> QED
    BY <1>4, <2>2 DEF Redraw, TypeOK, browser, task, control
<1> QED
  BY <1>2, <1>3, <1>4 DEF Execute

LEMMA NextTypes == TypeOK /\ [Next]_vars => TypeOK'
<1> SUFFICES ASSUME TypeOK, [Next]_vars PROVE TypeOK'
  OBVIOUS
<1>1. CASE UNCHANGED vars
  BY <1>1 DEF vars, TypeOK, browser, task, control, tmux
<1>2. CASE Next
  BY <1>2, BrowserTypes, ReceiveTypes, HandleTypes, ForwardTypes, ControlTypes, TmuxTypes DEF Next
<1> QED
  BY <1>1, <1>2

(* Every variable of the browsers, the sessions and tmux keeps its type,   *)
(* for any number of sessions, panes and sizes.                            *)
THEOREM TypeCorrect == Spec => []TypeOK
BY InitTypes, NextTypes, PTL DEF Spec

-----------------------------------------------------------------------------
(* The size of a pane.  The invariant speaks of a pipe q, the size z that  *)
(* the pane has and the size d that the agent remembers.                   *)

PendingIn(q, p) == {i \in DOMAIN q : q[i].op = "resize" /\ q[i].pane = p}
BeforeIn(q, p, j, i) == j < i /\ \A k \in PendingIn(q, p) : k <= j \/ i <= k

LastIs(q, p, d) ==
  PendingIn(q, p) # {} =>
    \E i \in PendingIn(q, p) : (\A j \in PendingIn(q, p) : j <= i) /\ q[i].size = d
NoneLeft(q, p, z, d) == PendingIn(q, p) = {} => z = d
NoDoubleSignal(q, p, z) ==
  \A i \in PendingIn(q, p) : q[i].force =>
    \/ \E j \in PendingIn(q, p) : BeforeIn(q, p, j, i) /\ q[j].size = q[i].size
    \/ (\A j \in PendingIn(q, p) : i <= j) /\ z = q[i].size
Agree(q, p, z, d) == LastIs(q, p, d) /\ NoneLeft(q, p, z, d) /\ NoDoubleSignal(q, p, z)

(* DimensionsAreKnown is not inductive by itself: a first resize that is   *)
(* recorded must not meet an older one in the pipe.                        *)
PendingRecorded ==
  \A s \in Session, p \in Pane : PendingIn(stdin[s], p) # {} => pane_dimensions[s][p] # NoSize
Known ==
  \A s \in Session, p \in Pane : ~disturbed[s][p] /\ pane_dimensions[s][p] # NoSize =>
    Agree(stdin[s], p, tmux_size[p], pane_dimensions[s][p])
IInv == TypeOK /\ PendingRecorded /\ Known

LEMMA KnownIsKnown == Known <=> DimensionsAreKnown
BY DEF Known, DimensionsAreKnown, Agree, LastIs, NoneLeft, NoDoubleSignal, PendingIn, BeforeIn,
       Pending, Before

(* Appending a command that does not resize p.                             *)
LEMMA AppendOther ==
  ASSUME NEW q \in Seq(Command), NEW c \in Command, NEW p, NEW z, NEW d,
         ~(c.op = "resize" /\ c.pane = p)
  PROVE  /\ PendingIn(Append(q, c), p) = PendingIn(q, p)
         /\ Agree(q, p, z, d) => Agree(Append(q, c), p, z, d)
<1>1. /\ DOMAIN Append(q, c) = 1 .. Len(q) + 1
      /\ \A i \in 1 .. Len(q) : Append(q, c)[i] = q[i]
      /\ Append(q, c)[Len(q) + 1] = c
  OBVIOUS
<1>2. PendingIn(Append(q, c), p) = PendingIn(q, p)
  BY <1>1 DEF PendingIn
<1>3. \A i \in PendingIn(q, p) : Append(q, c)[i] = q[i]
  BY <1>1 DEF PendingIn
<1> QED
  BY <1>2, <1>3 DEF Agree, LastIs, NoneLeft, NoDoubleSignal, BeforeIn

(* Appending a resize of p to the size y.                                  *)
LEMMA AppendResize ==
  ASSUME NEW q \in Seq(Command), NEW c \in Command, NEW p, NEW z, NEW d,
         c.op = "resize", c.pane = p,
         \/ Agree(q, p, z, d) /\ (c.force => c.size = d)
         \/ PendingIn(q, p) = {} /\ ~c.force
  PROVE  Agree(Append(q, c), p, z, c.size)
<1> DEFINE r == Append(q, c)
           n == Len(q) + 1
<1>1. /\ DOMAIN r = 1 .. n /\ n \in Nat
      /\ \A i \in 1 .. Len(q) : r[i] = q[i]
      /\ r[n] = c
  OBVIOUS
<1>2. PendingIn(q, p) \subseteq 1 .. Len(q)
  BY DEF PendingIn
<1>3. PendingIn(r, p) = PendingIn(q, p) \cup {n}
  BY <1>1 DEF PendingIn
<1> HIDE DEF r, n
<1>4. \A i \in PendingIn(q, p) : i < n /\ r[i] = q[i]
  BY <1>1, <1>2 DEF n
<1>5. LastIs(r, p, c.size)
  <2>1. \A j \in PendingIn(r, p) : j <= n
    BY <1>1, <1>2, <1>3, <1>4
  <2> QED
    BY <1>1, <1>3, <2>1 DEF LastIs
<1>6. NoneLeft(r, p, z, c.size)
  BY <1>3 DEF NoneLeft
<1>7. NoDoubleSignal(r, p, z)
  <2> SUFFICES ASSUME NEW i \in PendingIn(r, p), r[i].force
               PROVE  \/ \E j \in PendingIn(r, p) : BeforeIn(r, p, j, i) /\ r[j].size = r[i].size
                      \/ (\A j \in PendingIn(r, p) : i <= j) /\ z = r[i].size
    BY DEF NoDoubleSignal
  <2>1. CASE i \in PendingIn(q, p)
    <3>1. NoDoubleSignal(q, p, z)
      BY <2>1 DEF Agree
    <3>2. q[i].force /\ r[i].size = q[i].size
      BY <1>4, <2>1
    <3>3. CASE \E j \in PendingIn(q, p) : BeforeIn(q, p, j, i) /\ q[j].size = q[i].size
      <4>1. PICK j \in PendingIn(q, p) : BeforeIn(q, p, j, i) /\ q[j].size = q[i].size
        BY <3>3
      <4>2. BeforeIn(r, p, j, i)
        BY <1>1, <1>2, <1>3, <1>4, <2>1, <4>1 DEF BeforeIn
      <4> QED
        BY <1>3, <1>4, <2>1, <4>1, <4>2
    <3>4. CASE (\A j \in PendingIn(q, p) : i <= j) /\ z = q[i].size
      <4>1. \A j \in PendingIn(r, p) : i <= j
        BY <1>1, <1>2, <1>3, <1>4, <2>1, <3>4
      <4> QED
        BY <3>2, <3>4, <4>1
    <3> QED
      BY <2>1, <3>1, <3>2, <3>3, <3>4 DEF NoDoubleSignal
  <2>2. CASE i = n
    <3>1. Agree(q, p, z, d) /\ c.size = d
      BY <1>1, <2>2
    <3>2. CASE PendingIn(q, p) = {}
      <4>1. \A j \in PendingIn(r, p) : i <= j
        BY <1>1, <1>3, <2>2, <3>2
      <4> QED
        BY <1>1, <2>2, <3>1, <3>2, <4>1 DEF Agree, NoneLeft
    <3>3. CASE PendingIn(q, p) # {}
      <4>1. PICK j \in PendingIn(q, p) : (\A k \in PendingIn(q, p) : k <= j) /\ q[j].size = d
        BY <3>1, <3>3 DEF Agree, LastIs
      <4>2. r[j].size = r[i].size
        BY <1>1, <1>4, <2>2, <3>1, <4>1
      <4>3. BeforeIn(r, p, j, i)
        BY <1>1, <1>3, <1>4, <2>2, <4>1 DEF BeforeIn
      <4> QED
        BY <1>3, <4>2, <4>3
    <3> QED
      BY <3>2, <3>3
  <2> QED
    BY <1>3, <2>1, <2>2
<1> QED
  BY <1>5, <1>6, <1>7 DEF Agree, r

(* The first resize of a pane under way, whatever was remembered before.    *)
LEMMA AppendToNone ==
  ASSUME NEW q \in Seq(Command), NEW c \in Command, NEW p, NEW z,
         c.op = "resize", c.pane = p, PendingIn(q, p) = {}, ~c.force
  PROVE  Agree(Append(q, c), p, z, c.size)
BY AppendResize

(* What is pending after the first command is executed, a place earlier.   *)
LEMMA TailPending ==
  ASSUME NEW q \in Seq(Command), q # <<>>, NEW p
  PROVE  /\ \A i \in PendingIn(q, p) : i \in Nat /\ i >= 1
         /\ \A i \in PendingIn(q, p) : i # 1 => i - 1 \in PendingIn(Tail(q), p)
         /\ \A i \in PendingIn(Tail(q), p) :
              i + 1 \in PendingIn(q, p) /\ Tail(q)[i] = q[i + 1] /\ i \in Nat /\ i >= 1
         /\ 1 \in PendingIn(q, p) <=> Head(q).op = "resize" /\ Head(q).pane = p
<1>1. /\ Len(q) \in Nat \ {0}
      /\ DOMAIN q = 1 .. Len(q) /\ DOMAIN Tail(q) = 1 .. Len(q) - 1
      /\ Head(q) = q[1]
  OBVIOUS
<1>2. \A i \in 1 .. Len(q) - 1 : Tail(q)[i] = q[i + 1]
  BY <1>1
<1>3. ASSUME NEW i \in PendingIn(q, p), i # 1 PROVE i - 1 \in PendingIn(Tail(q), p)
  <2>1. i - 1 \in 1 .. Len(q) - 1 /\ (i - 1) + 1 = i
    BY <1>1, <1>3 DEF PendingIn
  <2> QED
    BY <1>1, <1>2, <1>3, <2>1 DEF PendingIn
<1> QED
  BY <1>1, <1>2, <1>3 DEF PendingIn

(* Executing a command that does not resize p.                             *)
LEMMA TailOther ==
  ASSUME NEW q \in Seq(Command), q # <<>>, NEW p, NEW z, NEW d,
         ~(Head(q).op = "resize" /\ Head(q).pane = p), Agree(q, p, z, d)
  PROVE  Agree(Tail(q), p, z, d)
<1> DEFINE t == Tail(q)
<1>1. /\ \A i \in PendingIn(q, p) : i \in Nat /\ i >= 1 /\ i - 1 \in PendingIn(t, p)
      /\ \A i \in PendingIn(t, p) :
           i + 1 \in PendingIn(q, p) /\ t[i] = q[i + 1] /\ i \in Nat /\ i >= 1
  BY TailPending
<1> HIDE DEF t
<1>2. NoneLeft(t, p, z, d)
  BY <1>1 DEF Agree, NoneLeft
<1>3. LastIs(t, p, d)
  <2> SUFFICES ASSUME PendingIn(t, p) # {}
               PROVE  \E i \in PendingIn(t, p) : (\A j \in PendingIn(t, p) : j <= i) /\ t[i].size = d
    BY DEF LastIs
  <2>1. PICK i \in PendingIn(q, p) : (\A j \in PendingIn(q, p) : j <= i) /\ q[i].size = d
    BY <1>1 DEF Agree, LastIs
  <2>2. \A j \in PendingIn(t, p) : j <= i - 1
    BY <1>1, <2>1
  <2>3. i - 1 \in PendingIn(t, p) /\ t[i - 1].size = d
    BY <1>1, <2>1
  <2> QED
    BY <2>2, <2>3
<1>4. NoDoubleSignal(t, p, z)
  <2> SUFFICES ASSUME NEW i \in PendingIn(t, p), t[i].force
               PROVE  \/ \E j \in PendingIn(t, p) : BeforeIn(t, p, j, i) /\ t[j].size = t[i].size
                      \/ (\A j \in PendingIn(t, p) : i <= j) /\ z = t[i].size
    BY DEF NoDoubleSignal
  <2>1. i + 1 \in PendingIn(q, p) /\ q[i + 1].force
    BY <1>1
  <2>2. CASE \E j \in PendingIn(q, p) : BeforeIn(q, p, j, i + 1) /\ q[j].size = q[i + 1].size
    <3>1. PICK j \in PendingIn(q, p) : BeforeIn(q, p, j, i + 1) /\ q[j].size = q[i + 1].size
      BY <2>2
    <3>2. j - 1 \in PendingIn(t, p) /\ t[j - 1].size = t[i].size
      BY <1>1, <3>1
    <3>3. BeforeIn(t, p, j - 1, i)
      <4>1. j \in Nat /\ i \in Nat /\ j - 1 < i
        BY <1>1, <3>1 DEF BeforeIn
      <4>2. ASSUME NEW k \in PendingIn(t, p) PROVE k <= j - 1 \/ i <= k
        <5>1. k + 1 \in PendingIn(q, p) /\ k \in Nat
          BY <1>1
        <5>2. k + 1 <= j \/ i + 1 <= k + 1
          BY <5>1, <3>1 DEF BeforeIn
        <5> QED
          BY <4>1, <5>1, <5>2
      <4> QED
        BY <4>1, <4>2 DEF BeforeIn
    <3> QED
      BY <3>2, <3>3
  <2>3. CASE (\A j \in PendingIn(q, p) : i + 1 <= j) /\ z = q[i + 1].size
    <3>1. \A j \in PendingIn(t, p) : i <= j
      BY <1>1, <2>3
    <3> QED
      BY <1>1, <2>3, <3>1
  <2> QED
    BY <2>1, <2>2, <2>3 DEF Agree, NoDoubleSignal
<1> QED
  BY <1>2, <1>3, <1>4 DEF Agree, t

(* Executing a resize of p: the pane has the size of the command.          *)
LEMMA TailResize ==
  ASSUME NEW q \in Seq(Command), q # <<>>, NEW p, NEW z, NEW d,
         Head(q).op = "resize", Head(q).pane = p, Agree(q, p, z, d)
  PROVE  Agree(Tail(q), p, Head(q).size, d)
<1> DEFINE t == Tail(q)
           y == Head(q).size
<1>1. /\ \A i \in PendingIn(q, p) : i \in Nat /\ i >= 1 /\ (i # 1 => i - 1 \in PendingIn(t, p))
      /\ \A i \in PendingIn(t, p) :
           i + 1 \in PendingIn(q, p) /\ t[i] = q[i + 1] /\ i \in Nat /\ i >= 1
      /\ 1 \in PendingIn(q, p)
  BY TailPending
<1>2. q[1].size = y
  OBVIOUS
<1> HIDE DEF t, y
<1>3. PICK l \in PendingIn(q, p) : (\A j \in PendingIn(q, p) : j <= l) /\ q[l].size = d
  BY <1>1 DEF Agree, LastIs
<1>4. NoneLeft(t, p, y, d)
  BY <1>1, <1>2, <1>3 DEF NoneLeft
<1>5. LastIs(t, p, d)
  <2> SUFFICES ASSUME PendingIn(t, p) # {}
               PROVE  \E i \in PendingIn(t, p) : (\A j \in PendingIn(t, p) : j <= i) /\ t[i].size = d
    BY DEF LastIs
  <2>1. l # 1
    BY <1>1, <1>3
  <2>2. \A j \in PendingIn(t, p) : j <= l - 1
    BY <1>1, <1>3
  <2>3. l - 1 \in PendingIn(t, p) /\ t[l - 1].size = d
    BY <1>1, <1>3, <2>1
  <2> QED
    BY <2>2, <2>3
<1>6. NoDoubleSignal(t, p, y)
  <2> SUFFICES ASSUME NEW i \in PendingIn(t, p), t[i].force
               PROVE  \/ \E j \in PendingIn(t, p) : BeforeIn(t, p, j, i) /\ t[j].size = t[i].size
                      \/ (\A j \in PendingIn(t, p) : i <= j) /\ y = t[i].size
    BY DEF NoDoubleSignal
  <2>1. i + 1 \in PendingIn(q, p) /\ q[i + 1].force
    BY <1>1
  <2>2. ~(\A j \in PendingIn(q, p) : i + 1 <= j)
    BY <1>1
  <2>3. PICK j \in PendingIn(q, p) : BeforeIn(q, p, j, i + 1) /\ q[j].size = q[i + 1].size
    BY <2>1, <2>2 DEF Agree, NoDoubleSignal
  <2>4. CASE j = 1
    <3>1. \A k \in PendingIn(t, p) : i <= k
      BY <1>1, <2>3, <2>4 DEF BeforeIn
    <3>2. y = t[i].size
      BY <1>1, <1>2, <2>3, <2>4
    <3> QED
      BY <3>1, <3>2
  <2>5. CASE j # 1
    <3>1. j - 1 \in PendingIn(t, p) /\ t[j - 1].size = t[i].size
      BY <1>1, <2>3, <2>5
    <3>2. BeforeIn(t, p, j - 1, i)
      <4>1. j \in Nat /\ i \in Nat /\ j - 1 < i
        BY <1>1, <2>3 DEF BeforeIn
      <4>2. ASSUME NEW k \in PendingIn(t, p) PROVE k <= j - 1 \/ i <= k
        <5>1. k + 1 \in PendingIn(q, p) /\ k \in Nat
          BY <1>1
        <5>2. k + 1 <= j \/ i + 1 <= k + 1
          BY <5>1, <2>3 DEF BeforeIn
        <5> QED
          BY <4>1, <5>1, <5>2
      <4> QED
        BY <4>1, <4>2 DEF BeforeIn
    <3> QED
      BY <3>1, <3>2
  <2> QED
    BY <2>4, <2>5
<1> QED
  BY <1>4, <1>5, <1>6 DEF Agree, t, y

-----------------------------------------------------------------------------
(* The invariant.                                                          *)

LEMMA InitKnown == Init => PendingRecorded /\ Known
<1> SUFFICES ASSUME Init PROVE PendingRecorded /\ Known
  OBVIOUS
<1>1. \A s \in Session, p \in Pane : PendingIn(stdin[s], p) = {}
  BY DEF Init, PendingIn
<1> QED
  BY <1>1 DEF Init, PendingRecorded, Known

(* Steps that touch neither the pipes nor the dimensions.                  *)
LEMMA SameKnown ==
  ASSUME IInv, UNCHANGED <<stdin, pane_dimensions, tmux_size, disturbed>>
  PROVE  PendingRecorded' /\ Known'
BY DEF IInv, PendingRecorded, Known, Agree, LastIs, NoneLeft, NoDoubleSignal, BeforeIn, PendingIn

LEMMA OthersKnown ==
  ASSUME IInv, NEW s \in Session,
         \/ Browser(s) \/ Receive(s) \/ HandleSub(s) \/ HandleUnsub(s) \/ Forward(s) \/ End(s)
         \/ Spawn(s) \/ Attach(s)
  PROVE  PendingRecorded' /\ Known'
<1>1. UNCHANGED <<stdin, pane_dimensions, tmux_size, disturbed>>
  <2>1. CASE Browser(s)
    BY <2>1 DEF Browser, Connect, Close, Unmount, Type, Mount, Resize, task, tmux
  <2>2. CASE Receive(s)
    BY <2>2 DEF Receive, FirstRead, FirstMessage, FirstMessageFails, Read, tmux
  <2>3. CASE HandleSub(s) \/ HandleUnsub(s)
    BY <2>3 DEF HandleSub, HandleUnsub, NextMessage, tmux
  <2>4. CASE Forward(s) \/ End(s)
    BY <2>4 DEF Forward, ForwardOutput, DiscardOutput, End, task, tmux
  <2>5. CASE Spawn(s) \/ Attach(s)
    BY <2>5 DEF Spawn, Attach, task, tmux
  <2> QED
    BY <2>1, <2>2, <2>3, <2>4, <2>5
<1> QED
  BY <1>1, SameKnown

(* The pipe of s changes, and what the others rely on does not.            *)
LEMMA HandleInputKnown ==
  ASSUME IInv, NEW s \in Session, HandleInput(s)
  PROVE  PendingRecorded' /\ Known'
<1> DEFINE c == Keys(stream_buf[s][1].msg.pane)
<1>1. NextMessage(s, "i") /\ Write(s, c)
  BY DEF HandleInput
<1>2. c \in Command /\ c.op # "resize"
  BY <1>1, MessageTypes DEF IInv, Keys, Command
<1>3. stdin \in [Session -> Seq(Command)]
  BY DEF IInv, TypeOK
<1>4. UNCHANGED <<pane_dimensions, tmux_size, disturbed>>
  BY DEF HandleInput, NextMessage, tmux
<1> HIDE DEF c
<1>5. ASSUME NEW a \in Session, NEW p \in Pane
      PROVE  /\ PendingIn(stdin'[a], p) = PendingIn(stdin[a], p)
             /\ Agree(stdin[a], p, tmux_size[p], pane_dimensions[a][p])
                  => Agree(stdin'[a], p, tmux_size[p], pane_dimensions[a][p])
  <2>1. stdin'[a] = stdin[a] \/ stdin'[a] = Append(stdin[a], c)
    BY <1>1, <1>3 DEF Write
  <2> QED
    BY <1>2, <1>3, <2>1, AppendOther
<1> QED
  BY <1>4, <1>5 DEF IInv, PendingRecorded, Known

LEMMA HandleResizeKnown ==
  ASSUME IInv, NEW s \in Session, HandleResize(s)
  PROVE  PendingRecorded' /\ Known'
<1> DEFINE q == stream_buf[s][1].msg.pane
           y == stream_buf[s][1].msg.size
           c == [op |-> "resize", pane |-> q, size |-> y, force |-> ~DimsChanged(s, q, y)]
<1>1. /\ NextMessage(s, "r") /\ Write(s, c)
      /\ pane_dimensions' = [pane_dimensions EXCEPT ![s][q] = y]
      /\ disturbed' = [disturbed EXCEPT ![s][q] = @ \/ ~Writable(s)]
      /\ tmux_size' = tmux_size
  BY DEF HandleResize, NextMessage, tmux
<1>2. q \in Pane /\ y \in Size
  BY <1>1, MessageTypes DEF IInv
<1>3. /\ c \in Command /\ c.op = "resize" /\ c.pane = q /\ c.size = y
      /\ c.force => pane_dimensions[s][q] = y
  BY <1>2 DEF Command, DimsChanged
<1>4. /\ stdin \in [Session -> Seq(Command)]
      /\ pane_dimensions \in [Session -> [Pane -> Size \cup {NoSize}]]
      /\ disturbed \in [Session -> [Pane -> BOOLEAN]]
  BY DEF IInv, TypeOK
<1>5. y # NoSize
  BY <1>2, SizeAssumption
<1> HIDE DEF c, q, y
<1>6. \A a \in Session, p \in Pane : <<a, p>> # <<s, q>> =>
        pane_dimensions'[a][p] = pane_dimensions[a][p] /\ disturbed'[a][p] = disturbed[a][p]
  BY <1>1, <1>2, <1>4
<1>7. /\ pane_dimensions'[s][q] = y
      /\ disturbed'[s][q] = (disturbed[s][q] \/ ~Writable(s))
  BY <1>1, <1>2, <1>4
<1>8. ASSUME NEW a \in Session, NEW p \in Pane, <<a, p>> # <<s, q>>
      PROVE  /\ PendingIn(stdin'[a], p) = PendingIn(stdin[a], p)
             /\ Agree(stdin[a], p, tmux_size[p], pane_dimensions[a][p])
                  => Agree(stdin'[a], p, tmux_size[p], pane_dimensions[a][p])
  <2>1. CASE stdin'[a] = stdin[a]
    BY <2>1
  <2>2. CASE a = s /\ stdin'[a] = Append(stdin[a], c)
    BY <1>3, <1>4, <1>8, <2>2, AppendOther
  <2> QED
    BY <1>1, <1>4, <2>1, <2>2 DEF Write
<1>9. ASSUME ~disturbed'[s][q]
      PROVE  Agree(stdin'[s], q, tmux_size[q], y)
  <2>1. Writable(s) /\ ~disturbed[s][q]
    BY <1>7, <1>9
  <2>2. stdin'[s] = Append(stdin[s], c)
    BY <1>1, <1>4, <2>1 DEF Write
  <2>3. CASE pane_dimensions[s][q] = NoSize
    <3>1. PendingIn(stdin[s], q) = {} /\ ~c.force
      BY <1>2, <1>3, <1>5, <2>3 DEF IInv, PendingRecorded
    <3>2. Agree(Append(stdin[s], c), q, tmux_size[q], c.size)
      <4>1. stdin[s] \in Seq(Command)
        BY <1>4
      <4> QED
        BY <1>3, <3>1, <4>1, AppendToNone
    <3> QED
      BY <1>3, <1>4, <2>2, <3>2
  <2>4. CASE pane_dimensions[s][q] # NoSize
    <3>1. Agree(stdin[s], q, tmux_size[q], pane_dimensions[s][q])
      BY <1>2, <2>1, <2>4 DEF IInv, Known
    <3> QED
      BY <1>3, <1>4, <2>2, <3>1, AppendResize
  <2> QED
    BY <2>3, <2>4
<1>10. PendingRecorded'
  BY <1>5, <1>6, <1>7, <1>8 DEF IInv, PendingRecorded
<1>11. Known'
  <2> SUFFICES ASSUME NEW a \in Session, NEW p \in Pane,
                      ~disturbed'[a][p], pane_dimensions'[a][p] # NoSize
               PROVE  Agree(stdin'[a], p, tmux_size[p], pane_dimensions'[a][p])
    BY <1>1 DEF Known
  <2>1. CASE <<a, p>> = <<s, q>>
    BY <1>7, <1>9, <2>1
  <2>2. CASE <<a, p>> # <<s, q>>
    BY <1>6, <1>8, <2>2 DEF IInv, Known
  <2> QED
    BY <2>1, <2>2
<1> QED
  BY <1>10, <1>11

LEMMA ExitKnown ==
  ASSUME IInv, NEW s \in Session, Exit(s)
  PROVE  PendingRecorded' /\ Known'
<1>1. /\ stdin' = [stdin EXCEPT ![s] = <<>>]
      /\ disturbed' = [disturbed EXCEPT ![s] =
           [p \in Pane |-> @[p] \/ \E i \in DOMAIN stdin[s] :
                                    stdin[s][i].op = "resize" /\ stdin[s][i].pane = p]]
      /\ UNCHANGED <<pane_dimensions, tmux_size>>
  BY DEF Exit, task, tmux
<1>2. stdin \in [Session -> Seq(Command)] /\ disturbed \in [Session -> [Pane -> BOOLEAN]]
  BY DEF IInv, TypeOK
<1>3. \A p \in Pane : PendingIn(stdin'[s], p) = {}
  BY <1>1, <1>2 DEF PendingIn
<1>4. \A p \in Pane : disturbed'[s][p] = (disturbed[s][p] \/ PendingIn(stdin[s], p) # {})
  BY <1>1, <1>2 DEF PendingIn
<1>5. \A a \in Session : a # s => stdin'[a] = stdin[a] /\ disturbed'[a] = disturbed[a]
  BY <1>1, <1>2
<1>6. PendingRecorded'
  BY <1>1, <1>3, <1>5 DEF IInv, PendingRecorded
<1>7. Known'
  <2> SUFFICES ASSUME NEW a \in Session, NEW p \in Pane,
                      ~disturbed'[a][p], pane_dimensions[a][p] # NoSize
               PROVE  Agree(stdin'[a], p, tmux_size[p], pane_dimensions[a][p])
    BY <1>1 DEF Known
  <2>1. CASE a # s
    BY <1>5, <2>1 DEF IInv, Known
  <2>2. CASE a = s
    <3>1. PendingIn(stdin[s], p) = {} /\ ~disturbed[s][p]
      BY <1>4, <2>2
    <3>2. tmux_size[p] = pane_dimensions[s][p]
      BY <2>2, <3>1 DEF IInv, Known, Agree, NoneLeft
    <3> QED
      BY <1>3, <2>2, <3>2 DEF Agree, LastIs, NoneLeft, NoDoubleSignal
  <2> QED
    BY <2>1, <2>2
<1> QED
  BY <1>6, <1>7

LEMMA ExecuteKnown ==
  ASSUME IInv, NEW s \in Session, Execute(s)
  PROVE  PendingRecorded' /\ Known'
<1> DEFINE c == Head(stdin[s])
<1>1. stdin[s] # <<>> /\ stdin' = [stdin EXCEPT ![s] = Tail(@)] /\ UNCHANGED pane_dimensions
  BY DEF Execute, ExecuteKeys, ExecuteResize, task
<1>2. /\ stdin \in [Session -> Seq(Command)] /\ tmux_size \in [Pane -> Size]
      /\ disturbed \in [Session -> [Pane -> BOOLEAN]]
  BY DEF IInv, TypeOK
<1>3. stdin'[s] = Tail(stdin[s]) /\ \A a \in Session : a # s => stdin'[a] = stdin[a]
  BY <1>1, <1>2
<1>4. PendingRecorded'
  <2>1. \A p \in Pane : PendingIn(stdin'[s], p) # {} => PendingIn(stdin[s], p) # {}
    BY <1>1, <1>2, <1>3, TailPending
  <2> QED
    BY <1>1, <1>3, <2>1 DEF IInv, PendingRecorded
<1>5. CASE ExecuteKeys(s)
  <2>1. c.op # "resize" /\ UNCHANGED <<tmux_size, disturbed>>
    BY <1>5 DEF ExecuteKeys, tmux
  <2>2. ASSUME NEW a \in Session, NEW p \in Pane,
               Agree(stdin[a], p, tmux_size[p], pane_dimensions[a][p])
        PROVE  Agree(stdin'[a], p, tmux_size[p], pane_dimensions[a][p])
    <3>1. CASE a = s
      BY <1>1, <1>2, <1>3, <2>1, <2>2, <3>1, TailOther
    <3>2. CASE a # s
      BY <1>3, <2>2, <3>2
    <3> QED
      BY <3>1, <3>2
  <2> QED
    BY <1>1, <1>4, <2>1, <2>2 DEF IInv, Known
<1>6. CASE ExecuteResize(s)
  <2>1. /\ c.op = "resize"
        /\ tmux_size' = [tmux_size EXCEPT ![c.pane] = c.size]
        /\ disturbed' = [d \in Session |-> [p \in Pane |->
             disturbed[d][p] \/ (d # s /\ p = c.pane /\ c.size # tmux_size[c.pane])]]
    BY <1>6 DEF ExecuteResize
  <2> HIDE DEF c
  <2>2. ASSUME NEW a \in Session, NEW p \in Pane,
               ~disturbed'[a][p], pane_dimensions[a][p] # NoSize
        PROVE  Agree(stdin'[a], p, tmux_size'[p], pane_dimensions[a][p])
    <3>1. ~disturbed[a][p]
      BY <1>2, <2>1, <2>2
    <3>2. Agree(stdin[a], p, tmux_size[p], pane_dimensions[a][p])
      BY <2>2, <3>1 DEF IInv, Known
    <3>3. CASE a # s
      <4>1. tmux_size'[p] = tmux_size[p]
        BY <1>2, <2>1, <2>2, <3>3
      <4> QED
        BY <1>3, <3>2, <3>3, <4>1
    <3>4. CASE a = s /\ p = c.pane
      <4>1. tmux_size'[p] = c.size
        BY <1>2, <2>1, <3>4
      <4> QED
        BY <1>1, <1>2, <1>3, <2>1, <3>2, <3>4, <4>1, TailResize DEF c
    <3>5. CASE a = s /\ p # c.pane
      <4>1. tmux_size'[p] = tmux_size[p]
        BY <1>2, <2>1, <3>5
      <4> QED
        BY <1>1, <1>2, <1>3, <3>2, <3>5, <4>1, TailOther DEF c
    <3> QED
      BY <3>3, <3>4, <3>5
  <2> QED
    BY <1>1, <1>4, <2>2 DEF Known
<1> QED
  BY <1>5, <1>6 DEF Execute

LEMMA NextKnown == IInv /\ [Next]_vars => IInv'
<1> SUFFICES ASSUME IInv, [Next]_vars PROVE IInv'
  OBVIOUS
<1>1. TypeOK'
  BY NextTypes DEF IInv
<1>2. PendingRecorded' /\ Known'
  <2>1. CASE UNCHANGED vars
    BY <2>1, SameKnown DEF vars, task, tmux
  <2>2. ASSUME NEW s \in Session, Handle(s) PROVE PendingRecorded' /\ Known'
    BY <2>2, OthersKnown, HandleInputKnown, HandleResizeKnown DEF Handle
  <2>3. ASSUME NEW p \in Pane, Redraw(p) PROVE PendingRecorded' /\ Known'
    BY <2>3, SameKnown DEF Redraw, task
  <2> QED
    BY <2>1, <2>2, <2>3, OthersKnown, ExitKnown, ExecuteKnown DEF Next
<1> QED
  BY <1>1, <1>2 DEF IInv

(* As long as no resize of a session is lost and no other session resizes  *)
(* the pane, the agent remembers the size the pane will have, and it asks  *)
(* for a signal only where tmux sends none: dims_changed in handle_message *)
(* is right however many resizes are under way.                            *)
THEOREM KnownDimensions == Spec => []DimensionsAreKnown
<1>1. Init => IInv
  BY InitTypes, InitKnown DEF IInv
<1>2. IInv => DimensionsAreKnown
  BY KnownIsKnown DEF IInv
<1> QED
  BY <1>1, <1>2, NextKnown, PTL DEF Spec

-----------------------------------------------------------------------------
(* The order of messages.                                                  *)

(* What the browser sent and the task has not handled.                     *)
Unhandled(s) == stream_buf[s] \o wire[s]

(* The unhandled parts are those of the messages after the last one that   *)
(* was handled, each with its two parts in order.                          *)
InStep(u, low, high) ==
  /\ Len(u) = 2 * (high - low)
  /\ \A i \in 1 .. Len(u) : 2 * (u[i].n - low) + u[i].part = i + 2

Kept(s) ==
  /\ at[s] # "ended" => InStep(Unhandled(s), handled[s], sent[s])
  /\ at[s] \in {"new", "first"} => handled[s] = 0

Numbered == \A s \in Session : Kept(s)

NextInTurn(s) == handled'[s] # handled[s] => handled'[s] = handled[s] + 1

LEMMA UnitNumbers ==
  ASSUME NEW u \in Seq(Unit), NEW i \in 1 .. Len(u)
  PROVE  u[i].n \in Nat /\ u[i].part \in {1, 2}
<1>1. u[i] \in Unit
  OBVIOUS
<1> QED
  BY <1>1, BoundAssumption DEF Unit

LEMMA UnhandledType ==
  ASSUME TypeOK, NEW s \in Session
  PROVE  /\ stream_buf[s] \in Seq(Unit) /\ wire[s] \in Seq(Unit) /\ Unhandled(s) \in Seq(Unit)
         /\ sent[s] \in Nat /\ handled[s] \in Nat
<1>1. /\ stream_buf[s] \in Seq(Unit) /\ wire[s] \in Seq(Unit)
      /\ sent[s] \in 0 .. MaxSent /\ handled[s] \in 0 .. MaxSent
  BY DEF TypeOK
<1> QED
  BY <1>1, BoundAssumption DEF Unhandled

(* What is sent follows what was sent before.                              *)
LEMMA FramesFollow ==
  ASSUME NEW u \in Seq(Unit), NEW low \in Nat, NEW high \in Nat, InStep(u, low, high),
         NEW msgs \in Seq(Message), high + Len(msgs) <= MaxSent
  PROVE  InStep(u \o Frames(msgs, high), low, high + Len(msgs))
<1> DEFINE f == Frames(msgs, high)
           q == u \o f
<1>1. f \in Seq(Unit)
  BY FramesType
<1>2. /\ Len(f) = 2 * Len(msgs)
      /\ \A i \in 1 .. 2 * Len(msgs) : f[i].n = high + (i + 1) \div 2 /\ f[i].part = 2 - (i % 2)
  BY DEF Frames
<1>3. \A i \in Nat : 2 * ((i + 1) \div 2) - (i % 2) = i
  OBVIOUS
<1>4. Len(msgs) \in Nat /\ Len(u) \in Nat /\ Len(u) = 2 * (high - low)
  BY DEF InStep
<1> HIDE DEF f
<1>5. /\ Len(q) = Len(u) + Len(f)
      /\ \A i \in 1 .. Len(u) : q[i] = u[i]
      /\ \A i \in 1 .. Len(f) : q[Len(u) + i] = f[i]
  BY <1>1
<1> HIDE DEF q
<1>6. Len(q) = 2 * (high + Len(msgs) - low)
  BY <1>2, <1>4, <1>5
<1>7. ASSUME NEW i \in 1 .. Len(q) PROVE 2 * (q[i].n - low) + q[i].part = i + 2
  <2>1. CASE i \in 1 .. Len(u)
    BY <1>5, <2>1 DEF InStep
  <2>2. CASE i \notin 1 .. Len(u)
    <3>1. PICK j \in 1 .. 2 * Len(msgs) : i = Len(u) + j
      <4>1. i - Len(u) \in 1 .. 2 * Len(msgs) /\ i = Len(u) + (i - Len(u))
        BY <1>2, <1>4, <1>5, <2>2
      <4> QED
        BY <4>1
    <3>2. q[i].n = high + (j + 1) \div 2 /\ q[i].part = 2 - (j % 2)
      BY <1>2, <1>5, <3>1
    <3>3. 2 * ((j + 1) \div 2) - (j % 2) = j /\ (j + 1) \div 2 \in Nat /\ j % 2 \in Nat
      BY <1>3, <1>4
    <3> QED
      BY <1>4, <3>1, <3>2, <3>3
  <2> QED
    BY <2>1, <2>2
<1> QED
  BY <1>6, <1>7 DEF InStep, q, f

LEMMA UnitsAssociate == \A p, q, r \in Seq(Unit) : (p \o q) \o r = p \o (q \o r)
<1> SUFFICES ASSUME NEW p \in Seq(Unit), NEW q \in Seq(Unit), NEW r \in Seq(Unit)
             PROVE  (p \o q) \o r = p \o (q \o r)
  OBVIOUS
<1> DEFINE u == (p \o q) \o r
           v == p \o (q \o r)
<1>1. u \in Seq(Unit) /\ v \in Seq(Unit) /\ Len(u) = Len(v)
  OBVIOUS
<1>2. ASSUME NEW i \in 1 .. Len(u) PROVE u[i] = v[i]
  OBVIOUS
<1> HIDE DEF u, v
<1>3. u = v
  BY <1>1, <1>2, SeqEqual
<1> QED
  BY <1>3 DEF u, v

LEMMA SendAppends ==
  ASSUME TypeOK, NEW s \in Session, NEW msgs \in Seq(Message), Send(s, msgs),
         UNCHANGED stream_buf
  PROVE  /\ sent[s] \in Nat /\ sent[s] + Len(msgs) <= MaxSent
         /\ sent'[s] = sent[s] + Len(msgs)
         /\ Unhandled(s)' = Unhandled(s) \o Frames(msgs, sent[s])
<1>1. /\ sent[s] + Len(msgs) <= MaxSent /\ sent'[s] = sent[s] + Len(msgs)
      /\ wire'[s] = wire[s] \o Frames(msgs, sent[s])
  BY DEF Send, TypeOK
<1>2. Frames(msgs, sent[s]) \in Seq(Unit)
  BY <1>1, UnhandledType, FramesType
<1>3. Unhandled(s)' = Unhandled(s) \o Frames(msgs, sent[s])
  <2>1. \A p, q, r \in Seq(Unit) : (p \o q) \o r = p \o (q \o r)
    BY UnitsAssociate
  <2>2. stream_buf[s] \in Seq(Unit) /\ wire[s] \in Seq(Unit)
    BY UnhandledType
  <2>3. Unhandled(s)' = stream_buf[s] \o (wire[s] \o Frames(msgs, sent[s]))
    BY <1>1 DEF Unhandled
  <2> QED
    BY <1>2, <2>1, <2>2, <2>3 DEF Unhandled
<1> QED
  BY <1>1, <1>3, UnhandledType

LEMMA SendFollows ==
  ASSUME TypeOK, NEW s \in Session, NEW msgs \in Seq(Message), Send(s, msgs),
         UNCHANGED <<stream_buf, handled>>,
         InStep(Unhandled(s), handled[s], sent[s])
  PROVE  InStep(Unhandled(s)', handled'[s], sent'[s])
BY SendAppends, UnhandledType, FramesFollow

(* A message taken from the front is the next one.                         *)
LEMMA FrontIsNext ==
  ASSUME NEW u \in Seq(Unit), NEW low \in Nat, NEW high \in Nat, InStep(u, low, high),
         Len(u) >= 2, NEW v \in Seq(Unit), Len(u) = Len(v) + 2,
         \A i \in 1 .. Len(v) : v[i] = u[i + 2]
  PROVE  /\ u[1].n = low + 1
         /\ InStep(v, low + 1, high)
<1>1. Len(u) \in Nat /\ Len(v) \in Nat /\ Len(u) = 2 * (high - low)
  BY DEF InStep
<1>2. u[1].n = low + 1
  <2>1. 1 \in 1 .. Len(u)
    BY <1>1
  <2>2. 2 * (u[1].n - low) + u[1].part = 1 + 2 /\ u[1].n \in Nat /\ u[1].part \in {1, 2}
    BY <2>1, UnitNumbers DEF InStep
  <2> QED
    BY <2>2
<1>3. ASSUME NEW i \in 1 .. Len(v) PROVE 2 * (v[i].n - (low + 1)) + v[i].part = i + 2
  <2>1. i + 2 \in 1 .. Len(u)
    BY <1>1
  <2>2. 2 * (u[i + 2].n - low) + u[i + 2].part = i + 2 + 2
    BY <2>1 DEF InStep
  <2>3. u[i + 2].n \in Nat /\ u[i + 2].part \in {1, 2}
    BY <2>1, UnitNumbers
  <2>4. v[i] = u[i + 2] /\ i \in Nat
    BY <1>1
  <2>5. \A n \in Nat, q \in {1, 2} :
          2 * (n - low) + q = i + 2 + 2 => 2 * (n - (low + 1)) + q = i + 2
    BY <2>4
  <2> QED
    BY <2>2, <2>3, <2>4, <2>5
<1>4. Len(v) = 2 * (high - (low + 1))
  BY <1>1
<1> QED
  BY <1>2, <1>3, <1>4, Zenon DEF InStep

LEMMA InitNumbered == Init => Numbered
<1> SUFFICES ASSUME Init, NEW s \in Session PROVE Kept(s)
  BY DEF Numbered
<1>1. stream_buf[s] = <<>> /\ wire[s] = <<>> /\ handled[s] = 0 /\ sent[s] = 0
  BY DEF Init
<1>2. Unhandled(s) = <<>>
  BY <1>1 DEF Unhandled
<1> QED
  BY <1>1, <1>2 DEF Kept, InStep

(* What the other sessions and tasks do leaves the messages of s alone.    *)
SameMessages(s) ==
  /\ at'[s] = at[s] /\ stream_buf'[s] = stream_buf[s] /\ wire'[s] = wire[s]
  /\ handled'[s] = handled[s] /\ sent'[s] = sent[s]

LEMMA SameKept ==
  ASSUME NEW s \in Session, Kept(s), SameMessages(s)
  PROVE  Kept(s)' /\ NextInTurn(s)
<1>1. Unhandled(s)' = Unhandled(s)
  BY DEF SameMessages, Unhandled
<1> QED
  BY <1>1 DEF SameMessages, Kept, NextInTurn

LEMMA SendKept ==
  ASSUME TypeOK, NEW s \in Session, Kept(s), NEW msgs \in Seq(Message), Send(s, msgs),
         at[s] # "ended", at'[s] = at[s] \/ (at[s] = "new" /\ at'[s] = "first"),
         UNCHANGED <<stream_buf, handled>>
  PROVE  Kept(s)' /\ NextInTurn(s)
<1>1. InStep(Unhandled(s)', handled'[s], sent'[s])
  BY SendFollows DEF Kept
<1> QED
  BY <1>1 DEF Kept, NextInTurn

LEMMA BrowserKept ==
  ASSUME TypeOK, NEW s \in Session, Kept(s), Browser(s)
  PROVE  Kept(s)' /\ NextInTurn(s)
<1>1. CASE Connect(s)
  <2>1. PICK panes \in SUBSET Pane : \E tm \in [panes -> Size], order \in SetToSeqs(panes) :
          Send(s, Resubscribe(order, tm))
    BY <1>1 DEF Connect
  <2>2. PICK tm \in [panes -> Size], order \in SetToSeqs(panes) :
          Send(s, Resubscribe(order, tm))
    BY <2>1
  <2>3. Resubscribe(order, tm) \in Seq(Message)
    BY ResubscribeType
  <2>4. at[s] = "new" /\ at'[s] = "first" /\ UNCHANGED <<stream_buf, handled>>
    BY <1>1 DEF Connect, TypeOK
  <2> QED
    BY <2>2, <2>3, <2>4, SendKept
<1>2. CASE Close(s)
  BY <1>2, SameKept DEF Close, task, SameMessages
<1>3. ASSUME NEW msgs \in Seq(Message), Send(s, msgs), Connected(s), UNCHANGED task
      PROVE  Kept(s)' /\ NextInTurn(s)
  <2>1. at[s] # "ended" /\ at'[s] = at[s] /\ UNCHANGED <<stream_buf, handled>>
    BY <1>3 DEF Connected, task
  <2> QED
    BY <1>3, <2>1, SendKept
<1>4. ASSUME NEW p \in Pane, Unmount(s, p) \/ Type(s, p)
      PROVE  Kept(s)' /\ NextInTurn(s)
  <2>1. <<Unsub(p)>> \in Seq(Message) /\ <<I(p)>> \in Seq(Message)
    BY DEF Unsub, I, Message
  <2> QED
    BY <1>3, <1>4, <2>1 DEF Unmount, Type
<1>5. ASSUME NEW p \in Pane, NEW z \in Size, Mount(s, p, z) \/ Resize(s, p, z)
      PROVE  Kept(s)' /\ NextInTurn(s)
  <2>1. <<Sub(p), R(p, z)>> \in Seq(Message) /\ <<R(p, z)>> \in Seq(Message)
    BY DEF Sub, R, Message
  <2> QED
    BY <1>3, <1>5, <2>1 DEF Mount, Resize
<1> QED
  BY <1>1, <1>2, <1>4, <1>5 DEF Browser

(* A read moves what arrived to the buffer, and keeps all of it in order.  *)
LEMMA ReadMoves ==
  ASSUME TypeOK, NEW s \in Session, NEW k \in Chunk(s), Take(s, k),
         stream_buf' = [stream_buf EXCEPT ![s] = Received(s, k)]
  PROVE  Unhandled(s)' = Unhandled(s)
<1>1. PICK x \in Seq(Unit), y \in Seq(Unit) : x = stream_buf[s] /\ y = wire[s]
  BY UnhandledType
<1>2. k \in Nat /\ k <= Len(y)
  BY <1>1 DEF Chunk
<1> DEFINE u == SubSeq(y, 1, k)
           v == SubSeq(y, k + 1, Len(y))
<1>3. u \in Seq(Unit) /\ v \in Seq(Unit) /\ u \o v = y
  <2>1. u \in Seq(Unit) /\ v \in Seq(Unit)
    BY <1>2
  <2>2. SubSeq(y, 1, Len(y)) = y
    BY SubSeqFull
  <2>3. 1 \in 1 .. Len(y) + 1 /\ k \in 1 - 1 .. Len(y) /\ Len(y) \in k .. Len(y)
    BY <1>2
  <2>4. u \o v = SubSeq(y, 1, Len(y))
    BY <2>3, ConcatAdjacentSubSeq
  <2> QED
    BY <2>1, <2>2, <2>4
<1>4. stream_buf'[s] = x \o u /\ wire'[s] = v
  BY <1>1 DEF Take, Received, TypeOK
<1> HIDE DEF u, v
<1>5. (x \o u) \o v = x \o (u \o v)
  BY <1>3, UnitsAssociate, ZenonT(60)
<1> QED
  BY <1>1, <1>3, <1>4, <1>5 DEF Unhandled

(* The first message is taken from the front of a stream u, v is left.     *)
FrontTaken(u, v) ==
  Len(u) >= 2 /\ Len(u) = Len(v) + 2 /\ \A i \in 1 .. Len(v) : v[i] = u[i + 2]

(* The network delivers the first frame alone, so that nothing is dropped  *)
(* with the buffer of the first read.                                      *)
LEMMA FirstMessageTakes ==
  ASSUME TypeOK, FirstAlone, NEW s \in Session, FirstMessage(s)
  PROVE  FrontTaken(Unhandled(s), Unhandled(s)') /\ Unhandled(s)' \in Seq(Unit)
<1>1. PICK k \in FirstChunk(s) : HasFrame(Received(s, k)) /\ Take(s, k)
  BY DEF FirstMessage
<1>2. PICK x \in Seq(Unit), y \in Seq(Unit) : x = stream_buf[s] /\ y = wire[s]
  BY UnhandledType
<1>3. /\ k \in 1 .. Len(y) /\ Len(x) + k <= 2
      /\ Len(x \o SubSeq(y, 1, k)) >= 2
  BY <1>1, <1>2 DEF FirstChunk, Chunk, HasFrame, Received
<1>4. Len(x) + k = 2 /\ Len(x) \in Nat /\ k \in Nat /\ Len(y) \in Nat
  BY <1>3
<1> DEFINE u == x \o y
           v == SubSeq(y, k + 1, Len(y))
<1>5. u \in Seq(Unit) /\ v \in Seq(Unit) /\ Len(u) = Len(v) + 2 /\ Len(u) >= 2
  BY <1>3, <1>4
<1>6. ASSUME NEW i \in 1 .. Len(v) PROVE v[i] = u[i + 2]
  <2>1. v[i] = y[k + i] /\ i \in Nat /\ k + i \in 1 .. Len(y)
    <3>1. Len(v) \in Nat /\ Len(v) = Len(y) - k
      BY <1>3, <1>4
    <3>2. i \in Nat /\ i >= 1 /\ i <= Len(y) - k
      <4> HIDE DEF v
      <4> QED
        BY <3>1
    <3>3. k + i \in 1 .. Len(y)
      BY <1>4, <3>2
    <3>4. v[i] = y[(k + 1) + i - 1] /\ (k + 1) + i - 1 = k + i
      BY <1>3, <1>4, <3>1, <3>2
    <3> QED
      BY <3>2, <3>3, <3>4
  <2>2. i + 2 = Len(x) + (k + i)
    BY <1>4, <2>1
  <2>3. \A j \in 1 .. Len(y) : u[Len(x) + j] = y[j]
    OBVIOUS
  <2> QED
    BY <2>1, <2>2, <2>3
<1>7. stream_buf'[s] = <<>> /\ wire'[s] = v
  BY <1>1, <1>2 DEF FirstMessage, Take, TypeOK
<1>8. Unhandled(s) = u /\ Unhandled(s)' = <<>> \o v
  BY <1>2, <1>7 DEF Unhandled
<1> HIDE DEF u, v
<1>9. <<>> \o v = v
  BY <1>5
<1> QED
  BY <1>5, <1>6, <1>8, <1>9 DEF FrontTaken

LEMMA FirstMessageKept ==
  ASSUME TypeOK, FirstAlone, NEW s \in Session, Kept(s), FirstMessage(s)
  PROVE  Kept(s)' /\ NextInTurn(s)
<1> DEFINE u == Unhandled(s)
           v == Unhandled(s)'
<1>1. /\ at[s] = "first" /\ at'[s] = "loop"
      /\ handled'[s] = 1 /\ sent'[s] = sent[s]
  BY DEF FirstMessage, TypeOK, browser
<1>2. FrontTaken(u, v) /\ u \in Seq(Unit) /\ v \in Seq(Unit)
  BY FirstMessageTakes, UnhandledType
<1>3. handled[s] = 0 /\ InStep(u, 0, sent[s])
  BY <1>1 DEF Kept
<1> HIDE DEF u, v
<1>4. InStep(v, 0 + 1, sent[s])
  BY <1>2, <1>3, FrontIsNext, UnhandledType DEF FrontTaken
<1> QED
  BY <1>1, <1>3, <1>4 DEF Kept, NextInTurn, v

LEMMA ReceiveKept ==
  ASSUME TypeOK, FirstAlone, NEW s \in Session, Kept(s), Receive(s)
  PROVE  Kept(s)' /\ NextInTurn(s)
<1>1. ASSUME NEW k \in Chunk(s), Take(s, k),
             stream_buf' = [stream_buf EXCEPT ![s] = Received(s, k)],
             UNCHANGED <<browser, at, handled>>
      PROVE  Kept(s)' /\ NextInTurn(s)
  BY <1>1, ReadMoves DEF Kept, NextInTurn, browser
<1>2. CASE FirstRead(s)
  BY <1>1, <1>2 DEF FirstRead, FirstChunk
<1>3. CASE FirstMessageFails(s)
  BY <1>3 DEF FirstMessageFails, Leave, TypeOK, Kept, NextInTurn
<1>4. CASE Read(s)
  BY <1>1, <1>4 DEF Read
<1> QED
  BY <1>2, <1>3, <1>4, FirstMessageKept DEF Receive

LEMMA BeyondTwo ==
  ASSUME NEW n \in Nat, n >= 2
  PROVE  (IF 3 <= n THEN n - 3 + 1 ELSE 0) = n - 2
OBVIOUS

LEMMA FrontDropped ==
  ASSUME NEW S, NEW x \in Seq(S), NEW y \in Seq(S), Len(x) >= 2
  PROVE  /\ x \o y \in Seq(S) /\ SubSeq(x, 3, Len(x)) \o y \in Seq(S)
         /\ Len(x \o y) = Len(SubSeq(x, 3, Len(x)) \o y) + 2 /\ Len(x \o y) >= 2
         /\ (x \o y)[1] = x[1]
         /\ \A i \in 1 .. Len(SubSeq(x, 3, Len(x)) \o y) :
              (SubSeq(x, 3, Len(x)) \o y)[i] = (x \o y)[i + 2]
<1> DEFINE w == SubSeq(x, 3, Len(x))
<1>1. /\ w \in Seq(S) /\ Len(w) = Len(x) - 2 /\ Len(x) \in Nat /\ Len(y) \in Nat
      /\ \A i \in 1 .. Len(x) - 2 : w[i] = x[i + 2]
  <2>1. Len(x) \in Nat /\ Len(y) \in Nat /\ 3 \in Int
    OBVIOUS
  <2>2. \A j \in 3 .. Len(x) : x[j] \in S
    <3>1. \A j \in 3 .. Len(x) : j \in 1 .. Len(x)
      BY <2>1
    <3> QED
      BY <3>1, ElementOfSeq
  <2>3. /\ w \in Seq(S)
        /\ Len(w) = IF 3 <= Len(x) THEN Len(x) - 3 + 1 ELSE 0
        /\ \A i \in 1 .. Len(x) - 3 + 1 : w[i] = x[3 + i - 1]
    BY <2>1, <2>2, SubSeqProperties
  <2>4. Len(w) = Len(x) - 2
    <3>1. Len(w) = IF 3 <= Len(x) THEN Len(x) - 3 + 1 ELSE 0
      BY <2>3, Zenon
    <3>2. (IF 3 <= Len(x) THEN Len(x) - 3 + 1 ELSE 0) = Len(x) - 2
      BY <2>1, BeyondTwo
    <3> HIDE DEF w
    <3> QED
      BY <3>1, <3>2
  <2>5. ASSUME NEW i \in 1 .. Len(x) - 2 PROVE w[i] = x[i + 2]
    <3>1. i \in 1 .. Len(x) - 3 + 1 /\ 3 + i - 1 = i + 2
      BY <2>1
    <3> QED
      BY <2>3, <3>1
  <2> QED
    BY <2>1, <2>3, <2>4, <2>5
<1> HIDE DEF w
<1>2. ASSUME NEW i \in 1 .. Len(w \o y) PROVE (w \o y)[i] = (x \o y)[i + 2]
  <2>1. i \in Nat /\ i \in 1 .. Len(w) + Len(y)
    BY <1>1
  <2>2. CASE i <= Len(w)
    <3>1. i \in 1 .. Len(w) /\ i + 2 \in 1 .. Len(x)
      BY <1>1, <2>1, <2>2
    <3>2. (w \o y)[i] = w[i] /\ (x \o y)[i + 2] = x[i + 2]
      BY <1>1, <3>1
    <3> QED
      BY <1>1, <3>1, <3>2
  <2>3. CASE Len(w) < i
    <3>1. (w \o y)[i] = y[i - Len(w)]
      BY <1>1, <2>1, <2>3
    <3>2. (x \o y)[i + 2] = y[i + 2 - Len(x)]
      BY <1>1, <2>1, <2>3
    <3>3. i + 2 - Len(x) = i - Len(w)
      BY <1>1, <2>1
    <3> QED
      BY <3>1, <3>2, <3>3
  <2> QED
    BY <1>1, <2>1, <2>2, <2>3
<1>3. w \o y \in Seq(S) /\ x \o y \in Seq(S) /\ (x \o y)[1] = x[1]
  BY <1>1
<1>4. Len(x \o y) = Len(w \o y) + 2 /\ Len(x \o y) >= 2
  <2>1. Len(x \o y) = Len(x) + Len(y) /\ Len(w \o y) = Len(w) + Len(y)
    BY <1>1, ConcatProperties
  <2> QED
    BY <1>1, <2>1
<1> QED
  BY <1>2, <1>3, <1>4 DEF w

LEMMA HandleTakes ==
  ASSUME TypeOK, NEW s \in Session, NEW type, NextMessage(s, type)
  PROVE  /\ FrontTaken(Unhandled(s), Unhandled(s)') /\ Unhandled(s)' \in Seq(Unit)
         /\ Unhandled(s)[1] = stream_buf[s][1]
<1>1. PICK x \in Seq(Unit), y \in Seq(Unit) : x = stream_buf[s] /\ y = wire[s]
  BY UnhandledType
<1>2. Len(x) >= 2 /\ Len(x) \in Nat /\ Len(y) \in Nat
  BY <1>1 DEF NextMessage, HasFrame
<1> DEFINE u == x \o y
           w == SubSeq(x, 3, Len(x))
           v == w \o y
<1>3. /\ u \in Seq(Unit) /\ v \in Seq(Unit) /\ Len(u) = Len(v) + 2 /\ Len(u) >= 2
      /\ u[1] = x[1] /\ \A i \in 1 .. Len(v) : v[i] = u[i + 2]
  BY <1>2, FrontDropped, SMTT(30)
<1>4. stream_buf'[s] = w /\ wire'[s] = y
  BY <1>1 DEF NextMessage, TypeOK
<1>5. Unhandled(s) = u /\ Unhandled(s)' = v
  BY <1>1, <1>4 DEF Unhandled
<1> HIDE DEF u, v
<1> QED
  BY <1>1, <1>3, <1>5 DEF FrontTaken

LEMMA HandleKept ==
  ASSUME TypeOK, NEW s \in Session, Kept(s), Handle(s)
  PROVE  Kept(s)' /\ NextInTurn(s)
<1> DEFINE u == Unhandled(s)
           v == Unhandled(s)'
<1>1. PICK type : NextMessage(s, type)
  BY DEF Handle, HandleSub, HandleUnsub, HandleInput, HandleResize
<1>2. /\ FrontTaken(u, v) /\ u \in Seq(Unit) /\ v \in Seq(Unit)
      /\ u[1] = stream_buf[s][1]
  BY <1>1, HandleTakes, UnhandledType
<1>3. /\ at[s] = "loop" /\ at'[s] = "loop"
      /\ handled'[s] = stream_buf[s][1].n /\ sent'[s] = sent[s]
  BY <1>1 DEF NextMessage, TypeOK, browser
<1>4. InStep(u, handled[s], sent[s])
  BY <1>3 DEF Kept
<1> HIDE DEF u, v
<1>5. u[1].n = handled[s] + 1 /\ InStep(v, handled[s] + 1, sent[s])
  BY <1>2, <1>4, FrontIsNext, UnhandledType DEF FrontTaken
<1> QED
  BY <1>2, <1>3, <1>5 DEF Kept, NextInTurn, v

(* The other actions of a session.                                         *)
LEMMA OthersKeep ==
  ASSUME NEW s \in Session, Kept(s),
         Forward(s) \/ Spawn(s) \/ Attach(s) \/ Exit(s) \/ Execute(s)
  PROVE  Kept(s)' /\ NextInTurn(s)
<1>1. SameMessages(s)
  BY DEF Forward, ForwardOutput, DiscardOutput, Spawn, Attach, Exit, Execute, ExecuteKeys,
         ExecuteResize, browser, task, SameMessages
<1> QED
  BY <1>1, SameKept

LEMMA EndKept ==
  ASSUME TypeOK, NEW s \in Session, End(s)
  PROVE  Kept(s)' /\ NextInTurn(s)
BY DEF End, Leave, TypeOK, Kept, NextInTurn

(* Only the actions of a session change its messages.                      *)
LEMMA OtherSession ==
  ASSUME TypeOK, NEW s \in Session, NEW b \in Session, b # s,
         \/ Browser(s) \/ Receive(s) \/ Handle(s) \/ Forward(s) \/ End(s)
         \/ Spawn(s) \/ Attach(s) \/ Exit(s) \/ Execute(s)
  PROVE  SameMessages(b)
<1>1. CASE Browser(s)
  <2>1. CASE Connect(s) \/ Close(s)
    BY <2>1 DEF Connect, Close, Send, TypeOK, task, SameMessages
  <2>2. ASSUME NEW p \in Pane, Unmount(s, p) \/ Type(s, p) PROVE SameMessages(b)
    BY <2>2 DEF Unmount, Type, Send, TypeOK, task, SameMessages
  <2>3. ASSUME NEW p \in Pane, NEW z \in Size, Mount(s, p, z) \/ Resize(s, p, z)
        PROVE  SameMessages(b)
    BY <2>3 DEF Mount, Resize, Send, TypeOK, task, SameMessages
  <2> QED
    BY <1>1, <2>1, <2>2, <2>3 DEF Browser
<1>2. CASE Receive(s)
  BY <1>2 DEF Receive, FirstRead, FirstMessage, FirstMessageFails, Read, Leave, Take, TypeOK,
              browser, SameMessages
<1>3. CASE Handle(s)
  <2>1. PICK type : NextMessage(s, type)
    BY <1>3 DEF Handle, HandleSub, HandleUnsub, HandleInput, HandleResize
  <2> QED
    BY <2>1 DEF NextMessage, TypeOK, browser, SameMessages
<1>4. CASE Forward(s) \/ Spawn(s) \/ Attach(s) \/ Exit(s) \/ Execute(s)
  BY <1>4 DEF Forward, ForwardOutput, DiscardOutput, Spawn, Attach, Exit, Execute, ExecuteKeys,
              ExecuteResize, browser, task, SameMessages
<1>5. CASE End(s)
  BY <1>5 DEF End, Leave, TypeOK, browser, SameMessages
<1> QED
  BY <1>1, <1>2, <1>3, <1>4, <1>5

LEMMA NextNumbered ==
  ASSUME TypeOK, Numbered, FirstAlone, [Next]_vars
  PROVE  Numbered' /\ \A b \in Session : NextInTurn(b)
<1> SUFFICES ASSUME NEW b \in Session PROVE Kept(b)' /\ NextInTurn(b)
  BY DEF Numbered
<1>1. Kept(b)
  BY DEF Numbered
<1>2. CASE UNCHANGED vars
  BY <1>1, <1>2, SameKept DEF vars, browser, task, SameMessages
<1>3. ASSUME NEW p \in Pane, Redraw(p) PROVE Kept(b)' /\ NextInTurn(b)
  BY <1>1, <1>3, SameKept DEF Redraw, browser, task, SameMessages
<1>4. ASSUME NEW s \in Session,
             \/ Browser(s) \/ Receive(s) \/ Handle(s) \/ Forward(s) \/ End(s)
             \/ Spawn(s) \/ Attach(s) \/ Exit(s) \/ Execute(s)
      PROVE  Kept(b)' /\ NextInTurn(b)
  <2>1. CASE b # s
    BY <1>1, <1>4, <2>1, OtherSession, SameKept
  <2>2. CASE b = s
    BY <1>1, <1>4, <2>2, BrowserKept, ReceiveKept, HandleKept, OthersKeep, EndKept
  <2> QED
    BY <2>1, <2>2
<1> QED
  BY <1>2, <1>3, <1>4 DEF Next

(* Provided that the first read ends with the first frame, the task        *)
(* handles what the browser sent in order, each message once and none left *)
(* out: wherever the reads of handle_session cut the stream, the buffer    *)
(* and the rest of the stream are the frames after the last one handled.   *)
(* Without the proviso the theorem is false: the main loop starts with an  *)
(* empty buffer, and what was read behind the first frame is lost.         *)
THEOREM EachMessageInTurn == FirstAlone => (Spec => MessagesInOrder)
<1> SUFFICES ASSUME FirstAlone PROVE Spec => MessagesInOrder
  OBVIOUS
<1>1. Init => TypeOK /\ Numbered
  BY InitTypes, InitNumbered
<1>2. TypeOK /\ Numbered /\ [Next]_vars => TypeOK' /\ Numbered'
  BY NextTypes, NextNumbered
<1>3. TypeOK /\ Numbered /\ [Next]_vars
        => [\A s \in Session : handled'[s] # handled[s] => handled'[s] = handled[s] + 1]_vars
  BY NextNumbered DEF NextInTurn
<1> QED
  BY <1>1, <1>2, <1>3, PTL DEF Spec, MessagesInOrder

-----------------------------------------------------------------------------
(* The terminals of the browser.                                           *)

(* The places of the messages of a set M in the stream u.                  *)
Places(u, M) == {i \in 1 .. Len(u) : u[i].part = 1 /\ u[i].msg \in M}

(* The last message of M in the stream is one of W; what it would bring    *)
(* about holds already when the stream has none.                           *)
Settles(u, M, W, now) ==
  /\ Places(u, M) = {} => now
  /\ \A i \in Places(u, M) : (\A j \in Places(u, M) : j <= i) => u[i].msg \in W

Subs(p) == {Sub(p), Unsub(p)}
Resizes(p) == {R(p, z) : z \in Size}
Wanted(s, p) == IF p \in mounted[s] THEN Sub(p) ELSE Unsub(p)

(* What a session is told last of each pane is what its browser has.       *)
SubSettled(s, p) ==
  Settles(Unhandled(s), Subs(p), {Wanted(s, p)}, p \in subscribed_panes[s] <=> p \in mounted[s])
SizeSettled(s, p) ==
  term[s][p] # NoSize =>
    Settles(Unhandled(s), Resizes(p), {R(p, term[s][p])}, pane_dimensions[s][p] = term[s][p])
SettledFor(s) ==
  /\ at[s] # "ended" => \A p \in Pane : SubSettled(s, p) /\ SizeSettled(s, p)
  /\ at[s] = "new" => Unhandled(s) = <<>> /\ mounted[s] = {}
  /\ at[s] = "first" => Unhandled(s) # <<>> /\ Unhandled(s)[1].msg = SessConnect
  /\ \A p \in mounted[s] : term[s][p] # NoSize
AllSettled == \A s \in Session : SettledFor(s)

(* Where the frames of messages are.                                       *)
LEMMA FramesOf ==
  ASSUME NEW u \in Seq(Unit), NEW msgs \in Seq(Message), NEW k \in Nat, k + Len(msgs) <= MaxSent
  PROVE  LET q == u \o Frames(msgs, k)
         IN  /\ q \in Seq(Unit) /\ Len(q) = Len(u) + 2 * Len(msgs)
             /\ \A i \in 1 .. Len(u) : q[i] = u[i]
             /\ \A m \in 1 .. Len(msgs) :
                  /\ q[Len(u) + (2 * m - 1)].msg = msgs[m] /\ q[Len(u) + (2 * m - 1)].part = 1
                  /\ q[Len(u) + 2 * m].part = 2
<1> DEFINE f == Frames(msgs, k)
<1>1. f \in Seq(Unit) /\ Len(f) = 2 * Len(msgs) /\ Len(msgs) \in Nat /\ Len(u) \in Nat
  BY FramesType DEF Frames
<1>2. \A i \in 1 .. 2 * Len(msgs) : f[i].msg = msgs[(i + 1) \div 2] /\ f[i].part = 2 - (i % 2)
  BY DEF Frames
<1>3. ASSUME NEW m \in 1 .. Len(msgs)
      PROVE  /\ f[2 * m - 1].msg = msgs[m] /\ f[2 * m - 1].part = 1 /\ f[2 * m].part = 2
             /\ 2 * m - 1 \in 1 .. Len(f) /\ 2 * m \in 1 .. Len(f)
  <2>1. /\ 2 * m - 1 \in 1 .. 2 * Len(msgs) /\ 2 * m \in 1 .. 2 * Len(msgs)
        /\ ((2 * m - 1) + 1) \div 2 = m /\ (2 * m - 1) % 2 = 1 /\ (2 * m) % 2 = 0
    BY <1>1
  <2> HIDE DEF f
  <2> QED
    BY <1>1, <1>2, <2>1
<1> HIDE DEF f
<1> DEFINE q == u \o f
<1>4. /\ q \in Seq(Unit) /\ Len(q) = Len(u) + Len(f)
      /\ \A i \in 1 .. Len(u) : q[i] = u[i]
      /\ \A i \in 1 .. Len(f) : q[Len(u) + i] = f[i]
  <2>1. q \in Seq(Unit) /\ Len(q) = Len(u) + Len(f)
    BY <1>1
  <2>2. \A i \in 1 .. Len(u) : q[i] = u[i]
    BY <1>1
  <2>3. \A i \in 1 .. Len(f) : q[Len(u) + i] = f[i]
    BY <1>1
  <2> QED
    BY <2>1, <2>2, <2>3
<1> HIDE DEF q
<1>5. ASSUME NEW m \in 1 .. Len(msgs)
      PROVE  /\ q[Len(u) + (2 * m - 1)].msg = msgs[m] /\ q[Len(u) + (2 * m - 1)].part = 1
             /\ q[Len(u) + 2 * m].part = 2
  <2> DEFINE odd == 2 * m - 1
             even == 2 * m
  <2>1. /\ f[odd].msg = msgs[m] /\ f[odd].part = 1 /\ f[even].part = 2
        /\ odd \in 1 .. Len(f) /\ even \in 1 .. Len(f)
    BY <1>3
  <2> HIDE DEF odd, even
  <2>2. q[Len(u) + odd] = f[odd] /\ q[Len(u) + even] = f[even]
    BY <1>4, <2>1
  <2>3. q[Len(u) + odd].msg = msgs[m] /\ q[Len(u) + odd].part = 1 /\ q[Len(u) + even].part = 2
    BY <2>1, <2>2
  <2> QED
    BY <2>3 DEF odd, even
<1> QED
  BY <1>1, <1>4, <1>5 DEF q, f

(* The places of a set of messages once more are sent.                     *)
LEMMA PlacesSent ==
  ASSUME NEW u \in Seq(Unit), NEW msgs \in Seq(Message), NEW k \in Nat, k + Len(msgs) <= MaxSent,
         NEW M
  PROVE  LET q == u \o Frames(msgs, k)
         IN  /\ \A i \in Places(u, M) : i \in Places(q, M) /\ q[i] = u[i]
             /\ \A m \in 1 .. Len(msgs) : msgs[m] \in M => Len(u) + (2 * m - 1) \in Places(q, M)
             /\ \A i \in Places(q, M) :
                  \/ i \in Places(u, M)
                  \/ \E m \in 1 .. Len(msgs) :
                       msgs[m] \in M /\ i = Len(u) + (2 * m - 1) /\ q[i].msg = msgs[m]
<1> DEFINE q == u \o Frames(msgs, k)
<1>1. Len(msgs) \in Nat /\ Len(u) \in Nat
  OBVIOUS
<1>2. /\ q \in Seq(Unit) /\ Len(q) = Len(u) + 2 * Len(msgs)
      /\ \A i \in 1 .. Len(u) : q[i] = u[i]
      /\ \A m \in 1 .. Len(msgs) :
           /\ q[Len(u) + (2 * m - 1)].msg = msgs[m] /\ q[Len(u) + (2 * m - 1)].part = 1
           /\ q[Len(u) + 2 * m].part = 2
  BY FramesOf
<1> HIDE DEF q
<1>3. ASSUME NEW i \in Places(u, M) PROVE i \in Places(q, M) /\ q[i] = u[i]
  BY <1>1, <1>2 DEF Places
<1>4. ASSUME NEW m \in 1 .. Len(msgs), msgs[m] \in M PROVE Len(u) + (2 * m - 1) \in Places(q, M)
  <2>1. Len(u) + (2 * m - 1) \in 1 .. Len(q)
    BY <1>1, <1>2
  <2> QED
    BY <1>2, <1>4, <2>1 DEF Places
<1>5. ASSUME NEW i \in Places(q, M), i \notin Places(u, M)
      PROVE  \E m \in 1 .. Len(msgs) :
               msgs[m] \in M /\ i = Len(u) + (2 * m - 1) /\ q[i].msg = msgs[m]
  <2>1. i \in 1 .. Len(q) /\ q[i].part = 1 /\ q[i].msg \in M
    BY DEF Places
  <2>2. i \notin 1 .. Len(u)
    BY <1>2, <1>5, <2>1 DEF Places
  <2>3. PICK m \in 1 .. Len(msgs) : i = Len(u) + (2 * m - 1) \/ i = Len(u) + 2 * m
    <3> DEFINE d == i - Len(u)
    <3>1. d \in 1 .. 2 * Len(msgs)
      BY <1>1, <1>2, <2>1, <2>2
    <3>2. (d + 1) \div 2 \in 1 .. Len(msgs)
      BY <1>1, <3>1
    <3>3. d = 2 * ((d + 1) \div 2) - 1 \/ d = 2 * ((d + 1) \div 2)
      BY <1>1, <3>1
    <3>4. i = Len(u) + d
      BY <1>1, <2>1
    <3> HIDE DEF d
    <3> QED
      BY <3>2, <3>3, <3>4
  <2>4. i = Len(u) + (2 * m - 1)
    <3>1. CASE i = Len(u) + 2 * m
      <4>1. q[i].part = 2
        BY <1>2, <3>1, Zenon
      <4> QED
        BY <2>1, <4>1
    <3> QED
      BY <2>3, <3>1
  <2> QED
    BY <1>2, <2>1, <2>4
<1> QED
  BY <1>3, <1>4, <1>5 DEF q

(* Messages that are not of the set change nothing ...                     *)
LEMMA OthersSent ==
  ASSUME NEW u \in Seq(Unit), NEW msgs \in Seq(Message), NEW k \in Nat, k + Len(msgs) <= MaxSent,
         NEW M, NEW W, NEW now \in BOOLEAN, NEW then \in BOOLEAN, now => then,
         Settles(u, M, W, now), \A m \in 1 .. Len(msgs) : msgs[m] \notin M
  PROVE  Settles(u \o Frames(msgs, k), M, W, then)
<1> DEFINE q == u \o Frames(msgs, k)
<1>1. /\ \A i \in Places(u, M) : i \in Places(q, M) /\ q[i] = u[i]
      /\ \A i \in Places(q, M) :
           \/ i \in Places(u, M)
           \/ \E m \in 1 .. Len(msgs) :
                msgs[m] \in M /\ i = Len(u) + (2 * m - 1) /\ q[i].msg = msgs[m]
  BY PlacesSent
<1> HIDE DEF q
<1>2. Places(q, M) = Places(u, M)
  BY <1>1
<1>3. \A i \in Places(u, M) : q[i] = u[i]
  BY <1>1
<1>4. Settles(q, M, W, then)
  BY <1>2, <1>3 DEF Settles
<1> QED
  BY <1>4 DEF q

(* ... and otherwise the last one of the set counts.                       *)
LEMMA LastSent ==
  ASSUME NEW u \in Seq(Unit), NEW msgs \in Seq(Message), NEW k \in Nat, k + Len(msgs) <= MaxSent,
         NEW M, NEW W, NEW then, NEW m \in 1 .. Len(msgs), msgs[m] \in M, msgs[m] \in W,
         \A n \in 1 .. Len(msgs) : n > m => msgs[n] \notin M
  PROVE  Settles(u \o Frames(msgs, k), M, W, then)
<1> DEFINE q == u \o Frames(msgs, k)
           last == Len(u) + (2 * m - 1)
<1>1. /\ \A n \in 1 .. Len(msgs) : msgs[n] \in M => Len(u) + (2 * n - 1) \in Places(q, M)
      /\ \A i \in Places(q, M) :
           \/ i \in Places(u, M)
           \/ \E n \in 1 .. Len(msgs) :
                msgs[n] \in M /\ i = Len(u) + (2 * n - 1) /\ q[i].msg = msgs[n]
  BY PlacesSent
<1> HIDE DEF q
<1>2. last \in Places(q, M)
  BY <1>1
<1>3. ASSUME NEW i \in Places(q, M), \A j \in Places(q, M) : j <= i PROVE q[i].msg \in W
  <2>1. Len(u) \in Nat /\ last <= i /\ last > Len(u)
    BY <1>2, <1>3
  <2>2. i \notin Places(u, M)
    BY <2>1 DEF Places
  <2>3. PICK n \in 1 .. Len(msgs) : msgs[n] \in M /\ i = Len(u) + (2 * n - 1) /\ q[i].msg = msgs[n]
    BY <1>1, <2>2
  <2>4. n >= m
    BY <2>1, <2>3
  <2>5. n = m
    BY <2>3, <2>4
  <2> QED
    BY <2>3, <2>5
<1>4. Settles(q, M, W, then)
  BY <1>2, <1>3 DEF Settles
<1> QED
  BY <1>4 DEF q

(* The message at the front is handled.                                    *)
LEMMA FrontSettled ==
  ASSUME NEW u \in Seq(Unit), NEW v \in Seq(Unit), FrontTaken(u, v), u[1].part = 1, u[2].part = 2,
         NEW M, NEW W, NEW now \in BOOLEAN, NEW then \in BOOLEAN, Settles(u, M, W, now),
         u[1].msg \in M => (u[1].msg \in W => then),
         u[1].msg \notin M => (now => then)
  PROVE  Settles(v, M, W, then)
<1>1. Len(u) \in Nat /\ Len(v) \in Nat /\ Len(u) = Len(v) + 2
  BY DEF FrontTaken
<1>2. ASSUME NEW i \in Places(v, M) PROVE i \in Nat /\ i + 2 \in Places(u, M) /\ v[i] = u[i + 2]
  BY <1>1 DEF Places, FrontTaken
<1>3. ASSUME NEW i \in Places(u, M), i # 1 PROVE i - 2 \in Places(v, M) /\ i \in Nat
  <2>1. i \in 1 .. Len(u) /\ u[i].part = 1 /\ u[i].msg \in M
    BY DEF Places
  <2>2. i # 2
    BY <2>1
  <2>3. i - 2 \in 1 .. Len(v) /\ (i - 2) + 2 = i
    BY <1>1, <1>3, <2>1, <2>2
  <2>4. v[i - 2] = u[i]
    BY <2>3 DEF FrontTaken
  <2> QED
    BY <2>1, <2>3, <2>4 DEF Places
<1>4. 1 \in Places(u, M) <=> u[1].msg \in M
  BY <1>1 DEF Places
<1>5. ASSUME Places(v, M) = {} PROVE then
  <2>1. \A i \in Places(u, M) : i = 1
    BY <1>3, <1>5
  <2>2. CASE u[1].msg \in M
    <3>1. \A i \in Places(u, M) : i <= 1
      BY <2>1
    <3> QED
      BY <1>4, <2>2, <3>1 DEF Settles
  <2>3. CASE u[1].msg \notin M
    <3>1. Places(u, M) = {}
      BY <1>4, <2>1, <2>3
    <3> QED
      BY <2>3, <3>1 DEF Settles
  <2> QED
    BY <2>2, <2>3
<1>6. ASSUME NEW i \in Places(v, M), \A j \in Places(v, M) : j <= i PROVE v[i].msg \in W
  <2>1. i \in Nat /\ i + 2 \in Places(u, M) /\ v[i] = u[i + 2]
    BY <1>2
  <2>2. ASSUME NEW j \in Places(u, M) PROVE j <= i + 2
    <3>1. CASE j = 1
      BY <2>1, <3>1
    <3>2. CASE j # 1
      <4>1. j - 2 \in Places(v, M) /\ j \in Nat
        BY <1>3, <3>2
      <4> QED
        BY <1>6, <2>1, <4>1
    <3> QED
      BY <3>1, <3>2
  <2> QED
    BY <2>1, <2>2 DEF Settles
<1> QED
  BY <1>5, <1>6 DEF Settles

(* The sets of messages, by what their members say.                        *)
LEMMA Kinds ==
  ASSUME NEW m \in Message, NEW p \in Pane
  PROVE  /\ m \in Subs(p) <=> m.t \in {"sub", "unsub"} /\ m.pane = p
         /\ m \in Resizes(p) <=> m.t = "r" /\ m.pane = p
         /\ m.t = "sub" => m = Sub(m.pane)
         /\ m.t = "unsub" => m = Unsub(m.pane)
         /\ m.t = "r" => m = R(m.pane, m.size)
<1>1. CASE m = SessConnect
  BY <1>1 DEF SessConnect, Subs, Resizes, Sub, Unsub, R
<1>2. ASSUME NEW q \in Pane, m = Sub(q) \/ m = Unsub(q) \/ m = I(q)
      PROVE  /\ m \in Subs(p) <=> m.t \in {"sub", "unsub"} /\ m.pane = p
             /\ m \in Resizes(p) <=> m.t = "r" /\ m.pane = p
             /\ m.t = "sub" => m = Sub(m.pane)
             /\ m.t = "unsub" => m = Unsub(m.pane)
             /\ m.t = "r" => m = R(m.pane, m.size)
  BY <1>2 DEF Subs, Resizes, Sub, Unsub, I, R
<1>3. ASSUME NEW q \in Pane, NEW z \in Size, m = R(q, z)
      PROVE  /\ m \in Subs(p) <=> m.t \in {"sub", "unsub"} /\ m.pane = p
             /\ m \in Resizes(p) <=> m.t = "r" /\ m.pane = p
             /\ m.t = "sub" => m = Sub(m.pane)
             /\ m.t = "unsub" => m = Unsub(m.pane)
             /\ m.t = "r" => m = R(m.pane, m.size)
  BY <1>3 DEF Subs, Resizes, Sub, Unsub, R
<1> QED
  BY <1>1, <1>2, <1>3 DEF Message

LEMMA MessageFields ==
  ASSUME NEW p, NEW z
  PROVE  /\ Sub(p).t = "sub" /\ Sub(p).pane = p
         /\ Unsub(p).t = "unsub" /\ Unsub(p).pane = p
         /\ I(p).t = "i" /\ R(p, z).t = "r" /\ R(p, z).pane = p /\ SessConnect.t = "sess_connect"
BY DEF Sub, Unsub, I, R, SessConnect

(* Messages that say nothing of a pane leave it settled.                   *)
LEMMA SilentOn ==
  ASSUME TypeOK, NEW s \in Session, NEW msgs \in Seq(Message), Send(s, msgs),
         UNCHANGED <<stream_buf, subscribed_panes, pane_dimensions>>, NEW p \in Pane
  PROVE  /\ /\ SubSettled(s, p) /\ (p \in mounted'[s] <=> p \in mounted[s])
            /\ \A m \in 1 .. Len(msgs) : msgs[m] \notin Subs(p)
            => SubSettled(s, p)'
         /\ /\ SizeSettled(s, p) /\ term'[s][p] = term[s][p]
            /\ \A m \in 1 .. Len(msgs) : msgs[m] \notin Resizes(p)
            => SizeSettled(s, p)'
<1>1. /\ sent[s] \in Nat /\ sent[s] + Len(msgs) <= MaxSent
      /\ Unhandled(s)' = Unhandled(s) \o Frames(msgs, sent[s])
      /\ Unhandled(s) \in Seq(Unit)
  BY SendAppends, UnhandledType
<1>2. ASSUME SubSettled(s, p), p \in mounted'[s] <=> p \in mounted[s],
             \A m \in 1 .. Len(msgs) : msgs[m] \notin Subs(p)
      PROVE  SubSettled(s, p)'
  <2> DEFINE now == p \in subscribed_panes[s] <=> p \in mounted[s]
  <2>1. Settles(Unhandled(s), Subs(p), {Wanted(s, p)}, now) /\ now \in BOOLEAN
    BY <1>2 DEF SubSettled
  <2>2. /\ Wanted(s, p)' = Wanted(s, p)
        /\ (p \in subscribed_panes'[s] <=> p \in mounted'[s]) = now
    BY <1>2 DEF Wanted
  <2> HIDE DEF now
  <2>3. Settles(Unhandled(s)', Subs(p), {Wanted(s, p)}, now)
    BY <1>1, <1>2, <2>1, OthersSent
  <2> QED
    BY <2>2, <2>3 DEF SubSettled
<1>3. ASSUME SizeSettled(s, p), term'[s][p] = term[s][p],
             \A m \in 1 .. Len(msgs) : msgs[m] \notin Resizes(p)
      PROVE  SizeSettled(s, p)'
  <2> SUFFICES ASSUME term[s][p] # NoSize
               PROVE  Settles(Unhandled(s)', Resizes(p), {R(p, term[s][p])},
                              pane_dimensions[s][p] = term[s][p])
    BY <1>3 DEF SizeSettled
  <2> DEFINE now == pane_dimensions[s][p] = term[s][p]
  <2>1. Settles(Unhandled(s), Resizes(p), {R(p, term[s][p])}, now) /\ now \in BOOLEAN
    BY <1>3 DEF SizeSettled
  <2> HIDE DEF now
  <2>2. Settles(Unhandled(s)', Resizes(p), {R(p, term[s][p])}, now)
    BY <1>1, <1>3, <2>1, OthersSent
  <2> QED
    BY <2>2 DEF now
<1> QED
  BY <1>2, <1>3

(* The last message that says something of it settles it.                  *)
LEMMA SpeaksOf ==
  ASSUME TypeOK, NEW s \in Session, NEW msgs \in Seq(Message), Send(s, msgs),
         UNCHANGED stream_buf, NEW p \in Pane, NEW m \in 1 .. Len(msgs)
  PROVE  /\ /\ msgs[m] = Wanted(s, p)'
            /\ \A n \in 1 .. Len(msgs) : n > m => msgs[n] \notin Subs(p)
            => SubSettled(s, p)'
         /\ /\ term'[s][p] \in Size /\ msgs[m] = R(p, term'[s][p])
            /\ \A n \in 1 .. Len(msgs) : n > m => msgs[n] \notin Resizes(p)
            => SizeSettled(s, p)'
<1>1. /\ sent[s] \in Nat /\ sent[s] + Len(msgs) <= MaxSent
      /\ Unhandled(s)' = Unhandled(s) \o Frames(msgs, sent[s])
      /\ Unhandled(s) \in Seq(Unit)
  BY SendAppends, UnhandledType
<1>2. ASSUME msgs[m] = Wanted(s, p)',
             \A n \in 1 .. Len(msgs) : n > m => msgs[n] \notin Subs(p)
      PROVE  SubSettled(s, p)'
  <2> DEFINE then == p \in subscribed_panes'[s] <=> p \in mounted'[s]
             w == Wanted(s, p)'
  <2>1. w \in Subs(p) /\ w \in {w}
    BY DEF Wanted, Subs
  <2> HIDE DEF then, w
  <2>2. Settles(Unhandled(s)', Subs(p), {w}, then)
    <3>1. msgs[m] \in Subs(p) /\ msgs[m] \in {w}
      BY <1>2, <2>1 DEF w
    <3> QED
      BY <1>1, <1>2, <3>1, LastSent
  <2> QED
    BY <2>2 DEF SubSettled, then, w
<1>3. ASSUME term'[s][p] \in Size, msgs[m] = R(p, term'[s][p]),
             \A n \in 1 .. Len(msgs) : n > m => msgs[n] \notin Resizes(p)
      PROVE  SizeSettled(s, p)'
  <2> DEFINE then == pane_dimensions'[s][p] = term'[s][p]
             w == R(p, term'[s][p])
  <2>1. w \in Resizes(p) /\ w \in {w}
    BY <1>3 DEF Resizes
  <2> HIDE DEF then, w
  <2>2. Settles(Unhandled(s)', Resizes(p), {w}, then)
    <3>1. msgs[m] \in Resizes(p) /\ msgs[m] \in {w}
      BY <1>3, <2>1 DEF w
    <3> QED
      BY <1>1, <1>3, <3>1, LastSent
  <2> QED
    BY <2>2 DEF SizeSettled, then, w
<1> QED
  BY <1>2, <1>3

(* The first message stays at the front.                                   *)
LEMMA StartKept ==
  ASSUME TypeOK, NEW s \in Session, SettledFor(s), NEW msgs \in Seq(Message), Send(s, msgs),
         UNCHANGED stream_buf, at[s] = "first"
  PROVE  Unhandled(s)' # <<>> /\ Unhandled(s)'[1].msg = SessConnect
<1> DEFINE u == Unhandled(s)
           q == u \o Frames(msgs, sent[s])
<1>1. /\ sent[s] \in Nat /\ sent[s] + Len(msgs) <= MaxSent
      /\ Unhandled(s)' = q /\ u \in Seq(Unit)
  BY SendAppends, UnhandledType
<1>2. u # <<>> /\ u[1].msg = SessConnect
  BY DEF SettledFor
<1>3. /\ q \in Seq(Unit) /\ Len(q) = Len(u) + 2 * Len(msgs)
      /\ \A i \in 1 .. Len(u) : q[i] = u[i]
  BY <1>1, FramesOf
<1> HIDE DEF u, q
<1>4. 1 \in 1 .. Len(u) /\ Len(u) \in Nat /\ Len(msgs) \in Nat
  BY <1>1, <1>2
<1>5. q[1] = u[1] /\ q # <<>>
  BY <1>3, <1>4
<1> QED
  BY <1>1, <1>2, <1>5 DEF u

LEMMA ConnectedSettled ==
  ASSUME TypeOK, NEW s \in Session, SettledFor(s), NEW msgs \in Seq(Message), Send(s, msgs),
         Connected(s), UNCHANGED task,
         \A p \in mounted'[s] : term'[s][p] # NoSize,
         \A p \in Pane : SubSettled(s, p)' /\ SizeSettled(s, p)'
  PROVE  SettledFor(s)'
<1>1. at'[s] = at[s] /\ at[s] # "new" /\ UNCHANGED stream_buf
  BY DEF Connected, task
<1> QED
  BY <1>1, StartKept DEF SettledFor

LEMMA ResizeSettled ==
  ASSUME TypeOK, NEW s \in Session, SettledFor(s), NEW p \in Pane, NEW z \in Size, Resize(s, p, z)
  PROVE  SettledFor(s)'
<1> DEFINE msgs == <<R(p, z)>>
<1>1. msgs \in Seq(Message) /\ Len(msgs) = 1 /\ msgs[1] = R(p, z) /\ R(p, z) \in Message
  BY DEF R, Message
<1>2. /\ Send(s, msgs) /\ Connected(s) /\ UNCHANGED task /\ mounted' = mounted
      /\ term' = [term EXCEPT ![s][p] = z]
  BY DEF Resize
<1> HIDE DEF msgs
<1>3. /\ UNCHANGED <<stream_buf, subscribed_panes, pane_dimensions>>
      /\ term'[s][p] = z /\ \A q \in Pane : q # p => term'[s][q] = term[s][q]
      /\ z # NoSize
  BY <1>2, SizeAssumption DEF task, TypeOK
<1>4. \A q \in Pane : R(p, z) \notin Subs(q) /\ (q # p => R(p, z) \notin Resizes(q))
  BY <1>1, Kinds, MessageFields
<1>5. \A q \in Pane : SubSettled(s, q) /\ SizeSettled(s, q)
  BY <1>2 DEF SettledFor, Connected
<1>6. \A m \in 1 .. Len(msgs) : m = 1
  BY <1>1
<1>7. ASSUME NEW q \in Pane PROVE SubSettled(s, q)'
  BY <1>1, <1>2, <1>3, <1>4, <1>5, <1>6, SilentOn
<1>8. ASSUME NEW q \in Pane, q # p PROVE SizeSettled(s, q)'
  BY <1>1, <1>2, <1>3, <1>4, <1>5, <1>6, <1>8, SilentOn
<1>9. SizeSettled(s, p)'
  <2>1. 1 \in 1 .. Len(msgs) /\ \A n \in 1 .. Len(msgs) : ~(n > 1)
    BY <1>1
  <2> QED
    BY <1>1, <1>2, <1>3, <2>1, SpeaksOf
<1>10. \A q \in mounted'[s] : term'[s][q] # NoSize
  BY <1>2, <1>3 DEF SettledFor, TypeOK
<1> QED
  BY <1>1, <1>2, <1>7, <1>8, <1>9, <1>10, ConnectedSettled

LEMMA MountSettled ==
  ASSUME TypeOK, NEW s \in Session, SettledFor(s), NEW p \in Pane, NEW z \in Size, Mount(s, p, z)
  PROVE  SettledFor(s)'
<1> DEFINE msgs == <<Sub(p), R(p, z)>>
<1>1. /\ msgs \in Seq(Message) /\ Len(msgs) = 2 /\ msgs[1] = Sub(p) /\ msgs[2] = R(p, z)
      /\ Sub(p) \in Message /\ R(p, z) \in Message
  BY DEF Sub, R, Message
<1>2. /\ Send(s, msgs) /\ Connected(s) /\ UNCHANGED task
      /\ mounted' = [mounted EXCEPT ![s] = @ \cup {p}]
      /\ term' = [term EXCEPT ![s][p] = z]
  BY DEF Mount
<1> HIDE DEF msgs
<1>3. /\ UNCHANGED <<stream_buf, subscribed_panes, pane_dimensions>>
      /\ term'[s][p] = z /\ \A q \in Pane : q # p => term'[s][q] = term[s][q]
      /\ mounted'[s] = mounted[s] \cup {p} /\ z # NoSize
  BY <1>2, SizeAssumption DEF task, TypeOK
<1>4. \A q \in Pane :
        /\ R(p, z) \notin Subs(q) /\ Sub(p) \notin Resizes(q)
        /\ q # p => R(p, z) \notin Resizes(q) /\ Sub(p) \notin Subs(q)
  BY <1>1, Kinds, MessageFields
<1>5. \A q \in Pane : SubSettled(s, q) /\ SizeSettled(s, q)
  BY <1>2 DEF SettledFor, Connected
<1>6. \A m \in 1 .. Len(msgs) : m = 1 \/ m = 2
  BY <1>1
<1>7. ASSUME NEW q \in Pane, q # p PROVE SubSettled(s, q)' /\ SizeSettled(s, q)'
  <2>1. q \in mounted'[s] <=> q \in mounted[s]
    BY <1>3, <1>7
  <2>2. \A m \in 1 .. Len(msgs) : msgs[m] \notin Subs(q) /\ msgs[m] \notin Resizes(q)
    BY <1>1, <1>4, <1>6, <1>7
  <2> QED
    BY <1>1, <1>2, <1>3, <1>5, <1>7, <2>1, <2>2, SilentOn
<1>8. SubSettled(s, p)'
  <2>1. 1 \in 1 .. Len(msgs) /\ \A n \in 1 .. Len(msgs) : n > 1 => msgs[n] \notin Subs(p)
    BY <1>1, <1>4, <1>6
  <2>2. Wanted(s, p)' = Sub(p)
    BY <1>3 DEF Wanted
  <2> QED
    BY <1>1, <1>2, <1>3, <2>1, <2>2, SpeaksOf
<1>9. SizeSettled(s, p)'
  <2>1. 2 \in 1 .. Len(msgs) /\ \A n \in 1 .. Len(msgs) : ~(n > 2)
    BY <1>1
  <2> QED
    BY <1>1, <1>2, <1>3, <2>1, SpeaksOf
<1>10. \A q \in mounted'[s] : term'[s][q] # NoSize
  BY <1>3 DEF SettledFor, TypeOK
<1> QED
  BY <1>1, <1>2, <1>7, <1>8, <1>9, <1>10, ConnectedSettled

LEMMA UnmountSettled ==
  ASSUME TypeOK, NEW s \in Session, SettledFor(s), NEW p \in Pane, Unmount(s, p)
  PROVE  SettledFor(s)'
<1> DEFINE msgs == <<Unsub(p)>>
<1>1. msgs \in Seq(Message) /\ Len(msgs) = 1 /\ msgs[1] = Unsub(p) /\ Unsub(p) \in Message
  BY DEF Unsub, Message
<1>2. /\ Send(s, msgs) /\ Connected(s) /\ UNCHANGED task /\ term' = term
      /\ mounted' = [mounted EXCEPT ![s] = @ \ {p}]
  BY DEF Unmount
<1> HIDE DEF msgs
<1>3. /\ UNCHANGED <<stream_buf, subscribed_panes, pane_dimensions>>
      /\ mounted'[s] = mounted[s] \ {p}
  BY <1>2 DEF task, TypeOK
<1>4. \A q \in Pane : Unsub(p) \notin Resizes(q) /\ (q # p => Unsub(p) \notin Subs(q))
  BY <1>1, Kinds, MessageFields
<1>5. \A q \in Pane : SubSettled(s, q) /\ SizeSettled(s, q)
  BY <1>2 DEF SettledFor, Connected
<1>6. \A m \in 1 .. Len(msgs) : m = 1
  BY <1>1
<1>7. ASSUME NEW q \in Pane PROVE SizeSettled(s, q)'
  BY <1>1, <1>2, <1>3, <1>4, <1>5, <1>6, SilentOn
<1>8. ASSUME NEW q \in Pane, q # p PROVE SubSettled(s, q)'
  <2>1. q \in mounted'[s] <=> q \in mounted[s]
    BY <1>3, <1>8
  <2> QED
    BY <1>1, <1>2, <1>3, <1>4, <1>5, <1>6, <1>8, <2>1, SilentOn
<1>9. SubSettled(s, p)'
  <2>1. 1 \in 1 .. Len(msgs) /\ \A n \in 1 .. Len(msgs) : ~(n > 1)
    BY <1>1
  <2>2. Wanted(s, p)' = Unsub(p)
    BY <1>3 DEF Wanted
  <2> QED
    BY <1>1, <1>2, <1>3, <2>1, <2>2, SpeaksOf
<1>10. \A q \in mounted'[s] : term'[s][q] # NoSize
  BY <1>2, <1>3 DEF SettledFor
<1> QED
  BY <1>1, <1>2, <1>7, <1>8, <1>9, <1>10, ConnectedSettled

LEMMA TypeSettled ==
  ASSUME TypeOK, NEW s \in Session, SettledFor(s), NEW p \in Pane, Type(s, p)
  PROVE  SettledFor(s)'
<1> DEFINE msgs == <<I(p)>>
<1>1. msgs \in Seq(Message) /\ Len(msgs) = 1 /\ msgs[1] = I(p) /\ I(p) \in Message
  BY DEF I, Message
<1>2. /\ Send(s, msgs) /\ Connected(s) /\ UNCHANGED task /\ UNCHANGED <<mounted, term>>
  BY DEF Type
<1> HIDE DEF msgs
<1>3. UNCHANGED <<stream_buf, subscribed_panes, pane_dimensions>>
  BY <1>2 DEF task
<1>4. \A q \in Pane : I(p) \notin Subs(q) /\ I(p) \notin Resizes(q)
  BY <1>1, Kinds, MessageFields
<1>5. \A q \in Pane : SubSettled(s, q) /\ SizeSettled(s, q)
  BY <1>2 DEF SettledFor, Connected
<1>6. \A m \in 1 .. Len(msgs) : m = 1
  BY <1>1
<1>7. ASSUME NEW q \in Pane PROVE SubSettled(s, q)' /\ SizeSettled(s, q)'
  BY <1>1, <1>2, <1>3, <1>4, <1>5, <1>6, SilentOn
<1>8. \A q \in mounted'[s] : term'[s][q] # NoSize
  BY <1>2 DEF SettledFor
<1> QED
  BY <1>1, <1>2, <1>7, <1>8, ConnectedSettled

(* A pane has one place in an order of the panes.                          *)
LEMMA OrderOnce ==
  ASSUME NEW S \in SUBSET Pane, NEW order \in SetToSeqs(S), NEW p \in S
  PROVE  \E k \in 1 .. Len(order) : \A j \in 1 .. Len(order) : order[j] = p <=> j = k
<1> DEFINE D == 1 .. Cardinality(S)
<1>1. IsFiniteSet(S) /\ Cardinality(S) \in Nat
  BY PaneAssumption, FS_Subset, FS_CardinalityType
<1>2. order \in [D -> S] /\ \A i, j \in D : i # j => order[i] # order[j]
  BY DEF SetToSeqs
<1>3. order \in Injection(D, S)
  BY <1>2 DEF Injection, IsInjective
<1>4. Cardinality(D) = Cardinality(S)
  BY <1>1, FS_Interval
<1>5. order \in Surjection(D, S)
  BY <1>1, <1>3, <1>4, FS_Injection
<1>6. PICK k \in D : order[k] = p
  BY <1>5 DEF Surjection
<1>7. Len(order) = Cardinality(S)
  BY <1>1, <1>2
<1> QED
  BY <1>2, <1>6, <1>7

(* What is sent after the handshake, by its places.                        *)
LEMMA ResubscribePlaces ==
  ASSUME NEW S \in SUBSET Pane, NEW tm \in [S -> Size], NEW order \in SetToSeqs(S)
  PROVE  LET msgs == Resubscribe(order, tm)
         IN  /\ Len(order) \in Nat /\ Len(msgs) = 2 * Len(order) + 1 /\ msgs[1] = SessConnect
             /\ \A k \in 1 .. Len(order) :
                  /\ order[k] \in S
                  /\ msgs[2 * k] = Sub(order[k]) /\ msgs[2 * k + 1] = R(order[k], tm[order[k]])
             /\ \A n \in 1 .. Len(msgs) :
                  n = 1 \/ \E k \in 1 .. Len(order) : n = 2 * k \/ n = 2 * k + 1
<1> DEFINE msgs == Resubscribe(order, tm)
<1>1. order \in Seq(S) /\ Len(order) \in Nat
  BY OrderType
<1>2. Len(msgs) = 2 * Len(order) + 1
  BY <1>1 DEF Resubscribe
<1>3. \A i \in 1 .. 2 * Len(order) + 1 :
        msgs[i] = IF i = 1 THEN SessConnect
                  ELSE IF i % 2 = 0 THEN Sub(order[i \div 2])
                       ELSE R(order[i \div 2], tm[order[i \div 2]])
  BY <1>1 DEF Resubscribe
<1> HIDE DEF msgs
<1>4. msgs[1] = SessConnect
  BY <1>1, <1>3
<1>5. ASSUME NEW k \in 1 .. Len(order)
      PROVE  /\ order[k] \in S
             /\ msgs[2 * k] = Sub(order[k]) /\ msgs[2 * k + 1] = R(order[k], tm[order[k]])
  <2> DEFINE even == 2 * k
             odd == 2 * k + 1
  <2>1. /\ even \in 1 .. 2 * Len(order) + 1 /\ even # 1 /\ even % 2 = 0 /\ even \div 2 = k
        /\ odd \in 1 .. 2 * Len(order) + 1 /\ odd # 1 /\ odd % 2 # 0 /\ odd \div 2 = k
    BY <1>1
  <2> HIDE DEF even, odd
  <2>2. msgs[even] = Sub(order[k]) /\ msgs[odd] = R(order[k], tm[order[k]])
    BY <1>3, <2>1
  <2> QED
    BY <1>1, <2>2 DEF even, odd
<1>6. ASSUME NEW n \in 1 .. Len(msgs), n # 1
      PROVE  \E k \in 1 .. Len(order) : n = 2 * k \/ n = 2 * k + 1
  <2>1. n \in Nat /\ n >= 2 /\ n <= 2 * Len(order) + 1
    BY <1>1, <1>2, <1>6
  <2>2. n \div 2 \in 1 .. Len(order) /\ (n = 2 * (n \div 2) \/ n = 2 * (n \div 2) + 1)
    BY <1>1, <2>1
  <2> QED
    BY <2>2
<1> QED
  BY <1>1, <1>2, <1>4, <1>5, <1>6 DEF msgs

LEMMA ConnectSettled ==
  ASSUME TypeOK, NEW s \in Session, SettledFor(s), Connect(s)
  PROVE  SettledFor(s)'
<1>1. PICK panes \in SUBSET Pane : \E tm \in [panes -> Size], order \in SetToSeqs(panes) :
        /\ Send(s, Resubscribe(order, tm))
        /\ mounted' = [mounted EXCEPT ![s] = panes]
        /\ term' = [term EXCEPT ![s] = [p \in Pane |-> IF p \in panes THEN tm[p] ELSE NoSize]]
  BY DEF Connect
<1>2. PICK tm \in [panes -> Size], order \in SetToSeqs(panes) :
        /\ Send(s, Resubscribe(order, tm))
        /\ mounted' = [mounted EXCEPT ![s] = panes]
        /\ term' = [term EXCEPT ![s] = [p \in Pane |-> IF p \in panes THEN tm[p] ELSE NoSize]]
  BY <1>1
<1> DEFINE msgs == Resubscribe(order, tm)
<1>3. msgs \in Seq(Message)
  BY ResubscribeType
<1>4. /\ Len(order) \in Nat /\ Len(msgs) = 2 * Len(order) + 1 /\ msgs[1] = SessConnect
      /\ \A k \in 1 .. Len(order) :
           /\ order[k] \in panes
           /\ msgs[2 * k] = Sub(order[k]) /\ msgs[2 * k + 1] = R(order[k], tm[order[k]])
      /\ \A n \in 1 .. Len(msgs) :
           n = 1 \/ \E k \in 1 .. Len(order) : n = 2 * k \/ n = 2 * k + 1
  BY ResubscribePlaces
<1>5. Send(s, msgs)
  BY <1>2
<1> HIDE DEF msgs
<1>6. /\ at[s] = "new" /\ at'[s] = "first"
      /\ UNCHANGED <<stream_buf, subscribed_panes, pane_dimensions>>
      /\ mounted'[s] = panes
      /\ \A p \in Pane : term'[s][p] = IF p \in panes THEN tm[p] ELSE NoSize
  BY <1>2 DEF Connect, TypeOK
<1>7. ASSUME NEW p \in panes PROVE SubSettled(s, p)' /\ SizeSettled(s, p)'
  <2>1. PICK k \in 1 .. Len(order) : \A j \in 1 .. Len(order) : order[j] = p <=> j = k
    BY OrderOnce
  <2>2. /\ msgs[2 * k] = Sub(p) /\ msgs[2 * k + 1] = R(p, tm[p])
        /\ 2 * k \in 1 .. Len(msgs) /\ 2 * k + 1 \in 1 .. Len(msgs)
    BY <1>4, <2>1
  <2>3. ASSUME NEW n \in 1 .. Len(msgs), n > 2 * k
        PROVE  msgs[n] \notin Subs(p) /\ (n > 2 * k + 1 => msgs[n] \notin Resizes(p))
    <3>1. PICK j \in 1 .. Len(order) : n = 2 * j \/ n = 2 * j + 1
      BY <1>4, <2>3
    <3>2. /\ msgs[n] \in Message /\ p \in Pane
          /\ msgs[2 * j] = Sub(order[j]) /\ msgs[2 * j + 1] = R(order[j], tm[order[j]])
      BY <1>3, <1>4
    <3>3. CASE n = 2 * j
      <4>1. j # k
        BY <2>3, <3>3
      <4> QED
        BY <2>1, <3>2, <3>3, <4>1, Kinds, MessageFields
    <3>4. CASE n = 2 * j + 1
      <4>1. n > 2 * k + 1 => j # k
        BY <3>4
      <4> QED
        BY <2>1, <3>2, <3>4, <4>1, Kinds, MessageFields
    <3> QED
      BY <3>1, <3>3, <3>4
  <2>4. SubSettled(s, p)'
    <3>1. Wanted(s, p)' = msgs[2 * k]
      BY <1>6, <2>2 DEF Wanted
    <3> QED
      BY <1>3, <1>5, <1>6, <2>2, <2>3, <3>1, SpeaksOf
  <2>5. SizeSettled(s, p)'
    <3>1. term'[s][p] = tm[p] /\ tm[p] \in Size
      BY <1>6
    <3>2. \A n \in 1 .. Len(msgs) : n > 2 * k + 1 => msgs[n] \notin Resizes(p)
      BY <2>3
    <3> QED
      BY <1>3, <1>5, <1>6, <2>2, <3>1, <3>2, SpeaksOf
  <2> QED
    BY <2>4, <2>5
<1>8. ASSUME NEW p \in Pane, p \notin panes PROVE SubSettled(s, p)' /\ SizeSettled(s, p)'
  <2>1. SizeSettled(s, p)'
    BY <1>6, <1>8 DEF SizeSettled
  <2>2. SubSettled(s, p) /\ (p \in mounted'[s] <=> p \in mounted[s])
    BY <1>6, <1>8 DEF SettledFor
  <2>3. ASSUME NEW n \in 1 .. Len(msgs) PROVE msgs[n] \notin Subs(p)
    <3>1. msgs[n] \in Message
      BY <1>3
    <3>2. CASE n = 1
      BY <1>4, <3>1, <3>2, Kinds, MessageFields
    <3>3. CASE n # 1
      <4>1. PICK k \in 1 .. Len(order) : n = 2 * k \/ n = 2 * k + 1
        BY <1>4, <3>3
      <4>2. /\ order[k] # p
            /\ msgs[n] = Sub(order[k]) \/ msgs[n] = R(order[k], tm[order[k]])
        BY <1>4, <1>8, <4>1
      <4> QED
        BY <3>1, <4>2, Kinds, MessageFields
    <3> QED
      BY <3>2, <3>3
  <2>4. SubSettled(s, p)'
    BY <1>3, <1>5, <1>6, <2>2, <2>3, SilentOn
  <2> QED
    BY <2>1, <2>4
<1>9. Unhandled(s)' # <<>> /\ Unhandled(s)'[1].msg = SessConnect
  <2> DEFINE q == Unhandled(s) \o Frames(msgs, sent[s])
  <2>1. /\ Unhandled(s)' = q /\ Unhandled(s) \in Seq(Unit)
        /\ sent[s] \in Nat /\ sent[s] + Len(msgs) <= MaxSent
    BY <1>3, <1>5, <1>6, SendAppends, UnhandledType
  <2>2. Unhandled(s) = <<>>
    BY <1>6 DEF SettledFor
  <2>3. 1 \in 1 .. Len(msgs)
    BY <1>4
  <2>4. /\ q \in Seq(Unit) /\ Len(q) = Len(Unhandled(s)) + 2 * Len(msgs)
        /\ q[Len(Unhandled(s)) + (2 * 1 - 1)].msg = msgs[1]
    BY <1>3, <2>1, <2>3, FramesOf
  <2> HIDE DEF q
  <2>5. Len(Unhandled(s)) = 0 /\ Len(q) > 0 /\ q[1].msg = SessConnect
    BY <1>4, <2>2, <2>4
  <2> QED
    BY <2>1, <2>4, <2>5
<1>10. \A p \in mounted'[s] : term'[s][p] # NoSize
  BY <1>6, SizeAssumption
<1> QED
  BY <1>6, <1>7, <1>8, <1>9, <1>10 DEF SettledFor

(* What the other sessions and tasks do leaves the terminals of s alone.   *)
SameTerminals(s) ==
  /\ mounted'[s] = mounted[s] /\ term'[s] = term[s]
  /\ subscribed_panes'[s] = subscribed_panes[s] /\ pane_dimensions'[s] = pane_dimensions[s]

LEMMA SameSettled ==
  ASSUME NEW s \in Session, SettledFor(s), SameTerminals(s), at'[s] = at[s],
         Unhandled(s)' = Unhandled(s)
  PROVE  SettledFor(s)'
BY DEF SettledFor, SameTerminals, SubSettled, SizeSettled, Wanted

LEMMA BrowserSettled ==
  ASSUME TypeOK, NEW s \in Session, SettledFor(s), Browser(s)
  PROVE  SettledFor(s)'
<1>1. CASE Close(s)
  BY <1>1, SameSettled DEF Close, task, SameTerminals, Unhandled
<1> QED
  BY <1>1, ConnectSettled, MountSettled, ResizeSettled, UnmountSettled, TypeSettled DEF Browser

LEMMA EndSettled ==
  ASSUME TypeOK, NEW s \in Session, SettledFor(s), FirstMessageFails(s) \/ End(s)
  PROVE  SettledFor(s)'
<1>1. at'[s] = "ended" /\ mounted'[s] = mounted[s] /\ term'[s] = term[s]
  BY DEF FirstMessageFails, End, Leave, TypeOK, browser
<1> QED
  BY <1>1 DEF SettledFor

(* The two parts of the message at the front.                              *)
LEMMA FrontParts ==
  ASSUME TypeOK, NEW s \in Session, Kept(s), at[s] # "ended", Len(Unhandled(s)) >= 2
  PROVE  Unhandled(s)[1].part = 1 /\ Unhandled(s)[2].part = 2
<1> DEFINE u == Unhandled(s)
<1>1. u \in Seq(Unit) /\ handled[s] \in Nat /\ InStep(u, handled[s], sent[s])
  BY UnhandledType DEF Kept
<1>2. Len(u) >= 2
  OBVIOUS
<1> HIDE DEF u
<1>3. 1 \in 1 .. Len(u) /\ 2 \in 1 .. Len(u)
  BY <1>1, <1>2
<1>4. /\ u[1].n \in Nat /\ u[1].part \in {1, 2} /\ 2 * (u[1].n - handled[s]) + u[1].part = 1 + 2
      /\ u[2].n \in Nat /\ u[2].part \in {1, 2} /\ 2 * (u[2].n - handled[s]) + u[2].part = 2 + 2
  BY <1>1, <1>3, UnitNumbers DEF InStep
<1>5. \A n, h \in Nat : 2 * (n - h) + 2 # 1 + 2 /\ 2 * (n - h) + 1 # 2 + 2
  OBVIOUS
<1>6. u[1].part = 1 /\ u[2].part = 2
  BY <1>1, <1>4, <1>5
<1> QED
  BY <1>6 DEF u

(* A message is taken from the front, and with it what it says is done.    *)
LEMMA TakenSettled ==
  ASSUME TypeOK, NEW s \in Session, SettledFor(s), Kept(s), at[s] \in {"first", "loop"},
         FrontTaken(Unhandled(s), Unhandled(s)'), Unhandled(s)' \in Seq(Unit),
         UNCHANGED <<mounted, term>>, NEW p \in Pane, NEW m \in Message, m = Unhandled(s)[1].msg
  PROVE  /\ /\ m = Sub(p) => p \in subscribed_panes'[s]
            /\ m = Unsub(p) => p \notin subscribed_panes'[s]
            /\ m \notin Subs(p) => (p \in subscribed_panes'[s] <=> p \in subscribed_panes[s])
            => SubSettled(s, p)'
         /\ /\ m \in Resizes(p) => pane_dimensions'[s][p] = m.size
            /\ m \notin Resizes(p) => pane_dimensions'[s][p] = pane_dimensions[s][p]
            => SizeSettled(s, p)'
<1> DEFINE u == Unhandled(s)
           v == Unhandled(s)'
<1>1. /\ u \in Seq(Unit) /\ v \in Seq(Unit) /\ FrontTaken(u, v)
      /\ u[1].part = 1 /\ u[2].part = 2 /\ u[1].msg = m
  BY UnhandledType, FrontParts DEF FrontTaken
<1>2. SubSettled(s, p) /\ SizeSettled(s, p)
  BY DEF SettledFor
<1>3. ASSUME m = Sub(p) => p \in subscribed_panes'[s],
             m = Unsub(p) => p \notin subscribed_panes'[s],
             m \notin Subs(p) => (p \in subscribed_panes'[s] <=> p \in subscribed_panes[s])
      PROVE  SubSettled(s, p)'
  <2> DEFINE now == p \in subscribed_panes[s] <=> p \in mounted[s]
             then == p \in subscribed_panes'[s] <=> p \in mounted[s]
             w == Wanted(s, p)
  <2>1. Settles(u, Subs(p), {w}, now) /\ now \in BOOLEAN /\ then \in BOOLEAN
    BY <1>2 DEF SubSettled
  <2>2. m \in Subs(p) => (m \in {w} => then)
    <3>1. p \notin mounted[s] => w = Unsub(p)
      BY DEF Wanted
    <3>2. p \in mounted[s] => w = Sub(p)
      BY DEF Wanted
    <3> HIDE DEF w
    <3> QED
      BY <1>3, <3>1, <3>2
  <2>3. m \notin Subs(p) => (now => then)
    BY <1>3
  <2> HIDE DEF u, v, now, then, w
  <2>4. Settles(v, Subs(p), {w}, then)
    BY <1>1, <2>1, <2>2, <2>3, FrontSettled
  <2>5. Wanted(s, p)' = w /\ (p \in subscribed_panes'[s] <=> p \in mounted'[s]) = then
    BY DEF Wanted, w, then
  <2> QED
    BY <2>4, <2>5 DEF SubSettled, v
<1>4. ASSUME m \in Resizes(p) => pane_dimensions'[s][p] = m.size,
             m \notin Resizes(p) => pane_dimensions'[s][p] = pane_dimensions[s][p]
      PROVE  SizeSettled(s, p)'
  <2> SUFFICES ASSUME term[s][p] # NoSize
               PROVE  Settles(v, Resizes(p), {R(p, term[s][p])},
                              pane_dimensions'[s][p] = term[s][p])
    BY DEF SizeSettled
  <2> DEFINE now == pane_dimensions[s][p] = term[s][p]
             then == pane_dimensions'[s][p] = term[s][p]
             w == R(p, term[s][p])
  <2>1. Settles(u, Resizes(p), {w}, now) /\ now \in BOOLEAN /\ then \in BOOLEAN
    BY <1>2 DEF SizeSettled
  <2>2. m \in Resizes(p) => (m \in {w} => then)
    <3>1. m = w => m.size = term[s][p]
      BY DEF R
    <3> HIDE DEF w
    <3> QED
      BY <1>4, <3>1
  <2>3. m \notin Resizes(p) => (now => then)
    BY <1>4
  <2> HIDE DEF u, v, now, then, w
  <2>4. Settles(v, Resizes(p), {w}, then)
    BY <1>1, <2>1, <2>2, <2>3, FrontSettled
  <2> QED
    BY <2>4 DEF then, w
<1> QED
  BY <1>3, <1>4

LEMMA ReceiveSettled ==
  ASSUME TypeOK, FirstAlone, NEW s \in Session, SettledFor(s), Kept(s), Receive(s)
  PROVE  SettledFor(s)'
<1>1. ASSUME NEW k \in Chunk(s), Take(s, k),
             stream_buf' = [stream_buf EXCEPT ![s] = Received(s, k)],
             UNCHANGED <<browser, at, subscribed_panes, pane_dimensions>>
      PROVE  SettledFor(s)'
  BY <1>1, ReadMoves, SameSettled DEF browser, SameTerminals
<1>2. CASE FirstRead(s)
  BY <1>1, <1>2 DEF FirstRead, FirstChunk
<1>3. CASE Read(s)
  BY <1>1, <1>3 DEF Read
<1>4. CASE FirstMessage(s)
  <2>1. /\ at[s] = "first" /\ at'[s] = "loop"
        /\ UNCHANGED <<mounted, term, subscribed_panes, pane_dimensions>>
    BY <1>4 DEF FirstMessage, TypeOK, browser
  <2>2. FrontTaken(Unhandled(s), Unhandled(s)') /\ Unhandled(s)' \in Seq(Unit)
    BY <1>4, FirstMessageTakes
  <2>3. Unhandled(s)[1].msg = SessConnect /\ SessConnect \in Message
    BY <2>1 DEF SettledFor, Message
  <2>4. ASSUME NEW p \in Pane PROVE SubSettled(s, p)' /\ SizeSettled(s, p)'
    <3>1. /\ SessConnect # Sub(p) /\ SessConnect # Unsub(p) /\ SessConnect \notin Resizes(p)
          /\ SessConnect \notin Subs(p)
      BY <2>3, Kinds, MessageFields
    <3> QED
      BY <2>1, <2>2, <2>3, <3>1, TakenSettled
  <2> QED
    BY <2>1, <2>4 DEF SettledFor
<1> QED
  BY <1>2, <1>3, <1>4, EndSettled DEF Receive

LEMMA HandleSettled ==
  ASSUME TypeOK, NEW s \in Session, SettledFor(s), Kept(s), Handle(s)
  PROVE  SettledFor(s)'
<1> DEFINE m == stream_buf[s][1].msg
<1>1. PICK type \in {"sub", "unsub", "i", "r"} : NextMessage(s, type)
  BY DEF Handle, HandleSub, HandleUnsub, HandleInput, HandleResize
<1>2. /\ at[s] = "loop" /\ at'[s] = "loop" /\ UNCHANGED <<mounted, term>>
  BY <1>1 DEF NextMessage, browser
<1>3. /\ FrontTaken(Unhandled(s), Unhandled(s)') /\ Unhandled(s)' \in Seq(Unit)
      /\ Unhandled(s)[1].msg = m /\ m \in Message /\ m.pane \in Pane
  BY <1>1, HandleTakes, MessageTypes
<1>4. /\ m.t = "sub" =>
           /\ subscribed_panes'[s] = subscribed_panes[s] \cup {m.pane}
           /\ pane_dimensions' = pane_dimensions
      /\ m.t = "unsub" =>
           /\ subscribed_panes'[s] = subscribed_panes[s] \ {m.pane}
           /\ pane_dimensions' = pane_dimensions
      /\ m.t = "i" => UNCHANGED <<subscribed_panes, pane_dimensions>>
      /\ m.t = "r" =>
           /\ pane_dimensions' = [pane_dimensions EXCEPT ![s][m.pane] = m.size]
           /\ subscribed_panes' = subscribed_panes
      /\ m.t \in {"sub", "unsub", "i", "r"}
  <2>1. CASE HandleSub(s)
    BY <2>1 DEF HandleSub, NextMessage, TypeOK
  <2>2. CASE HandleUnsub(s)
    BY <2>2 DEF HandleUnsub, NextMessage, TypeOK
  <2>3. CASE HandleInput(s)
    BY <2>3 DEF HandleInput, NextMessage
  <2>4. CASE HandleResize(s)
    BY <2>4 DEF HandleResize, NextMessage
  <2> QED
    BY <2>1, <2>2, <2>3, <2>4 DEF Handle
<1> HIDE DEF m
<1>5. ASSUME NEW p \in Pane PROVE SubSettled(s, p)' /\ SizeSettled(s, p)'
  <2>1. /\ m \in Subs(p) <=> m.t \in {"sub", "unsub"} /\ m.pane = p
        /\ m \in Resizes(p) <=> m.t = "r" /\ m.pane = p
    BY <1>3, Kinds
  <2>2. /\ m = Sub(p) => p \in subscribed_panes'[s]
        /\ m = Unsub(p) => p \notin subscribed_panes'[s]
        /\ m \notin Subs(p) => (p \in subscribed_panes'[s] <=> p \in subscribed_panes[s])
    BY <1>4, <2>1, MessageFields
  <2>3. /\ m \in Resizes(p) => pane_dimensions'[s][p] = m.size
        /\ m \notin Resizes(p) => pane_dimensions'[s][p] = pane_dimensions[s][p]
    BY <1>3, <1>4, <2>1 DEF TypeOK
  <2> QED
    BY <1>2, <1>3, <2>2, <2>3, TakenSettled
<1> QED
  BY <1>2, <1>5 DEF SettledFor

LEMMA OthersSettled ==
  ASSUME NEW s \in Session, SettledFor(s),
         Forward(s) \/ Spawn(s) \/ Attach(s) \/ Exit(s) \/ Execute(s)
  PROVE  SettledFor(s)'
<1>1. SameTerminals(s) /\ at'[s] = at[s] /\ Unhandled(s)' = Unhandled(s)
  BY DEF Forward, ForwardOutput, DiscardOutput, Spawn, Attach, Exit, Execute, ExecuteKeys,
         ExecuteResize, browser, task, SameTerminals, Unhandled
<1> QED
  BY <1>1, SameSettled

(* Only the actions of a session change its terminals.                     *)
LEMMA OtherTerminals ==
  ASSUME TypeOK, NEW s \in Session, NEW b \in Session, b # s,
         \/ Browser(s) \/ Receive(s) \/ Handle(s) \/ Forward(s) \/ End(s)
         \/ Spawn(s) \/ Attach(s) \/ Exit(s) \/ Execute(s)
  PROVE  SameTerminals(b)
<1>1. CASE Browser(s)
  <2>1. CASE Connect(s) \/ Close(s)
    BY <2>1 DEF Connect, Close, TypeOK, task, SameTerminals
  <2>2. ASSUME NEW p \in Pane, Unmount(s, p) \/ Type(s, p) PROVE SameTerminals(b)
    BY <2>2 DEF Unmount, Type, TypeOK, task, SameTerminals
  <2>3. ASSUME NEW p \in Pane, NEW z \in Size, Mount(s, p, z) \/ Resize(s, p, z)
        PROVE  SameTerminals(b)
    BY <2>3 DEF Mount, Resize, TypeOK, task, SameTerminals
  <2> QED
    BY <1>1, <2>1, <2>2, <2>3 DEF Browser
<1>2. CASE Handle(s)
  BY <1>2 DEF Handle, HandleSub, HandleUnsub, HandleInput, HandleResize, NextMessage, TypeOK,
              browser, SameTerminals
<1>3. CASE Receive(s) \/ End(s)
  BY <1>3 DEF Receive, FirstRead, FirstMessage, FirstMessageFails, Read, End, browser,
              SameTerminals
<1>4. CASE Forward(s) \/ Spawn(s) \/ Attach(s) \/ Exit(s) \/ Execute(s)
  BY <1>4 DEF Forward, ForwardOutput, DiscardOutput, Spawn, Attach, Exit, Execute, ExecuteKeys,
              ExecuteResize, browser, task, SameTerminals
<1> QED
  BY <1>1, <1>2, <1>3, <1>4

LEMMA InitSettled == Init => AllSettled
<1> SUFFICES ASSUME Init, NEW s \in Session PROVE SettledFor(s)
  BY DEF AllSettled
<1>1. /\ at[s] = "new" /\ mounted[s] = {} /\ subscribed_panes[s] = {}
      /\ stream_buf[s] = <<>> /\ wire[s] = <<>> /\ \A p \in Pane : term[s][p] = NoSize
  BY DEF Init
<1>2. Unhandled(s) = <<>>
  BY <1>1 DEF Unhandled
<1>3. ASSUME NEW p \in Pane PROVE SubSettled(s, p) /\ SizeSettled(s, p)
  BY <1>1, <1>2 DEF SubSettled, SizeSettled, Settles, Places
<1> QED
  BY <1>1, <1>2, <1>3 DEF SettledFor

LEMMA NextSettled ==
  ASSUME TypeOK, Numbered, AllSettled, FirstAlone, [Next]_vars
  PROVE  AllSettled'
<1> SUFFICES ASSUME NEW b \in Session PROVE SettledFor(b)'
  BY DEF AllSettled
<1>1. SettledFor(b) /\ Kept(b)
  BY DEF AllSettled, Numbered
<1>2. CASE UNCHANGED vars
  BY <1>1, <1>2, SameSettled DEF vars, browser, task, SameTerminals, Unhandled
<1>3. ASSUME NEW p \in Pane, Redraw(p) PROVE SettledFor(b)'
  BY <1>1, <1>3, SameSettled DEF Redraw, browser, task, SameTerminals, Unhandled
<1>4. ASSUME NEW s \in Session,
             \/ Browser(s) \/ Receive(s) \/ Handle(s) \/ Forward(s) \/ End(s)
             \/ Spawn(s) \/ Attach(s) \/ Exit(s) \/ Execute(s)
      PROVE  SettledFor(b)'
  <2>1. CASE b # s
    <3>1. SameMessages(b) /\ SameTerminals(b)
      BY <1>4, <2>1, OtherSession, OtherTerminals
    <3> QED
      BY <1>1, <3>1, SameSettled DEF SameMessages, Unhandled
  <2>2. CASE b = s
    BY <1>1, <1>4, <2>2, BrowserSettled, ReceiveSettled, HandleSettled, OthersSettled, EndSettled
  <2> QED
    BY <2>1, <2>2
<1> QED
  BY <1>2, <1>3, <1>4 DEF Next

(* Nothing is under way: what a browser has is what the agent has.         *)
LEMMA SettledMeansFollowed ==
  ASSUME IInv, AllSettled
  PROVE  TerminalsAreFollowed
<1> SUFFICES ASSUME NEW s \in Session, at[s] = "loop", stream_buf[s] = <<>>, wire[s] = <<>>
             PROVE  /\ subscribed_panes[s] = mounted[s]
                    /\ \A p \in mounted[s] :
                         /\ pane_dimensions[s][p] = term[s][p]
                         /\ ~disturbed[s][p] /\ Pending(s, p) = {} => tmux_size[p] = term[s][p]
  BY DEF TerminalsAreFollowed
<1>1. /\ subscribed_panes[s] \subseteq Pane /\ mounted[s] \subseteq Pane
      /\ \A M : Places(Unhandled(s), M) = {}
  BY DEF IInv, TypeOK, Unhandled, Places
<1>2. \A p \in Pane : p \in subscribed_panes[s] <=> p \in mounted[s]
  BY <1>1 DEF AllSettled, SettledFor, SubSettled, Settles
<1>3. \A p \in mounted[s] : pane_dimensions[s][p] = term[s][p] /\ term[s][p] # NoSize
  BY <1>1 DEF AllSettled, SettledFor, SizeSettled, Settles
<1>4. DimensionsAreKnown
  BY KnownIsKnown DEF IInv
<1>5. \A p \in mounted[s] : ~disturbed[s][p] /\ Pending(s, p) = {} => tmux_size[p] = term[s][p]
  BY <1>1, <1>3, <1>4 DEF DimensionsAreKnown
<1> QED
  BY <1>1, <1>2, <1>3, <1>5

(* From the terminal in the browser to tmux: whatever was mounted, resized *)
(* and unmounted, and wherever the reads cut the stream, once all that the *)
(* browser sent is handled the agent forwards the panes that have a        *)
(* terminal, at the sizes of their terminals, and tmux follows unless a    *)
(* resize was lost or another session interfered.  The proviso is that of  *)
(* EachMessageInTurn, and without it the theorem is false.                 *)
THEOREM FollowedTerminals == FirstAlone => (Spec => []TerminalsAreFollowed)
<1> SUFFICES ASSUME FirstAlone PROVE Spec => []TerminalsAreFollowed
  OBVIOUS
<1>1. Init => IInv /\ Numbered /\ AllSettled
  BY InitTypes, InitKnown, InitNumbered, InitSettled DEF IInv
<1>2. IInv /\ Numbered /\ AllSettled /\ [Next]_vars => IInv' /\ Numbered' /\ AllSettled'
  BY NextKnown, NextNumbered, NextSettled DEF IInv
<1>3. IInv /\ AllSettled => TerminalsAreFollowed
  BY SettledMeansFollowed
<1> QED
  BY <1>1, <1>2, <1>3, PTL DEF Spec

=============================================================================
