------------------------ MODULE ControlReaderProofs ------------------------
(***************************************************************************)
(* What ControlReader promises, for any number of outputs, attachments and *)
(* events in the queue.                                                    *)
(***************************************************************************)
EXTENDS ControlReader, SequenceTheorems, TLAPS

LEMMA Bounds == /\ MaxOutputs \in Nat /\ MaxOthers \in Nat /\ EventCap \in Nat
                /\ MaxAttach \in Nat /\ MaxAttach > 0
BY BoundAssumption, CapAssumption

(* The loop over the lines only starts when there is one.                  *)
LinesToFeed == \A a \in Attach : task[a] = "lines" => HasLine(line_buf[a])

TInv == TypeOK /\ LinesToFeed

Half == [line : Line, last : BOOLEAN]

(* What is taken out of a queue, and what is left.                         *)
LEMMA HeadTail ==
  ASSUME NEW S, NEW q \in Seq(S), q # <<>>
  PROVE  Head(q) \in S /\ Tail(q) \in Seq(S)
OBVIOUS

LEMMA SubSeqTypes ==
  ASSUME NEW S, NEW q \in Seq(S), NEW m \in Nat \ {0}, NEW n \in 0 .. Len(q)
  PROVE  SubSeq(q, m, n) \in Seq(S)
OBVIOUS

LEMMA OtherTypes ==
  ASSUME NEW k \in {"begin", "text", "end", "error", "notify", "exit"}
  PROVE  Halves(Other(k)) \in Seq(Half)
<1>1. Other(k) \in Line
  BY DEF Other, Line
<1> QED
  BY <1>1 DEF Halves, Half

LEMMA HalvesAssociate == \A p, q, r \in Seq(Half) : (p \o q) \o r = p \o (q \o r)
<1> SUFFICES ASSUME NEW p \in Seq(Half), NEW q \in Seq(Half), NEW r \in Seq(Half)
             PROVE  (p \o q) \o r = p \o (q \o r)
  OBVIOUS
<1> DEFINE u == (p \o q) \o r
           v == p \o (q \o r)
<1>1. u \in Seq(Half) /\ v \in Seq(Half) /\ Len(u) = Len(v)
  OBVIOUS
<1>2. ASSUME NEW i \in 1 .. Len(u) PROVE u[i] = v[i]
  OBVIOUS
<1> HIDE DEF u, v
<1>3. u = v
  BY <1>1, <1>2, SeqEqual
<1> QED
  BY <1>3 DEF u, v

LEMMA ThreeAtOnce ==
  \A x, p, q, r \in Seq(Half) : ((x \o p) \o q) \o r = x \o ((p \o q) \o r)
<1> DEFINE Join(a, b) == a \o b
<1>1. \A a, b, c \in Seq(Half) : Join(Join(a, b), c) = Join(a, Join(b, c))
  BY HalvesAssociate
<1>2. \A a, b \in Seq(Half) : Join(a, b) \in Seq(Half)
  OBVIOUS
<1> HIDE DEF Join
<1>3. \A x, p, q, r \in Seq(Half) : Join(Join(Join(x, p), q), r) = Join(x, Join(Join(p, q), r))
  BY <1>1, <1>2
<1> QED
  BY <1>3 DEF Join

LEMMA OutputTypes ==
  ASSUME NEW n \in 1 .. MaxOutputs
  PROVE  Halves(Output(n)) \in Seq(Half)
<1>1. Output(n) \in Line
  BY DEF Output, Line
<1> QED
  BY <1>1 DEF Halves, Half

LEMMA WriteTypes ==
  ASSUME TypeOK, NEW l, Halves(l) \in Seq(Half), WriteToAll(l)
  PROVE  wire' \in [Attach -> Seq(Half)]
<1>1. wire \in [Attach -> Seq(Half)]
  BY DEF TypeOK, Half
<1>2. \A a \in Attach : wire[a] \o Halves(l) \in Seq(Half)
  BY <1>1
<1> QED
  BY <1>1, <1>2 DEF WriteToAll

(* The parser makes an event of a line out of the line itself.             *)
LEMMA EventTypes ==
  ASSUME NEW l \in Line, NEW blocked \in BOOLEAN, Event(blocked, l) # NoEvent
  PROVE  Event(blocked, l) \in Line
BY DEF Event

LEMMA LoopTypes ==
  ASSUME NEW q
  PROVE  Loop(q) \in {"lines", "select"} /\ (Loop(q) = "lines" => HasLine(q))
BY DEF Loop

LEMMA InitTypes == Init => TInv
<1> SUFFICES ASSUME Init PROVE TInv
  OBVIOUS
<1>1. 0 \in 0 .. MaxOutputs /\ 0 \in 0 .. MaxOthers /\ 0 \in 0 .. MaxAttach
  BY Bounds
<1> QED
  BY <1>1 DEF Init, TInv, TypeOK, LinesToFeed

LEMMA ReaderTypes ==
  ASSUME TInv, NEW a \in Attach, Reader(a)
  PROVE  TInv'
<1> USE DEF tmux, link, reader
<1>t. /\ wire \in [Attach -> Seq(Half)] /\ line_buf \in [Attach -> Seq(Half)]
      /\ events \in [Attach -> Seq(Line)] /\ outputs \in [Attach -> Seq(1 .. MaxOutputs)]
      /\ task \in [Attach -> {"none", "select", "lines", "send", "ended"}]
      /\ in_block \in [Attach -> BOOLEAN]
  BY DEF TInv, TypeOK, Half
<1>1. CASE ReadChunk(a)
  <2>1. PICK n \in 1 .. MaxChunk :
          /\ n <= Len(wire[a])
          /\ line_buf' = [line_buf EXCEPT ![a] = @ \o SubSeq(wire[a], 1, n)]
          /\ wire' = [wire EXCEPT ![a] = SubSeq(@, n + 1, Len(@))]
    BY <1>1 DEF ReadChunk
  <2>2. wire[a] \in Seq(Half) /\ line_buf[a] \in Seq(Half) /\ Len(wire[a]) \in Nat
    BY <1>t
  <2>3. n \in Nat \ {0} /\ n \in 0 .. Len(wire[a])
    BY <2>1, <2>2, BoundAssumption
  <2>4. SubSeq(wire[a], 1, n) \in Seq(Half) /\ SubSeq(wire[a], n + 1, Len(wire[a])) \in Seq(Half)
    BY <2>2, <2>3, SubSeqTypes
  <2>5. wire' \in [Attach -> Seq(Half)] /\ line_buf' \in [Attach -> Seq(Half)]
    BY <1>t, <2>1, <2>2, <2>4
  <2>6. /\ task' = [task EXCEPT ![a] = Loop(line_buf'[a])]
        /\ UNCHANGED <<produced, others, from, attached, link, aborted, in_block, events, outputs>>
    BY <1>1 DEF ReadChunk
  <2>7. task' \in [Attach -> {"none", "select", "lines", "send", "ended"}]
    BY <1>t, <2>6, LoopTypes
  <2>8. LinesToFeed'
    BY <1>t, <2>1, <2>6, LoopTypes DEF TInv, LinesToFeed
  <2> QED
    BY <2>5, <2>6, <2>7, <2>8 DEF TInv, TypeOK, Half
<1>2. CASE FeedLine(a)
  <2> DEFINE l == Head(line_buf[a]).line
             e == Event(in_block[a], l)
  <2>1. /\ task[a] = "lines" /\ line_buf' = [line_buf EXCEPT ![a] = DropLine(@)]
        /\ in_block' = [in_block EXCEPT ![a] = NextBlock(@, l)]
        /\ \/ e # NoEvent /\ Emit(a, e)
           \/ task' = [task EXCEPT ![a] = Loop(line_buf'[a])] /\ UNCHANGED events
        /\ UNCHANGED <<tmux, link, aborted, outputs>>
    BY <1>2 DEF FeedLine
  <2>2. line_buf[a] \in Seq(Half) /\ Len(line_buf[a]) \in Nat /\ Len(line_buf[a]) >= 2
    BY <1>t, <2>1 DEF TInv, LinesToFeed, HasLine
  <2>3. l \in Line
    <3>1. Head(line_buf[a]) \in Half
      BY <2>2
    <3> QED
      BY <3>1 DEF Half
  <2>4. line_buf' \in [Attach -> Seq(Half)]
    <3>1. DropLine(line_buf[a]) \in Seq(Half)
      BY <2>2, SubSeqTypes DEF DropLine
    <3> QED
      BY <1>t, <2>1, <3>1
  <2>5. in_block' \in [Attach -> BOOLEAN]
    BY <1>t, <2>1 DEF NextBlock
  <2>6. events' \in [Attach -> Seq(Line)]
    <3>1. CASE e # NoEvent /\ Emit(a, e)
      <4>1. e \in Line
        BY <3>1, <2>3, <1>t, EventTypes
      <4>2. Append(events[a], e) \in Seq(Line)
        BY <1>t, <4>1
      <4> HIDE DEF e
      <4> QED
        BY <1>t, <3>1, <4>2 DEF Emit
    <3>2. CASE UNCHANGED events
      BY <1>t, <3>2
    <3> QED
      BY <2>1, <3>1, <3>2
  <2>7. \E s \in {"lines", "select", "send"} : /\ task' = [task EXCEPT ![a] = s]
                                               /\ s = "lines" => HasLine(line_buf'[a])
    BY <2>1, LoopTypes DEF Emit
  <2>8. task' \in [Attach -> {"none", "select", "lines", "send", "ended"}] /\ LinesToFeed'
    BY <1>t, <2>1, <2>7 DEF TInv, LinesToFeed
  <2> QED
    BY <2>1, <2>4, <2>5, <2>6, <2>8 DEF TInv, TypeOK, Half
<1>3. CASE HandleEvent(a)
  <2>1. /\ task[a] = "select" /\ events[a] # <<>>
        /\ outputs' = IF Head(events[a]).kind = "output"
                      THEN [outputs EXCEPT ![a] = Append(@, Head(events[a]).n)] ELSE outputs
        /\ task' = IF Head(events[a]).kind = "exit" THEN [task EXCEPT ![a] = "ended"] ELSE task
        /\ events' = [events EXCEPT ![a] = Tail(@)]
        /\ UNCHANGED <<tmux, link, aborted, line_buf, in_block>>
    BY <1>3 DEF HandleEvent
  <2>2. Head(events[a]) \in Line /\ Tail(events[a]) \in Seq(Line)
    BY <1>t, <2>1, HeadTail
  <2>3. Head(events[a]).kind = "output" => Head(events[a]).n \in 1 .. MaxOutputs
    BY <2>2 DEF Line
  <2>4. outputs' \in [Attach -> Seq(1 .. MaxOutputs)]
    BY <1>t, <2>1, <2>3
  <2>5. events' \in [Attach -> Seq(Line)]
    BY <1>t, <2>1, <2>2
  <2>6. task' \in [Attach -> {"none", "select", "lines", "send", "ended"}] /\ LinesToFeed'
    BY <1>t, <2>1 DEF TInv, LinesToFeed
  <2> QED
    BY <2>1, <2>4, <2>5, <2>6 DEF TInv, TypeOK
<1>4. CASE ReadClose(a) \/ Cancelled(a)
  <2>1. task' = [task EXCEPT ![a] = "ended"] /\ UNCHANGED <<tmux, link, aborted, reader>>
    BY <1>4 DEF ReadClose, Cancelled
  <2>2. task' \in [Attach -> {"none", "select", "lines", "send", "ended"}] /\ LinesToFeed'
    BY <1>t, <2>1 DEF TInv, LinesToFeed
  <2> QED
    BY <2>1, <2>2 DEF TInv, TypeOK
<1> QED
  BY <1>1, <1>2, <1>3, <1>4 DEF Reader

LEMMA NextTypes == TInv /\ [Next]_vars => TInv'
<1> SUFFICES ASSUME TInv, [Next]_vars PROVE TInv'
  OBVIOUS
<1> USE DEF tmux, link, reader
<1>1. CASE TmuxOutput
  <2>1. produced' \in 0 .. MaxOutputs /\ produced' \in 1 .. MaxOutputs
    BY <1>1, Bounds DEF TmuxOutput, TInv, TypeOK
  <2>2. wire' \in [Attach -> Seq(Half)]
    BY <1>1, <2>1, OutputTypes, WriteTypes DEF TmuxOutput, TInv
  <2>3. UNCHANGED <<others, from, attached, link, task, aborted, reader>>
    BY <1>1 DEF TmuxOutput
  <2> QED
    BY <2>1, <2>2, <2>3 DEF TInv, TypeOK, LinesToFeed, Half
<1>2. CASE TmuxNotify
  <2>1. others' \in 0 .. MaxOthers
    BY <1>2, Bounds DEF TmuxNotify, TInv, TypeOK
  <2>2. wire' \in [Attach -> Seq(Half)]
    BY <1>2, OtherTypes, WriteTypes DEF TmuxNotify, TInv
  <2>3. UNCHANGED <<produced, from, attached, link, task, aborted, reader>>
    BY <1>2 DEF TmuxNotify
  <2> QED
    BY <2>1, <2>2, <2>3 DEF TInv, TypeOK, LinesToFeed, Half
<1>3. ASSUME NEW a \in Attach, TmuxReply(a) PROVE TInv'
  <2>1. others' \in 0 .. MaxOthers
    BY <1>3, Bounds DEF TmuxReply, TInv, TypeOK
  <2>2. wire' \in [Attach -> Seq(Half)]
    <3>1. PICK closing \in {"end", "error"} :
            wire' = [wire EXCEPT ![a] = @ \o Halves(Other("begin")) \o Halves(Other("text"))
                                          \o Halves(Other(closing))]
      BY <1>3 DEF TmuxReply
    <3>2. /\ Halves(Other("begin")) \in Seq(Half) /\ Halves(Other("text")) \in Seq(Half)
          /\ Halves(Other(closing)) \in Seq(Half)
      BY OtherTypes
    <3>3. wire \in [Attach -> Seq(Half)]
      BY DEF TInv, TypeOK, Half
    <3>4. wire[a] \o Halves(Other("begin")) \o Halves(Other("text"))
            \o Halves(Other(closing)) \in Seq(Half)
      BY <3>2, <3>3
    <3> QED
      BY <3>1, <3>3, <3>4
  <2>3. UNCHANGED <<produced, from, attached, link, task, aborted, reader>>
    BY <1>3 DEF TmuxReply
  <2> QED
    BY <2>1, <2>2, <2>3 DEF TInv, TypeOK, LinesToFeed, Half
<1>4. ASSUME NEW a \in Attach, ChannelEnds(a) PROVE TInv'
  <2>1. attached' \in [Attach -> BOOLEAN]
    BY <1>4 DEF ChannelEnds, TInv, TypeOK
  <2>2. wire' \in [Attach -> Seq(Half)]
    <3>1. wire \in [Attach -> Seq(Half)] /\ Halves(Other("exit")) \in Seq(Half)
      BY OtherTypes DEF TInv, TypeOK, Half
    <3>2. wire[a] \o Halves(Other("exit")) \in Seq(Half)
      BY <3>1
    <3> QED
      BY <1>4, <3>1, <3>2 DEF ChannelEnds
  <2>3. UNCHANGED <<produced, others, from, link, task, aborted, reader>>
    BY <1>4 DEF ChannelEnds
  <2> QED
    BY <2>1, <2>2, <2>3 DEF TInv, TypeOK, LinesToFeed, Half
<1>5. ASSUME NEW a \in Attach, Reader(a) PROVE TInv'
  BY <1>5, ReaderTypes
<1>6. CASE ConnectAttach
  <2>1. current' \in 0 .. MaxAttach
    BY <1>6, Bounds DEF ConnectAttach, TInv, TypeOK
  <2>2. /\ attached' \in [Attach -> BOOLEAN] /\ from' \in [Attach -> 0 .. MaxOutputs]
        /\ conn' = "attached"
    BY <1>6 DEF ConnectAttach, TInv, TypeOK
  <2>3. UNCHANGED <<produced, others, wire, task, aborted, reader>>
    BY <1>6 DEF ConnectAttach
  <2> QED
    BY <2>1, <2>2, <2>3 DEF TInv, TypeOK, LinesToFeed
<1>7. CASE ConnectAbort \/ ConnectClose \/ Disconnect
  <2>1. /\ attached' \in [Attach -> BOOLEAN] /\ aborted' \in [Attach -> BOOLEAN]
        /\ conn' \in {"aborted", "closed", "down"}
    BY <1>7 DEF ConnectAbort, ConnectClose, Disconnect, TInv, TypeOK
  <2>2. UNCHANGED <<produced, others, from, wire, current, task, reader>>
    BY <1>7 DEF ConnectAbort, ConnectClose, Disconnect
  <2> QED
    BY <2>1, <2>2 DEF TInv, TypeOK, LinesToFeed
<1>8. CASE ConnectSpawn
  <2>1. /\ task' = [task EXCEPT ![current] = "select"] /\ conn' = "up"
        /\ UNCHANGED <<tmux, current, aborted, reader>>
    BY <1>8 DEF ConnectSpawn
  <2>2. task' \in [Attach -> {"none", "select", "lines", "send", "ended"}] /\ LinesToFeed'
    BY <2>1 DEF TInv, TypeOK, LinesToFeed
  <2> QED
    BY <2>1, <2>2 DEF TInv, TypeOK
<1>9. CASE UNCHANGED vars
  BY <1>9 DEF vars, TInv, TypeOK, LinesToFeed
<1> QED
  BY <1>1, <1>2, <1>3, <1>4, <1>5, <1>6, <1>7, <1>8, <1>9 DEF Next, Connector

(* Every variable has its type, whatever tmux writes, however a chunk is   *)
(* cut and whenever the transport connects again: the loop over the lines  *)
(* never takes a line that is not there (ssh_transport.rs:412-419).        *)
THEOREM TypeCorrect == Spec => []TypeOK
BY InitTypes, NextTypes, PTL DEF Spec, TInv

-----------------------------------------------------------------------------
(* Sequences of halves and of numbers.                                     *)

(* Numbers put after those that are there: nothing but zeros, or zeros and *)
(* then the next number.                                                   *)
LEMMA NumbersAppend ==
  ASSUME NEW low \in Nat, NEW high \in Nat, NEW k \in Nat, NEW d \in Nat,
         NEW f \in [1 .. k -> Nat], NEW g \in [1 .. k + d -> Nat],
         \A i \in 1 .. k : g[i] = f[i], Gapless(f, low, high)
  PROVE  /\ (\A i \in k + 1 .. k + d : g[i] = 0) => Gapless(g, low, high)
         /\ d > 0 /\ (\A i \in k + 1 .. k + d - 1 : g[i] = 0) /\ g[k + d] = high + 1
              => Gapless(g, low, high + 1)
<1>1. DOMAIN f = 1 .. k /\ DOMAIN g = 1 .. k + d
  OBVIOUS
<1>2. ASSUME \A i \in k + 1 .. k + d : g[i] = 0 PROVE Gapless(g, low, high)
  <2>1. \A i \in 1 .. k + d : g[i] # 0 => i \in 1 .. k
    BY <1>2
  <2>2. \A n \in low + 1 .. high : \E i \in 1 .. k + d : g[i] = n
    BY <1>1 DEF Gapless
  <2> QED
    BY <1>1, <2>1, <2>2 DEF Gapless
<1>3. ASSUME d > 0, \A i \in k + 1 .. k + d - 1 : g[i] = 0, g[k + d] = high + 1
      PROVE  Gapless(g, low, high + 1)
  <2>1. \A i \in 1 .. k + d : g[i] # 0 => i \in 1 .. k \/ i = k + d
    BY <1>3
  <2>2. \A i \in 1 .. k : g[i] # 0 => g[i] \in low + 1 .. high
    BY <1>1 DEF Gapless
  <2>3. ASSUME NEW i \in 1 .. k + d, g[i] # 0 PROVE g[i] \in low + 1 .. high + 1
    <3>1. low <= high
      BY DEF Gapless
    <3>2. CASE i \in 1 .. k
      <4>1. g[i] \in low + 1 .. high
        BY <2>2, <2>3, <3>2
      <4> QED
        BY <4>1
    <3>3. CASE i = k + d
      BY <1>3, <3>1, <3>3
    <3> QED
      BY <2>1, <2>3, <3>2, <3>3
  <2>4. ASSUME NEW i \in 1 .. k + d, NEW j \in 1 .. k + d, i < j, g[i] # 0, g[j] # 0
        PROVE  g[i] < g[j]
    <3>1. i \in 1 .. k
      BY <2>1, <2>4
    <3>2. g[i] \in low + 1 .. high
      BY <2>2, <2>4, <3>1
    <3>3. CASE j \in 1 .. k
      <4>1. f[i] < f[j]
        BY <1>1, <2>4, <3>1, <3>3 DEF Gapless
      <4> QED
        BY <3>1, <3>3, <4>1
    <3>4. CASE j = k + d
      BY <1>3, <3>2, <3>4
    <3> QED
      BY <2>1, <2>4, <3>3, <3>4
  <2>5. ASSUME NEW n \in low + 1 .. high + 1 PROVE \E i \in 1 .. k + d : g[i] = n
    <3>1. CASE n = high + 1
      BY <1>3, <3>1
    <3>2. CASE n # high + 1
      BY <1>1, <3>2 DEF Gapless
    <3> QED
      BY <3>1, <3>2
  <2>6. low <= high + 1
    BY DEF Gapless
  <2> QED
    BY <1>1, <2>3, <2>4, <2>5, <2>6 DEF Gapless
<1> QED
  BY <1>2, <1>3

(* One more.                                                               *)
LEMMA NumberAppend ==
  ASSUME NEW low \in Nat, NEW high \in Nat, NEW k \in Nat,
         NEW f \in [1 .. k -> Nat], NEW g \in [1 .. k + 1 -> Nat],
         \A i \in 1 .. k : g[i] = f[i], Gapless(f, low, high)
  PROVE  /\ g[k + 1] = 0 => Gapless(g, low, high)
         /\ g[k + 1] = high + 1 => Gapless(g, low, high + 1)
<1>1. PICK d \in Nat : d = 1
  OBVIOUS
<1>2. g \in [1 .. k + d -> Nat] /\ d > 0 /\ k + d = k + 1
  BY <1>1
<1>3. g[k + 1] = 0 => \A i \in k + 1 .. k + d : g[i] = 0
  BY <1>1
<1>4. \A i \in k + 1 .. k + d - 1 : g[i] = 0
  BY <1>1
<1> QED
  BY <1>2, <1>3, <1>4, NumbersAppend

(* g is f without its first d numbers, of which all but the last are 0.    *)
Dropped(f, g, k, d) ==
  /\ k \in Nat /\ d \in Nat /\ d > 0
  /\ DOMAIN f = 1 .. k + d /\ DOMAIN g = 1 .. k
  /\ \A i \in 1 .. k : g[i] = f[i + d]
  /\ \A i \in 1 .. d - 1 : f[i] = 0

LEMMA NumbersInOrder ==
  ASSUME NEW low \in Nat, NEW high \in Nat, NEW f, NEW g, NEW k, NEW d,
         Dropped(f, g, k, d), Gapless(f, low, high)
  PROVE  /\ \A i \in DOMAIN g : g[i] # 0 => g[i] \in low + 1 .. high
         /\ \A i, j \in DOMAIN g : i < j /\ g[i] # 0 /\ g[j] # 0 => g[i] < g[j]
<1>1. k \in Nat /\ d \in Nat /\ d > 0 /\ DOMAIN f = 1 .. k + d /\ DOMAIN g = 1 .. k
  BY DEF Dropped
<1>2. \A i \in 1 .. k : g[i] = f[i + d] /\ i + d \in DOMAIN f
  BY <1>1 DEF Dropped
<1>3. ASSUME NEW i \in 1 .. k, g[i] # 0 PROVE g[i] \in low + 1 .. high
  BY <1>2, <1>3 DEF Gapless
<1>4. ASSUME NEW i \in 1 .. k, NEW j \in 1 .. k, i < j, g[i] # 0, g[j] # 0 PROVE g[i] < g[j]
  <2>1. i + d < j + d /\ i + d \in DOMAIN f /\ j + d \in DOMAIN f
    BY <1>1, <1>2, <1>4
  <2>2. f[i + d] < f[j + d]
    BY <1>2, <1>4, <2>1 DEF Gapless
  <2> QED
    BY <1>2, <2>2
<1> QED
  BY <1>1, <1>3, <1>4

LEMMA NumbersLeft ==
  ASSUME NEW low \in Nat, NEW high \in Nat, NEW f, NEW g, NEW k, NEW d,
         Dropped(f, g, k, d), Gapless(f, low, high), NEW n \in low + 1 .. high, n # f[d]
  PROVE  \E i \in DOMAIN g : g[i] = n
<1>1. k \in Nat /\ d \in Nat /\ d > 0 /\ DOMAIN f = 1 .. k + d /\ DOMAIN g = 1 .. k
  BY DEF Dropped
<1>2. PICK i \in 1 .. k + d : f[i] = n
  BY <1>1 DEF Gapless
<1>3. i > d
  <2>1. i \in 1 .. d - 1 => f[i] = 0
    BY DEF Dropped
  <2> QED
    BY <1>1, <1>2, <2>1
<1>4. i - d \in 1 .. k /\ (i - d) + d = i
  BY <1>1, <1>3
<1>5. g[i - d] = f[(i - d) + d]
  BY <1>4 DEF Dropped
<1> QED
  BY <1>1, <1>2, <1>4, <1>5

(* Numbers taken from the front: zeros, or zeros and then the next number. *)
LEMMA NumbersDropNone ==
  ASSUME NEW low \in Nat, NEW high \in Nat, NEW f, NEW g, NEW k, NEW d,
         Dropped(f, g, k, d), Gapless(f, low, high), f[d] = 0
  PROVE  Gapless(g, low, high)
<1>1. low <= high
  BY DEF Gapless
<1>2. ASSUME NEW n \in low + 1 .. high PROVE \E i \in DOMAIN g : g[i] = n
  <2>1. n # f[d]
    OBVIOUS
  <2> QED
    BY <2>1, NumbersLeft
<1>3. /\ \A i \in DOMAIN g : g[i] # 0 => g[i] \in low + 1 .. high
      /\ \A i, j \in DOMAIN g : i < j /\ g[i] # 0 /\ g[j] # 0 => g[i] < g[j]
  BY NumbersInOrder
<1> QED
  BY <1>1, <1>2, <1>3 DEF Gapless

LEMMA NumbersDropNext ==
  ASSUME NEW low \in Nat, NEW high \in Nat, NEW f, NEW g, NEW k, NEW d,
         Dropped(f, g, k, d), Gapless(f, low, high), f[d] # 0
  PROVE  f[d] = low + 1 /\ Gapless(g, low + 1, high)
<1>0. k \in Nat /\ d \in Nat /\ d > 0 /\ DOMAIN f = 1 .. k + d /\ DOMAIN g = 1 .. k
  BY DEF Dropped
<1>1. d \in DOMAIN f /\ \A i \in 1 .. k : i + d \in DOMAIN f /\ d < i + d
  BY <1>0
<1>2. f[d] \in low + 1 .. high
  BY <1>1 DEF Gapless
<1>3. f[d] = low + 1
  <2>1. low + 1 \in low + 1 .. high
    BY <1>2
  <2>2. PICK i \in 1 .. k + d : f[i] = low + 1
    BY <1>0, <2>1 DEF Gapless
  <2>3. i \in 1 .. d - 1 => f[i] = 0
    BY DEF Dropped
  <2>4. d < i => f[d] < f[i]
    BY <1>0, <1>1, <2>2 DEF Gapless
  <2> QED
    BY <1>0, <1>2, <2>2, <2>3, <2>4
<1>4. /\ \A i \in DOMAIN g : g[i] # 0 => g[i] \in low + 1 .. high
      /\ \A i, j \in DOMAIN g : i < j /\ g[i] # 0 /\ g[j] # 0 => g[i] < g[j]
  BY NumbersInOrder
<1>5. ASSUME NEW i \in DOMAIN g, g[i] # 0 PROVE g[i] \in (low + 1) + 1 .. high
  <2>1. g[i] = f[i + d]
    BY <1>0 DEF Dropped
  <2>2. f[d] < f[i + d]
    BY <1>0, <1>1, <1>5, <2>1 DEF Gapless
  <2>3. g[i] \in low + 1 .. high
    BY <1>4, <1>5
  <2> QED
    BY <1>3, <2>1, <2>2, <2>3
<1>6. ASSUME NEW n \in (low + 1) + 1 .. high PROVE \E i \in DOMAIN g : g[i] = n
  <2>1. n \in low + 1 .. high /\ n # f[d]
    BY <1>3
  <2> QED
    BY <2>1, NumbersLeft
<1>7. low + 1 <= high
  BY <1>2
<1>8. Gapless(g, low + 1, high)
  BY <1>4, <1>5, <1>6, <1>7 DEF Gapless
<1> QED
  BY <1>3, <1>8

LEMMA HalfNumbersType ==
  ASSUME NEW h \in Seq(Half)
  PROVE  HalfNumbers(h) \in [1 .. Len(h) -> Nat]
<1>1. DOMAIN h = 1 .. Len(h)
  OBVIOUS
<1>2. \A i \in 1 .. Len(h) : h[i].line.n \in Nat
  <2>1. \A l \in Line : l.n \in Nat
    BY Bounds DEF Line
  <2>2. ASSUME NEW i \in 1 .. Len(h) PROVE h[i].line \in Line
    <3>1. h[i] \in Half
      OBVIOUS
    <3> QED
      BY <3>1 DEF Half
  <2> QED
    BY <2>1, <2>2
<1> QED
  BY <1>1, <1>2 DEF HalfNumbers

LEMMA EventNumbersType ==
  ASSUME NEW q \in Seq(Line)
  PROVE  EventNumbers(q) \in [1 .. Len(q) -> Nat]
BY Bounds DEF EventNumbers, Line

LEMMA WholeAt ==
  ASSUME NEW h, Whole(h), NEW i \in DOMAIN h
  PROVE  /\ ~h[i].last => i < Len(h) /\ h[i + 1] = [line |-> h[i].line, last |-> TRUE]
         /\ h[i].last /\ i < Len(h) => ~h[i + 1].last
         /\ h[i].last /\ h[i].line.kind = "begin" => i < Len(h) /\ h[i + 1].line.kind = "text"
         /\ h[i].last /\ h[i].line.kind = "text" =>
              i < Len(h) /\ h[i + 1].line.kind \in {"end", "error"}
BY DEF Whole

(* The halves of whole lines put after whole lines.                        *)
LEMMA WholeConcat ==
  ASSUME NEW h \in Seq(Half), NEW t \in Seq(Half), Whole(h), Whole(t)
  PROVE  Whole(h \o t)
<1> DEFINE q == h \o t
<1>1. /\ Len(q) = Len(h) + Len(t) /\ Len(h) \in Nat /\ Len(t) \in Nat
      /\ DOMAIN q = 1 .. Len(q) /\ DOMAIN h = 1 .. Len(h) /\ DOMAIN t = 1 .. Len(t)
      /\ q = <<>> <=> Len(q) = 0
      /\ h = <<>> <=> Len(h) = 0
      /\ t = <<>> <=> Len(t) = 0
  OBVIOUS
<1>2. /\ \A i \in 1 .. Len(h) : q[i] = h[i]
      /\ \A i \in 1 .. Len(t) : q[Len(h) + i] = t[i]
  OBVIOUS
<1>3. h # <<>> => h[Len(h)].last
  <2>1. SUFFICES ASSUME h # <<>>, ~h[Len(h)].last PROVE FALSE
    OBVIOUS
  <2>2. Len(h) \in DOMAIN h
    BY <1>1, <2>1
  <2>3. Len(h) < Len(h)
    BY <2>1, <2>2, WholeAt
  <2> QED
    BY <1>1, <2>3
<1>4. \A i \in 1 .. Len(h) : h[i] \in Half
  OBVIOUS
<1> HIDE DEF q
<1>5. q # <<>> => ~q[1].last
  <2>1. CASE h # <<>>
    BY <1>1, <1>2, <2>1 DEF Whole
  <2>2. CASE h = <<>>
    BY <1>1, <1>2, <2>2 DEF Whole
  <2> QED
    BY <2>1, <2>2
<1>6. ASSUME NEW i \in DOMAIN q
      PROVE  /\ ~q[i].last => i < Len(q) /\ q[i + 1] = [line |-> q[i].line, last |-> TRUE]
             /\ q[i].last /\ i < Len(q) => ~q[i + 1].last
             /\ q[i].last /\ q[i].line.kind = "begin" => i < Len(q) /\ q[i + 1].line.kind = "text"
             /\ q[i].last /\ q[i].line.kind = "text" =>
                  i < Len(q) /\ q[i + 1].line.kind \in {"end", "error"}
  <2>1. CASE i < Len(h)
    <3>1. i \in DOMAIN h /\ q[i] = h[i] /\ q[i + 1] = h[i + 1] /\ i < Len(q)
      BY <1>1, <1>2, <2>1
    <3> QED
      BY <3>1, <2>1 DEF Whole
  <2>2. CASE i = Len(h)
    <3>1. i \in DOMAIN h /\ q[i] = h[i]
      BY <1>1, <1>2, <2>2
    <3>2. q[i].last /\ q[i].line.kind \notin {"begin", "text"}
      <4>1. h[i].last /\ ~(i < Len(h))
        BY <1>1, <1>3, <2>2, <3>1
      <4>2. h[i].line.kind \notin {"begin", "text"}
        BY <3>1, <4>1, WholeAt
      <4> QED
        BY <3>1, <4>1, <4>2
    <3>3. i < Len(q) => ~q[i + 1].last
      <4>1. i < Len(q) => t # <<>> /\ q[i + 1] = t[1]
        BY <1>1, <1>2, <2>2
      <4> QED
        BY <4>1 DEF Whole
    <3> QED
      BY <3>2, <3>3
  <2>3. CASE i > Len(h)
    <3> DEFINE j == i - Len(h)
    <3>1. j \in 1 .. Len(t) /\ i = Len(h) + j
      BY <1>1, <2>3
    <3>2. q[i] = t[j]
      BY <1>2, <3>1
    <3>3. (i < Len(q) <=> j < Len(t)) /\ (j < Len(t) => q[i + 1] = t[j + 1])
      <4>1. j < Len(t) => j + 1 \in 1 .. Len(t) /\ i + 1 = Len(h) + (j + 1)
        BY <1>1, <3>1
      <4> QED
        BY <1>1, <1>2, <3>1, <4>1
    <3> HIDE DEF j
    <3>4. j \in DOMAIN t
      BY <1>1, <3>1
    <3> QED
      BY <3>2, <3>3, <3>4 DEF Whole
  <2> QED
    BY <1>1, <2>1, <2>2, <2>3
<1>7. Whole(q)
  BY <1>5, <1>6 DEF Whole
<1> QED
  BY <1>7 DEF q

(* The first line taken off.                                               *)
LEMMA WholeDrop ==
  ASSUME NEW h \in Seq(Half), NEW g \in Seq(Half), Whole(h), Len(h) = Len(g) + 2,
         \A i \in 1 .. Len(g) : g[i] = h[i + 2]
  PROVE  /\ Whole(g)
         /\ ~h[1].last /\ h[2].last /\ h[2].line = h[1].line
<1>1. /\ DOMAIN h = 1 .. Len(h) /\ DOMAIN g = 1 .. Len(g) /\ Len(g) \in Nat
      /\ g = <<>> <=> Len(g) = 0
      /\ h # <<>>
  OBVIOUS
<1>2. ~h[1].last /\ h[2].last /\ h[2].line = h[1].line
  <2>1. ~h[1].last
    BY <1>1 DEF Whole
  <2>2. 1 \in DOMAIN h /\ 1 + 1 = 2
    BY <1>1
  <2>3. h[2] = [line |-> h[1].line, last |-> TRUE]
    BY <2>1, <2>2, WholeAt
  <2> QED
    BY <2>1, <2>3
<1>3. g # <<>> => ~g[1].last
  <2>1. g # <<>> => g[1] = h[3] /\ 2 \in DOMAIN h /\ 2 < Len(h) /\ 2 + 1 = 3
    BY <1>1
  <2>2. 2 \in DOMAIN h /\ 2 < Len(h) => ~h[2 + 1].last
    BY <1>2, WholeAt
  <2> QED
    BY <2>1, <2>2
<1>4. ASSUME NEW i \in DOMAIN g
      PROVE  /\ ~g[i].last => i < Len(g) /\ g[i + 1] = [line |-> g[i].line, last |-> TRUE]
             /\ g[i].last /\ i < Len(g) => ~g[i + 1].last
             /\ g[i].last /\ g[i].line.kind = "begin" => i < Len(g) /\ g[i + 1].line.kind = "text"
             /\ g[i].last /\ g[i].line.kind = "text" =>
                  i < Len(g) /\ g[i + 1].line.kind \in {"end", "error"}
  <2> DEFINE j == i + 2
  <2>1. j \in DOMAIN h /\ g[i] = h[j] /\ (i < Len(g) <=> j < Len(h))
    BY <1>1
  <2>2. i < Len(g) => g[i + 1] = h[j + 1]
    <3>1. i < Len(g) => i + 1 \in 1 .. Len(g) /\ (i + 1) + 2 = j + 1
      BY <1>1
    <3> QED
      BY <3>1
  <2> HIDE DEF j
  <2> QED
    BY <2>1, <2>2 DEF Whole
<1>5. Whole(g)
  BY <1>3, <1>4 DEF Whole
<1> QED
  BY <1>2, <1>5

(* What tmux writes.                                                       *)
LEMMA WholeLine ==
  ASSUME NEW l \in Line, l.kind \in {"output", "notify", "exit"}
  PROVE  Whole(Halves(l)) /\ Halves(l) \in Seq(Half) /\ Len(Halves(l)) = 2
<1> DEFINE h == Halves(l)
<1>1. /\ h \in Seq(Half) /\ Len(h) = 2 /\ DOMAIN h = {1, 2}
      /\ h[1] = [line |-> l, last |-> FALSE] /\ h[2] = [line |-> l, last |-> TRUE]
  BY DEF Half, Halves
<1> HIDE DEF h
<1>2. /\ ~h[1].last /\ h[2].last /\ h[2] = [line |-> h[1].line, last |-> TRUE]
      /\ h[2].line.kind \notin {"begin", "text"}
  BY <1>1
<1>3. Whole(h)
  BY <1>1, <1>2 DEF Whole
<1> QED
  BY <1>1, <1>3 DEF h

LEMMA WholeReply ==
  ASSUME NEW closing \in {"end", "error"}
  PROVE  LET t == Halves(Other("begin")) \o Halves(Other("text")) \o Halves(Other(closing))
         IN  t \in Seq(Half) /\ Len(t) = 6 /\ Whole(t) /\ HalfNumbers(t) = [i \in 1 .. 6 |-> 0]
<1> DEFINE t == Halves(Other("begin")) \o Halves(Other("text")) \o Halves(Other(closing))
<1>1. /\ t \in Seq(Half) /\ Len(t) = 6
      /\ t[1] = [line |-> Other("begin"), last |-> FALSE]
      /\ t[2] = [line |-> Other("begin"), last |-> TRUE]
      /\ t[3] = [line |-> Other("text"), last |-> FALSE]
      /\ t[4] = [line |-> Other("text"), last |-> TRUE]
      /\ t[5] = [line |-> Other(closing), last |-> FALSE]
      /\ t[6] = [line |-> Other(closing), last |-> TRUE]
  <2>1. /\ Halves(Other("begin")) \in Seq(Half) /\ Halves(Other("text")) \in Seq(Half)
        /\ Halves(Other(closing)) \in Seq(Half)
    BY OtherTypes
  <2> DEFINE u == Halves(Other("begin")) \o Halves(Other("text"))
  <2>h. ASSUME NEW k
        PROVE  /\ Len(Halves(Other(k))) = 2
               /\ Halves(Other(k))[1] = [line |-> Other(k), last |-> FALSE]
               /\ Halves(Other(k))[2] = [line |-> Other(k), last |-> TRUE]
    BY DEF Halves
  <2>c. ASSUME NEW x \in Seq(Half), NEW y \in Seq(Half)
        PROVE  /\ Len(x \o y) = Len(x) + Len(y) /\ x \o y \in Seq(Half)
               /\ \A i \in 1 .. Len(x) : (x \o y)[i] = x[i]
               /\ \A i \in 1 .. Len(y) : (x \o y)[Len(x) + i] = y[i]
    OBVIOUS
  <2>2. /\ u \in Seq(Half) /\ Len(u) = 4
        /\ u[1] = [line |-> Other("begin"), last |-> FALSE]
        /\ u[2] = [line |-> Other("begin"), last |-> TRUE]
        /\ u[3] = [line |-> Other("text"), last |-> FALSE]
        /\ u[4] = [line |-> Other("text"), last |-> TRUE]
    <3>1. /\ u \in Seq(Half) /\ Len(u) = 2 + 2
          /\ u[1] = Halves(Other("begin"))[1] /\ u[2] = Halves(Other("begin"))[2]
          /\ u[2 + 1] = Halves(Other("text"))[1] /\ u[2 + 2] = Halves(Other("text"))[2]
      <4>1. 1 \in 1 .. 2 /\ 2 \in 1 .. 2
        OBVIOUS
      <4>2. /\ Len(u) = Len(Halves(Other("begin"))) + Len(Halves(Other("text"))) /\ u \in Seq(Half)
            /\ \A i \in 1 .. Len(Halves(Other("begin"))) : u[i] = Halves(Other("begin"))[i]
            /\ \A i \in 1 .. Len(Halves(Other("text"))) :
                 u[Len(Halves(Other("begin"))) + i] = Halves(Other("text"))[i]
        BY <2>1, <2>c
      <4> HIDE DEF u
      <4> QED
        BY <4>1, <4>2, <2>h
    <3>2. 2 + 2 = 4 /\ 2 + 1 = 3
      OBVIOUS
    <3> HIDE DEF u
    <3> QED
      BY <3>1, <3>2, <2>h
  <2>3. t = u \o Halves(Other(closing))
    OBVIOUS
  <2> HIDE DEF u, t
  <2>4. /\ Len(t) = 4 + 2 /\ t \in Seq(Half)
        /\ t[1] = u[1] /\ t[2] = u[2] /\ t[3] = u[3] /\ t[4] = u[4]
        /\ t[4 + 1] = Halves(Other(closing))[1] /\ t[4 + 2] = Halves(Other(closing))[2]
    <3>1. /\ Len(t) = Len(u) + Len(Halves(Other(closing))) /\ t \in Seq(Half)
          /\ \A i \in 1 .. Len(u) : t[i] = u[i]
          /\ \A i \in 1 .. Len(Halves(Other(closing))) : t[Len(u) + i] = Halves(Other(closing))[i]
      BY <2>1, <2>2, <2>3, <2>c
    <3>2. Len(u) = 4 /\ Len(Halves(Other(closing))) = 2
      BY <2>2, <2>h
    <3>3. \A i \in {1, 2, 3, 4} : i \in 1 .. 4
      OBVIOUS
    <3>4. \A i \in {1, 2} : i \in 1 .. 2
      OBVIOUS
    <3> QED
      BY <3>1, <3>2, <3>3, <3>4
  <2>5. 4 + 1 = 5 /\ 4 + 2 = 6
    OBVIOUS
  <2> QED
    BY <2>2, <2>4, <2>5, <2>h
<1> HIDE DEF t
<1>2. DOMAIN t = {1, 2, 3, 4, 5, 6} /\ DOMAIN t = 1 .. 6
  BY <1>1
<1>3. /\ Other("begin").kind = "begin" /\ Other("text").kind = "text"
      /\ Other(closing).kind \in {"end", "error"}
      /\ Other("begin").n = 0 /\ Other("text").n = 0 /\ Other(closing).n = 0
  BY DEF Other
<1>4. /\ ~t[1].last /\ t[2].last /\ ~t[3].last /\ t[4].last /\ ~t[5].last /\ t[6].last
      /\ t[2] = [line |-> t[1].line, last |-> TRUE]
      /\ t[4] = [line |-> t[3].line, last |-> TRUE]
      /\ t[6] = [line |-> t[5].line, last |-> TRUE]
      /\ t[2].line.kind = "begin" /\ t[3].line.kind = "text" /\ t[4].line.kind = "text"
      /\ t[5].line.kind \in {"end", "error"} /\ t[6].line.kind \in {"end", "error"}
      /\ t[2].line.n = 0 /\ t[4].line.n = 0 /\ t[6].line.n = 0
  BY <1>1, <1>3
<1>5. Whole(t)
  <2>1. t # <<>> => ~t[1].last
    BY <1>4
  <2>2. ASSUME NEW i \in DOMAIN t
        PROVE  /\ ~t[i].last => i < Len(t) /\ t[i + 1] = [line |-> t[i].line, last |-> TRUE]
               /\ t[i].last /\ i < Len(t) => ~t[i + 1].last
               /\ t[i].last /\ t[i].line.kind = "begin" => i < Len(t) /\ t[i + 1].line.kind = "text"
               /\ t[i].last /\ t[i].line.kind = "text" =>
                    i < Len(t) /\ t[i + 1].line.kind \in {"end", "error"}
    <3>1. CASE i = 1
      BY <1>1, <1>4, <3>1
    <3>2. CASE i = 2
      BY <1>1, <1>4, <3>2
    <3>3. CASE i = 3
      BY <1>1, <1>4, <3>3
    <3>4. CASE i = 4
      BY <1>1, <1>4, <3>4
    <3>5. CASE i = 5
      BY <1>1, <1>4, <3>5
    <3>6. CASE i = 6
      BY <1>1, <1>4, <3>6
    <3> QED
      BY <1>2, <3>1, <3>2, <3>3, <3>4, <3>5, <3>6
  <2> QED
    BY <2>1, <2>2 DEF Whole
<1>6. HalfNumbers(t) = [i \in 1 .. 6 |-> 0]
  <2>1. \A i \in 1 .. 6 : (IF t[i].last THEN t[i].line.n ELSE 0) = 0
    BY <1>2, <1>4
  <2> QED
    BY <1>2, <2>1 DEF HalfNumbers
<1> QED
  BY <1>1, <1>5, <1>6 DEF t

(* What tmux writes goes behind what was there: notifications and replies  *)
(* complete no output, an output the next one.                             *)
LEMMA HalvesAppended ==
  ASSUME NEW h \in Seq(Half), NEW t \in Seq(Half), NEW low \in Nat, NEW high \in Nat,
         Gapless(HalfNumbers(h), low, high)
  PROVE  /\ (\A i \in 1 .. Len(t) : HalfNumbers(t)[i] = 0) => Gapless(HalfNumbers(h \o t), low, high)
         /\ Len(t) = 2 /\ HalfNumbers(t)[1] = 0 /\ HalfNumbers(t)[2] = high + 1
              => Gapless(HalfNumbers(h \o t), low, high + 1)
<1> DEFINE q == h \o t
           f == HalfNumbers(h)
           g == HalfNumbers(q)
           e == HalfNumbers(t)
           k == Len(h)
           d == Len(t)
<1>1. q \in Seq(Half) /\ Len(q) = k + d /\ k \in Nat /\ d \in Nat
  OBVIOUS
<1>2. /\ \A i \in 1 .. k : q[i] = h[i]
      /\ \A i \in 1 .. d : q[k + i] = t[i]
  OBVIOUS
<1>3. DOMAIN q = 1 .. k + d /\ DOMAIN h = 1 .. k /\ DOMAIN t = 1 .. d
  OBVIOUS
<1> HIDE DEF q, k, d
<1>4. f \in [1 .. k -> Nat] /\ g \in [1 .. k + d -> Nat]
  BY <1>1, HalfNumbersType DEF k, d
<1>5. \A i \in 1 .. k : g[i] = f[i]
  BY <1>1, <1>2, <1>3 DEF HalfNumbers
<1>6. \A i \in 1 .. d : g[k + i] = e[i]
  <2>1. \A i \in 1 .. d : k + i \in 1 .. k + d
    BY <1>1
  <2> QED
    BY <1>2, <1>3, <2>1 DEF HalfNumbers
<1> HIDE DEF f, g, e
<1>7. Gapless(f, low, high)
  BY DEF f
<1>8. ASSUME \A i \in 1 .. d : e[i] = 0 PROVE Gapless(g, low, high)
  <2>1. ASSUME NEW i \in k + 1 .. k + d PROVE g[i] = 0
    <3>1. i - k \in 1 .. d /\ k + (i - k) = i
      BY <1>1
    <3> QED
      BY <1>6, <1>8, <3>1
  <2> QED
    BY <1>1, <1>4, <1>5, <1>7, <2>1, NumbersAppend
<1>9. ASSUME d = 2, e[1] = 0, e[2] = high + 1 PROVE Gapless(g, low, high + 1)
  <2>1. 1 \in 1 .. d /\ 2 \in 1 .. d /\ k + 1 .. k + d - 1 = {k + 1} /\ k + d = k + 2 /\ d > 0
    BY <1>1, <1>9
  <2>2. g[k + 1] = 0 /\ g[k + d] = high + 1
    BY <1>6, <1>9, <2>1
  <2>3. \A i \in k + 1 .. k + d - 1 : g[i] = 0
    BY <2>1, <2>2
  <2> QED
    BY <1>1, <1>4, <1>5, <1>7, <2>1, <2>2, <2>3, NumbersAppend
<1> QED
  BY <1>8, <1>9 DEF d, e, g, q

LEMMA LineNumbers ==
  ASSUME NEW l \in Line
  PROVE  /\ DOMAIN HalfNumbers(Halves(l)) = 1 .. 2
         /\ HalfNumbers(Halves(l))[1] = 0 /\ HalfNumbers(Halves(l))[2] = l.n
<1> DEFINE h == Halves(l)
<1>1. DOMAIN h = 1 .. 2 /\ ~h[1].last /\ h[2].last /\ h[2].line = l
  BY DEF Halves
<1>2. 1 \in 1 .. 2 /\ 2 \in 1 .. 2
  OBVIOUS
<1> HIDE DEF h
<1>3. /\ DOMAIN HalfNumbers(h) = 1 .. 2
      /\ HalfNumbers(h)[1] = 0 /\ HalfNumbers(h)[2] = l.n
  BY <1>1, <1>2 DEF HalfNumbers
<1> QED
  BY <1>3 DEF h

(* A line taken from the front has the next number, if it is an output.    *)
LEMMA HalvesDropped ==
  ASSUME NEW h \in Seq(Half), NEW g \in Seq(Half), Whole(h), Len(h) = Len(g) + 2,
         \A i \in 1 .. Len(g) : g[i] = h[i + 2],
         NEW low \in Nat, NEW high \in Nat, Gapless(HalfNumbers(h), low, high)
  PROVE  /\ h[1].line.n = 0 => Gapless(HalfNumbers(g), low, high)
         /\ h[1].line.n # 0 => h[1].line.n = low + 1 /\ Gapless(HalfNumbers(g), low + 1, high)
<1> DEFINE f == HalfNumbers(h)
           e == HalfNumbers(g)
           k == Len(g)
<1>1. k \in Nat /\ DOMAIN h = 1 .. k + 2 /\ DOMAIN g = 1 .. k
  OBVIOUS
<1>2. f \in [1 .. k + 2 -> Nat] /\ e \in [1 .. k -> Nat]
  BY HalfNumbersType
<1>3. ~h[1].last /\ h[2].last /\ h[2].line = h[1].line
  BY WholeDrop
<1> HIDE DEF k
<1>4. 1 \in 1 .. k + 2 /\ 2 \in 1 .. k + 2 /\ \A i \in 1 .. k : i + 2 \in 1 .. k + 2
  BY <1>1
<1>5. f[1] = 0 /\ f[2] = h[1].line.n
  BY <1>1, <1>3, <1>4 DEF HalfNumbers
<1>6. \A i \in 1 .. k : e[i] = f[i + 2]
  BY <1>1, <1>4 DEF HalfNumbers, k
<1>7. Gapless(f, low, high)
  OBVIOUS
<1> HIDE DEF f, e
<1>8. Dropped(f, e, k, 2)
  BY <1>1, <1>2, <1>5, <1>6 DEF Dropped
<1>9. f[2] = 0 => Gapless(e, low, high)
  BY <1>7, <1>8, NumbersDropNone
<1>10. f[2] # 0 => f[2] = low + 1 /\ Gapless(e, low + 1, high)
  BY <1>7, <1>8, NumbersDropNext
<1> QED
  BY <1>5, <1>9, <1>10 DEF e

(* What the parser makes of a line, and whether the next is in a block.    *)
LEMMA EventFacts ==
  ASSUME NEW l \in Line, NEW blocked \in BOOLEAN, blocked => l.kind \in {"text", "end", "error"}
  PROVE  /\ Event(blocked, l) # NoEvent => Event(blocked, l) = l
         /\ Event(blocked, l) = NoEvent => l.n = 0
         /\ NextBlock(blocked, l) => l.kind \in {"begin", "text"}
<1>1. l.kind # "output" => l.n = 0
  BY DEF Line
<1>2. l.kind \in {"output", "begin", "text", "end", "error", "notify", "exit"}
  BY DEF Line
<1>3. NoEvent.kind = "none"
  BY DEF NoEvent, Other
<1> QED
  BY <1>1, <1>2, <1>3 DEF Event, NextBlock

-----------------------------------------------------------------------------
(* The outputs in order.                                                   *)

IInv == TInv /\ NothingSkipped /\ WholeBlocks /\ YetToCome /\ SpawnedLast

LEMMA UnfedType ==
  ASSUME TInv, NEW a \in Attach
  PROVE  /\ line_buf[a] \in Seq(Half) /\ wire[a] \in Seq(Half) /\ Unfed(a) \in Seq(Half)
         /\ from[a] \in Nat /\ outputs[a] \in Seq(1 .. MaxOutputs) /\ events[a] \in Seq(Line)
         /\ from[a] + Len(outputs[a]) \in Nat /\ produced \in Nat
<1>1. /\ line_buf[a] \in Seq(Half) /\ wire[a] \in Seq(Half)
      /\ from[a] \in 0 .. MaxOutputs /\ outputs[a] \in Seq(1 .. MaxOutputs)
      /\ events[a] \in Seq(Line) /\ produced \in 0 .. MaxOutputs
  BY DEF TInv, TypeOK, Half
<1> QED
  BY <1>1, Bounds DEF Unfed

(* A step that leaves an attachment alone, but may detach it.              *)
LEMMA LeftAlone ==
  ASSUME TInv, NEW a \in Attach, produced' \in Nat, produced <= produced',
         from'[a] = from[a], attached'[a] => attached[a] /\ produced' = produced,
         Unfed(a)' = Unfed(a), events'[a] = events[a], outputs'[a] = outputs[a]
  PROVE  InOrder(a) => InOrder(a)'
<1> SUFFICES ASSUME InOrder(a) PROVE InOrder(a)'
  OBVIOUS
<1>1. PICK queued \in 0 .. produced, written \in 0 .. produced :
        /\ Gapless(EventNumbers(events[a]), from[a] + Len(outputs[a]), queued)
        /\ Gapless(HalfNumbers(Unfed(a)), queued, written)
        /\ attached[a] => written = produced
  BY DEF InOrder
<1>2. queued \in 0 .. produced' /\ written \in 0 .. produced'
  BY UnfedType
<1>3. /\ Gapless(EventNumbers(events'[a]), from'[a] + Len(outputs'[a]), queued)
      /\ Gapless(HalfNumbers(Unfed(a)'), queued, written)
      /\ attached'[a] => written = produced'
  BY <1>1
<1> QED
  BY <1>2, <1>3 DEF InOrder

(* What tmux writes to an attachment.                                      *)
LEMMA Written ==
  ASSUME TInv, NEW a \in Attach, NEW t \in Seq(Half), produced' \in Nat,
         wire'[a] = wire[a] \o t, line_buf'[a] = line_buf[a], Whole(t),
         from'[a] = from[a], events'[a] = events[a], outputs'[a] = outputs[a],
         in_block'[a] = in_block[a], attached'[a] => attached[a],
         \/ produced' = produced /\ \A i \in 1 .. Len(t) : HalfNumbers(t)[i] = 0
         \/ /\ produced' = produced + 1 /\ attached[a]
            /\ Len(t) = 2 /\ HalfNumbers(t)[1] = 0 /\ HalfNumbers(t)[2] = produced + 1
  PROVE  /\ InOrder(a) => InOrder(a)'
         /\ FedWhole(a) => FedWhole(a)'
<1>1. Unfed(a)' = Unfed(a) \o t
  <2>1. (line_buf[a] \o wire[a]) \o t = line_buf[a] \o (wire[a] \o t)
    <3>1. PICK x \in Seq(Half), y \in Seq(Half) : x = line_buf[a] /\ y = wire[a]
      BY UnfedType
    <3>2. (x \o y) \o t = x \o (y \o t)
      BY HalvesAssociate, ZenonT(60)
    <3> QED
      BY <3>1, <3>2
  <2> QED
    BY <2>1 DEF Unfed
<1>2. ASSUME InOrder(a) PROVE InOrder(a)'
  <2>1. PICK queued \in 0 .. produced, written \in 0 .. produced :
          /\ Gapless(EventNumbers(events[a]), from[a] + Len(outputs[a]), queued)
          /\ Gapless(HalfNumbers(Unfed(a)), queued, written)
          /\ attached[a] => written = produced
    BY <1>2 DEF InOrder
  <2>2. queued \in Nat /\ written \in Nat
    BY <2>1, UnfedType
  <2>3. CASE produced' = produced /\ \A i \in 1 .. Len(t) : HalfNumbers(t)[i] = 0
    <3>1. Gapless(HalfNumbers(Unfed(a) \o t), queued, written)
      BY <2>1, <2>2, <2>3, UnfedType, HalvesAppended
    <3> QED
      BY <1>1, <2>1, <2>3, <3>1 DEF InOrder
  <2>4. CASE /\ produced' = produced + 1 /\ attached[a]
             /\ Len(t) = 2 /\ HalfNumbers(t)[1] = 0 /\ HalfNumbers(t)[2] = produced + 1
    <3>1. written = produced
      BY <2>1, <2>4
    <3>2. Gapless(HalfNumbers(Unfed(a) \o t), queued, written + 1)
      BY <2>1, <2>2, <2>4, <3>1, UnfedType, HalvesAppended
    <3>3. queued \in 0 .. produced' /\ written + 1 \in 0 .. produced' /\ written + 1 = produced'
      BY <2>2, <2>4, <3>1, UnfedType
    <3> QED
      BY <1>1, <2>1, <3>2, <3>3 DEF InOrder
  <2> QED
    BY <2>3, <2>4
<1>3. ASSUME FedWhole(a) PROVE FedWhole(a)'
  <2>1. Whole(Unfed(a) \o t)
    BY <1>3, UnfedType, WholeConcat DEF FedWhole
  <2>2. Unfed(a) # <<>> => Unfed(a) \o t # <<>> /\ (Unfed(a) \o t)[1] = Unfed(a)[1]
    BY UnfedType
  <2> QED
    BY <1>1, <1>3, <2>1, <2>2 DEF FedWhole
<1> QED
  BY <1>2, <1>3

(* A chunk is read: nothing is fed yet.                                    *)
LEMMA ChunkKeepsUnfed ==
  ASSUME TInv, NEW a \in Attach, ReadChunk(a), NEW b \in Attach
  PROVE  Unfed(b)' = Unfed(b)
<1>1. PICK n \in 1 .. MaxChunk :
        /\ n <= Len(wire[a])
        /\ line_buf' = [line_buf EXCEPT ![a] = @ \o SubSeq(wire[a], 1, n)]
        /\ wire' = [wire EXCEPT ![a] = SubSeq(@, n + 1, Len(@))]
  BY DEF ReadChunk
<1>2. wire \in [Attach -> Seq(Half)] /\ line_buf \in [Attach -> Seq(Half)]
  BY DEF TInv, TypeOK, Half
<1>3. CASE b # a
  BY <1>1, <1>2, <1>3 DEF Unfed
<1>4. CASE b = a
  <2>1. PICK x \in Seq(Half), y \in Seq(Half) : x = line_buf[a] /\ y = wire[a]
    BY <1>2
  <2>2. n \in Nat /\ n <= Len(y)
    BY <1>1, <2>1, BoundAssumption
  <2> DEFINE u == SubSeq(y, 1, n)
             v == SubSeq(y, n + 1, Len(y))
  <2>3. u \in Seq(Half) /\ v \in Seq(Half) /\ u \o v = y
    BY <2>2
  <2>4. (x \o u) \o v = x \o (u \o v)
    <3> HIDE DEF u, v
    <3> QED
      BY <2>3, HalvesAssociate, ZenonT(60)
  <2>5. line_buf'[a] = x \o u /\ wire'[a] = v
    BY <1>1, <1>2, <2>1
  <2> HIDE DEF u, v
  <2> QED
    BY <1>4, <2>1, <2>3, <2>4, <2>5 DEF Unfed
<1> QED
  BY <1>3, <1>4

(* An event joins the queue, or leaves it.                                 *)
LEMMA EventAppended ==
  ASSUME NEW q \in Seq(Line), NEW l \in Line, NEW low \in Nat, NEW high \in Nat,
         Gapless(EventNumbers(q), low, high)
  PROVE  /\ l.n = 0 => Gapless(EventNumbers(Append(q, l)), low, high)
         /\ l.n = high + 1 => Gapless(EventNumbers(Append(q, l)), low, high + 1)
<1> DEFINE p == Append(q, l)
           f == EventNumbers(q)
           g == EventNumbers(p)
           k == Len(q)
<1>1. /\ p \in Seq(Line) /\ Len(p) = k + 1 /\ k \in Nat
      /\ DOMAIN q = 1 .. k /\ DOMAIN p = 1 .. k + 1
      /\ p[k + 1] = l /\ \A i \in 1 .. k : p[i] = q[i]
  OBVIOUS
<1> HIDE DEF p, k
<1>2. f \in [1 .. k -> Nat] /\ g \in [1 .. k + 1 -> Nat]
  BY <1>1, EventNumbersType DEF k
<1>3. g[k + 1] = l.n /\ \A i \in 1 .. k : g[i] = f[i]
  BY <1>1 DEF EventNumbers
<1> HIDE DEF f, g
<1>4. Gapless(f, low, high)
  BY DEF f
<1>5. /\ g[k + 1] = 0 => Gapless(g, low, high)
      /\ g[k + 1] = high + 1 => Gapless(g, low, high + 1)
  BY <1>1, <1>2, <1>3, <1>4, NumberAppend
<1>6. ASSUME l.n = 0 PROVE Gapless(g, low, high)
  BY <1>3, <1>5, <1>6
<1>7. ASSUME l.n = high + 1 PROVE Gapless(g, low, high + 1)
  BY <1>3, <1>5, <1>7
<1> QED
  BY <1>6, <1>7 DEF g, p

LEMMA EventTaken ==
  ASSUME NEW q \in Seq(Line), q # <<>>, NEW low \in Nat, NEW high \in Nat,
         Gapless(EventNumbers(q), low, high)
  PROVE  /\ Head(q).n = 0 => Gapless(EventNumbers(Tail(q)), low, high)
         /\ Head(q).n # 0 =>
              Head(q).n = low + 1 /\ Gapless(EventNumbers(Tail(q)), low + 1, high)
<1> DEFINE p == Tail(q)
           f == EventNumbers(q)
           g == EventNumbers(p)
           k == Len(p)
<1>1. /\ p \in Seq(Line) /\ Len(q) = k + 1 /\ k \in Nat
      /\ DOMAIN q = 1 .. k + 1 /\ DOMAIN p = 1 .. k
      /\ Head(q) = q[1] /\ \A i \in 1 .. k : p[i] = q[i + 1] /\ i + 1 \in 1 .. k + 1
  OBVIOUS
<1> HIDE DEF p, k
<1>2. 1 \in 1 .. k + 1 /\ 1 .. 1 - 1 = {} /\ 1 \in Nat /\ 1 > 0
  BY <1>1
<1>3. /\ DOMAIN f = 1 .. k + 1 /\ DOMAIN g = 1 .. k
      /\ f[1] = Head(q).n /\ \A i \in 1 .. k : g[i] = f[i + 1]
  BY <1>1, <1>2 DEF EventNumbers
<1> HIDE DEF f, g
<1>4. Gapless(f, low, high)
  BY DEF f
<1>5. Dropped(f, g, k, 1)
  BY <1>1, <1>2, <1>3 DEF Dropped
<1>6. f[1] = 0 => Gapless(g, low, high)
  BY <1>4, <1>5, NumbersDropNone
<1>7. f[1] # 0 => f[1] = low + 1 /\ Gapless(g, low + 1, high)
  BY <1>4, <1>5, NumbersDropNext
<1> QED
  BY <1>3, <1>6, <1>7 DEF g, p

(* A line is fed: its number leaves the halves and joins the queue.        *)
LEMMA FeedKeepsOrder ==
  ASSUME IInv, NEW a \in Attach, FeedLine(a)
  PROVE  /\ task'[a] # "send" => InOrder(a)'
         /\ FedWhole(a)'
<1> DEFINE h == Unfed(a)
           g == Unfed(a)'
           l == Head(line_buf[a]).line
           e == Event(in_block[a], l)
<1>t. /\ wire \in [Attach -> Seq(Half)] /\ line_buf \in [Attach -> Seq(Half)]
      /\ events \in [Attach -> Seq(Line)] /\ in_block \in [Attach -> BOOLEAN]
      /\ task \in [Attach -> {"none", "select", "lines", "send", "ended"}]
  BY DEF IInv, TInv, TypeOK, Half
<1>1. /\ task[a] = "lines" /\ line_buf' = [line_buf EXCEPT ![a] = DropLine(@)]
      /\ in_block' = [in_block EXCEPT ![a] = NextBlock(@, l)]
      /\ \/ e # NoEvent /\ Emit(a, e)
         \/ /\ e = NoEvent
            /\ task' = [task EXCEPT ![a] = Loop(line_buf'[a])] /\ UNCHANGED events
      /\ UNCHANGED <<produced, from, attached, wire, outputs>>
  BY DEF FeedLine, tmux
<1>2. line_buf[a] \in Seq(Half) /\ Len(line_buf[a]) >= 2 /\ wire[a] \in Seq(Half)
  BY <1>t, <1>1 DEF IInv, TInv, LinesToFeed, HasLine
<1>3. /\ h \in Seq(Half) /\ g \in Seq(Half) /\ Len(h) = Len(g) + 2
      /\ \A i \in 1 .. Len(g) : g[i] = h[i + 2]
      /\ h[1] = Head(line_buf[a]) /\ h # <<>> /\ 1 \in DOMAIN h
  <2>1. PICK x \in Seq(Half), y \in Seq(Half) : x = line_buf[a] /\ y = wire[a]
    BY <1>2
  <2>2. Len(x) >= 2
    BY <1>2, <2>1
  <2> DEFINE z == SubSeq(x, 3, Len(x))
  <2>3. /\ z \in Seq(Half) /\ Len(z) = Len(x) - 2
        /\ \A i \in 1 .. Len(z) : z[i] = x[i + 2]
    <3>1. Len(x) \in Nat /\ 3 \in Nat \ {0} /\ Len(x) \in 0 .. Len(x)
      OBVIOUS
    <3>2. z \in Seq(Half)
      BY <3>1, SubSeqTypes
    <3>3. Len(z) = Len(x) - 2
      <4>1. Len(z) = IF 3 <= Len(x) THEN Len(x) - 3 + 1 ELSE 0
        OBVIOUS
      <4>2. \A n \in Nat : n >= 2 => (IF 3 <= n THEN n - 3 + 1 ELSE 0) = n - 2
        OBVIOUS
      <4> HIDE DEF z
      <4> QED
        BY <2>2, <3>1, <4>1, <4>2, Zenon
    <3>4. ASSUME NEW i \in 1 .. Len(z) PROVE z[i] = x[i + 2]
      <4>1. i \in 1 .. Len(x) - 2
        BY <3>3
      <4>2. z[i] = x[i + 3 - 1] /\ i + 3 - 1 = i + 2
        BY <2>2, <3>1, <4>1
      <4> QED
        BY <4>2
    <3> QED
      BY <3>2, <3>3, <3>4
  <2>4. line_buf'[a] = z /\ wire'[a] = y
    BY <1>t, <1>1, <2>1 DEF DropLine
  <2>5. h = x \o y /\ g = z \o y
    BY <2>1, <2>4 DEF Unfed
  <2> HIDE DEF z, h, g
  <2>6. /\ h \in Seq(Half) /\ g \in Seq(Half) /\ Len(h) = Len(x) + Len(y) /\ Len(g) = Len(z) + Len(y)
        /\ \A i \in 1 .. Len(x) + Len(y) : h[i] = IF i <= Len(x) THEN x[i] ELSE y[i - Len(x)]
        /\ \A i \in 1 .. Len(z) + Len(y) : g[i] = IF i <= Len(z) THEN z[i] ELSE y[i - Len(z)]
    <3>1. ASSUME NEW p \in Seq(Half), NEW q \in Seq(Half)
          PROVE  /\ p \o q \in Seq(Half) /\ Len(p \o q) = Len(p) + Len(q)
                 /\ \A i \in 1 .. Len(p) + Len(q) :
                      (p \o q)[i] = IF i <= Len(p) THEN p[i] ELSE q[i - Len(p)]
      OBVIOUS
    <3> QED
      BY <2>3, <2>5, <3>1
  <2>7. ASSUME NEW i \in 1 .. Len(g) PROVE g[i] = h[i + 2]
    <3>1. i + 2 \in 1 .. Len(x) + Len(y) /\ i \in 1 .. Len(z) + Len(y)
      BY <2>3, <2>6
    <3>2. CASE i <= Len(z)
      BY <2>3, <2>6, <3>1, <3>2
    <3>3. CASE i > Len(z)
      <4>1. i + 2 - Len(x) = i - Len(z) /\ ~(i + 2 <= Len(x)) /\ ~(i <= Len(z))
        BY <2>3, <3>1, <3>3
      <4> QED
        BY <2>6, <3>1, <4>1
    <3> QED
      BY <2>3, <3>2, <3>3
  <2>8. h[1] = x[1] /\ Head(x) = x[1] /\ h # <<>> /\ 1 \in DOMAIN h
    BY <2>2, <2>6
  <2>9. Len(h) = Len(g) + 2
    BY <2>3, <2>6
  <2>10. h[1] = Head(line_buf[a])
    BY <2>1, <2>8
  <2> QED
    BY <2>6, <2>7, <2>8, <2>9, <2>10
<1>4. Whole(h) /\ in_block[a] => h[1].line.kind \in {"text", "end", "error"}
  BY DEF IInv, WholeBlocks, FedWhole
<1>5. l = h[1].line /\ l \in Line
  <2>1. Head(line_buf[a]) \in Half
    BY <1>2
  <2> QED
    BY <1>3, <2>1 DEF Half
<1>w. Whole(h)
  BY DEF IInv, WholeBlocks, FedWhole
<1> HIDE DEF h, g, l
<1>6. /\ Whole(g)
      /\ ~h[1].last /\ h[2].last /\ h[2].line = h[1].line
  BY <1>3, <1>w, WholeDrop
<1>7. in_block[a] \in BOOLEAN /\ (in_block[a] => l.kind \in {"text", "end", "error"})
  BY <1>t, <1>4, <1>w, <1>5
<1>8. /\ e # NoEvent => e = l
      /\ e = NoEvent => l.n = 0
      /\ NextBlock(in_block[a], l) => l.kind \in {"begin", "text"}
  BY <1>5, <1>7, EventFacts
<1>9. l.kind \in {"begin", "text"} => g # <<>> /\ g[1].line.kind \in {"text", "end", "error"}
  <2>1. SUFFICES ASSUME l.kind \in {"begin", "text"}
                 PROVE  g # <<>> /\ g[1].line.kind \in {"text", "end", "error"}
    OBVIOUS
  <2>2. 2 \in DOMAIN h /\ h[2].last /\ h[2].line.kind \in {"begin", "text"} /\ 2 + 1 = 3
    BY <1>3, <1>5, <1>6, <2>1
  <2>3. 2 < Len(h) /\ h[3].line.kind \in {"text", "end", "error"}
    <3>1. h[2].line.kind = "begin" => 2 < Len(h) /\ h[2 + 1].line.kind = "text"
      BY <1>w, <2>2, WholeAt
    <3>2. h[2].line.kind = "text" => 2 < Len(h) /\ h[2 + 1].line.kind \in {"end", "error"}
      BY <1>w, <2>2, WholeAt
    <3> QED
      BY <2>2, <3>1, <3>2
  <2>4. g # <<>> /\ g[1] = h[1 + 2]
    BY <1>3, <2>3
  <2> QED
    BY <2>3, <2>4
<1>10. FedWhole(a)'
  <2>1. in_block'[a] = NextBlock(in_block[a], l)
    BY <1>t, <1>1
  <2> QED
    BY <1>6, <1>8, <1>9, <2>1 DEF FedWhole, g
<1>11. ASSUME task'[a] # "send" PROVE InOrder(a)'
  <2>1. PICK queued \in 0 .. produced, written \in 0 .. produced :
          /\ Gapless(EventNumbers(events[a]), from[a] + Len(outputs[a]), queued)
          /\ Gapless(HalfNumbers(h), queued, written)
          /\ attached[a] => written = produced
    BY <1>1 DEF IInv, NothingSkipped, InOrder, h
  <2>2. /\ produced \in Nat /\ queued \in Nat /\ written \in Nat
        /\ from[a] + Len(outputs[a]) \in Nat /\ events[a] \in Seq(Line)
    BY <2>1, UnfedType DEF IInv
  <2>3. /\ h[1].line.n = 0 => Gapless(HalfNumbers(g), queued, written)
        /\ h[1].line.n # 0 => h[1].line.n = queued + 1 /\ Gapless(HalfNumbers(g), queued + 1, written)
    BY <1>3, <1>w, <2>1, <2>2, HalvesDropped
  <2>4. CASE e = NoEvent
    <3>1. events' = events
      BY <1>1, <2>4
    <3>2. Gapless(HalfNumbers(g), queued, written)
      BY <1>5, <1>8, <2>3, <2>4
    <3> QED
      BY <1>1, <2>1, <3>1, <3>2 DEF InOrder, g
  <2>5. CASE e # NoEvent
    <3>1. e = l
      BY <1>8, <2>5
    <3>2. events'[a] = Append(events[a], l)
      <4>1. events' = [events EXCEPT ![a] = Append(@, e)]
        <5>1. Emit(a, e)
          BY <1>1, <2>5
        <5> HIDE DEF e
        <5>2. ~(task' = [task EXCEPT ![a] = "send"])
          BY <1>t, <1>11
        <5> QED
          BY <5>1, <5>2 DEF Emit
      <4> HIDE DEF e
      <4> QED
        BY <1>t, <3>1, <4>1
    <3>3. /\ l.n = 0 => Gapless(EventNumbers(events'[a]), from[a] + Len(outputs[a]), queued)
          /\ l.n = queued + 1 => Gapless(EventNumbers(events'[a]), from[a] + Len(outputs[a]), queued + 1)
      BY <1>5, <2>1, <2>2, <3>2, EventAppended
    <3>4. CASE l.n = 0
      BY <1>1, <1>5, <2>1, <2>3, <3>3, <3>4 DEF InOrder, g
    <3>5. CASE l.n # 0
      <4>1. l.n = queued + 1 /\ Gapless(HalfNumbers(g), queued + 1, written)
        BY <1>5, <2>3, <3>5
      <4>2. queued + 1 <= written
        BY <4>1 DEF Gapless
      <4>3. queued + 1 \in 0 .. produced
        BY <2>1, <2>2, <4>2
      <4> QED
        BY <1>1, <2>1, <3>3, <4>1, <4>3 DEF InOrder, g
    <3> QED
      BY <3>4, <3>5
  <2> QED
    BY <2>4, <2>5
<1> QED
  BY <1>10, <1>11

(* An event is handled: an output is the next one to broadcast.            *)
LEMMA HandleKeepsOrder ==
  ASSUME IInv, NEW a \in Attach, HandleEvent(a)
  PROVE  /\ task'[a] # "ended" => InOrder(a)'
         /\ \/ outputs'[a] = outputs[a]
            \/ /\ from[a] + Len(outputs[a]) < produced
               /\ outputs'[a] = Append(outputs[a], from[a] + Len(outputs[a]) + 1)
<1> DEFINE l == Head(events[a])
           low == from[a] + Len(outputs[a])
<1>t. /\ events \in [Attach -> Seq(Line)] /\ outputs \in [Attach -> Seq(1 .. MaxOutputs)]
      /\ task \in [Attach -> {"none", "select", "lines", "send", "ended"}]
  BY DEF IInv, TInv, TypeOK
<1>1. /\ task[a] = "select" /\ events[a] # <<>>
      /\ outputs' = IF l.kind = "output" THEN [outputs EXCEPT ![a] = Append(@, l.n)] ELSE outputs
      /\ events' = [events EXCEPT ![a] = Tail(@)]
      /\ UNCHANGED <<produced, from, attached, wire, line_buf>>
  BY DEF HandleEvent, tmux
<1>2. l \in Line
  BY <1>t, <1>1, HeadTail
<1>3. PICK queued \in 0 .. produced, written \in 0 .. produced :
        /\ Gapless(EventNumbers(events[a]), low, queued)
        /\ Gapless(HalfNumbers(Unfed(a)), queued, written)
        /\ attached[a] => written = produced
  BY <1>1 DEF IInv, NothingSkipped, InOrder
<1>4. /\ produced \in Nat /\ queued \in Nat /\ low \in Nat /\ events[a] \in Seq(Line)
      /\ from[a] \in Nat /\ outputs[a] \in Seq(1 .. MaxOutputs)
  BY <1>3, UnfedType DEF IInv
<1>5. /\ l.n = 0 => Gapless(EventNumbers(Tail(events[a])), low, queued)
      /\ l.n # 0 => l.n = low + 1 /\ Gapless(EventNumbers(Tail(events[a])), low + 1, queued)
  <2> HIDE DEF low
  <2> QED
    BY <1>1, <1>3, <1>4, EventTaken
<1>6. l.kind = "output" <=> l.n # 0
  BY <1>2, Bounds DEF Line
<1>7. events'[a] = Tail(events[a]) /\ Unfed(a)' = Unfed(a)
  BY <1>t, <1>1 DEF Unfed
<1>8. CASE l.n = 0
  <2>1. outputs'[a] = outputs[a]
    BY <1>1, <1>6, <1>8
  <2>2. InOrder(a)'
    BY <1>1, <1>3, <1>5, <1>7, <1>8, <2>1 DEF InOrder
  <2> QED
    BY <2>1, <2>2
<1>9. CASE l.n # 0
  <2>1. outputs'[a] = Append(outputs[a], low + 1)
    <3> HIDE DEF l
    <3> QED
      BY <1>t, <1>1, <1>5, <1>6, <1>9
  <2>2. from'[a] + Len(outputs'[a]) = low + 1
    BY <1>1, <1>4, <2>1
  <2>3. low + 1 <= queued
    BY <1>5, <1>9 DEF Gapless
  <2>4. low < produced
    BY <1>3, <1>4, <2>3
  <2>5. InOrder(a)'
    <3>1. Gapless(EventNumbers(events'[a]), low + 1, queued)
      BY <1>5, <1>7, <1>9
    <3> HIDE DEF low, l
    <3> QED
      BY <1>1, <1>3, <1>7, <2>2, <3>1 DEF InOrder
  <2> QED
    BY <2>1, <2>4, <2>5
<1> QED
  BY <1>2, <1>4, <1>8, <1>9

(* tmux and the channel: what is written to one attachment.                *)
WrittenTo(a, t) ==
  /\ t \in Seq(Half) /\ Whole(t) /\ wire'[a] = wire[a] \o t
  /\ \/ produced' = produced /\ \A i \in 1 .. Len(t) : HalfNumbers(t)[i] = 0
     \/ /\ produced' = produced + 1
        /\ Len(t) = 2 /\ HalfNumbers(t)[1] = 0 /\ HalfNumbers(t)[2] = produced + 1

LEMMA WritingKeepsOrder ==
  ASSUME IInv, TInv', produced <= produced',
         UNCHANGED <<from, link, task, aborted, reader>>,
         \A a \in Attach : attached'[a] => attached[a],
         \A a \in Attach : \/ wire'[a] = wire[a] /\ (attached'[a] => produced' = produced)
                           \/ attached[a] /\ \E t : WrittenTo(a, t)
  PROVE  IInv'
<1>0. UNCHANGED <<from, conn, current, task, line_buf, in_block, events, outputs>>
  BY DEF link, reader
<1>1. produced' \in Nat
  BY Bounds DEF TInv, TypeOK
<1>2. ASSUME NEW a \in Attach PROVE (InOrder(a) => InOrder(a)') /\ FedWhole(a)'
  <2>1. CASE wire'[a] = wire[a] /\ (attached'[a] => produced' = produced)
    <3>1. Unfed(a)' = Unfed(a)
      BY <1>0, <2>1 DEF Unfed
    <3>2. InOrder(a) => InOrder(a)'
      BY <1>0, <1>1, <2>1, <3>1, LeftAlone DEF IInv
    <3> QED
      BY <1>0, <3>1, <3>2 DEF IInv, WholeBlocks, FedWhole
  <2>2. CASE attached[a] /\ \E t : WrittenTo(a, t)
    <3>1. PICK t \in Seq(Half) : WrittenTo(a, t)
      BY <2>2 DEF WrittenTo
    <3>2. (InOrder(a) => InOrder(a)') /\ (FedWhole(a) => FedWhole(a)')
      BY <1>0, <1>1, <2>2, <3>1, Written DEF IInv, WrittenTo
    <3> QED
      BY <3>2 DEF IInv, WholeBlocks
  <2> QED
    BY <2>1, <2>2
<1>3. NothingSkipped'
  BY <1>0, <1>2 DEF IInv, NothingSkipped
<1>4. WholeBlocks'
  BY <1>2 DEF WholeBlocks
<1>5. YetToCome'
  <2>1. ASSUME NEW a \in Attach, a > current PROVE Untouched(a)'
    <3>1. Untouched(a)
      BY <2>1 DEF IInv, YetToCome
    <3>2. ~attached'[a] /\ wire'[a] = wire[a]
      BY <3>1 DEF Untouched
    <3> QED
      BY <1>0, <3>1, <3>2 DEF Untouched
  <2> QED
    BY <1>0, <2>1 DEF YetToCome
<1>6. SpawnedLast'
  BY <1>0 DEF IInv, SpawnedLast
<1> QED
  BY <1>3, <1>4, <1>5, <1>6 DEF IInv

(* A line that is written whole.                                           *)
LEMMA LineWritten ==
  ASSUME NEW a \in Attach, NEW l \in Line, l.kind \in {"output", "notify", "exit"},
         wire'[a] = wire[a] \o Halves(l),
         \/ l.n = 0 /\ produced' = produced
         \/ l.n = produced + 1 /\ produced' = produced + 1
  PROVE  \E t : WrittenTo(a, t)
<1>1. Whole(Halves(l)) /\ Halves(l) \in Seq(Half) /\ Len(Halves(l)) = 2
  BY WholeLine
<1>2. HalfNumbers(Halves(l))[1] = 0 /\ HalfNumbers(Halves(l))[2] = l.n
  BY LineNumbers
<1>3. l.n = 0 => \A i \in 1 .. 2 : HalfNumbers(Halves(l))[i] = 0
  <2>1. \A i \in 1 .. 2 : i = 1 \/ i = 2
    OBVIOUS
  <2> QED
    BY <1>2, <2>1
<1>4. WrittenTo(a, Halves(l))
  BY <1>1, <1>2, <1>3 DEF WrittenTo
<1> QED
  BY <1>4

LEMMA TmuxKeepsOrder ==
  ASSUME IInv, TInv',
         TmuxOutput \/ TmuxNotify \/ \E a \in Attach : TmuxReply(a) \/ ChannelEnds(a)
  PROVE  IInv'
<1>t. /\ wire \in [Attach -> Seq(Half)] /\ attached \in [Attach -> BOOLEAN]
      /\ produced \in 0 .. MaxOutputs /\ produced \in Nat
  <2>1. /\ wire \in [Attach -> Seq(Half)] /\ attached \in [Attach -> BOOLEAN]
        /\ produced \in 0 .. MaxOutputs
    BY DEF IInv, TInv, TypeOK, Half
  <2> QED
    BY <2>1, Bounds
<1>l. Other("notify") \in Line /\ Other("exit") \in Line
  BY DEF Line, Other
<1>k. /\ Other("notify").kind = "notify" /\ Other("notify").n = 0
      /\ Other("exit").kind = "exit" /\ Other("exit").n = 0
  BY DEF Other
<1>1. CASE TmuxOutput
  <2>1. /\ produced < MaxOutputs /\ produced' = produced + 1 /\ WriteToAll(Output(produced'))
        /\ UNCHANGED <<from, attached, link, task, aborted, reader>>
    BY <1>1 DEF TmuxOutput
  <2>2. /\ Output(produced') \in Line /\ Output(produced').kind = "output"
        /\ Output(produced').n = produced + 1
    BY <1>t, <2>1, Bounds DEF Output, Line
  <2>3. ASSUME NEW a \in Attach, attached[a] PROVE \E t : WrittenTo(a, t)
    <3>1. wire'[a] = wire[a] \o Halves(Output(produced'))
      BY <2>1, <2>3 DEF WriteToAll
    <3> QED
      BY <2>1, <2>2, <3>1, LineWritten
  <2>4. ASSUME NEW a \in Attach, ~attached[a] PROVE wire'[a] = wire[a] /\ ~attached'[a]
    BY <2>1, <2>4 DEF WriteToAll
  <2>5. produced <= produced'
    BY <1>t, <2>1
  <2>6. \A a \in Attach : attached'[a] => attached[a]
    BY <2>1
  <2>7. \A a \in Attach : \/ wire'[a] = wire[a] /\ (attached'[a] => produced' = produced)
                          \/ attached[a] /\ \E t : WrittenTo(a, t)
    BY <2>3, <2>4
  <2> QED
    BY <2>1, <2>5, <2>6, <2>7, WritingKeepsOrder
<1>2. CASE TmuxNotify
  <2>1. /\ produced' = produced /\ WriteToAll(Other("notify"))
        /\ UNCHANGED <<from, attached, link, task, aborted, reader>>
    BY <1>2 DEF TmuxNotify
  <2>2. ASSUME NEW a \in Attach, attached[a] PROVE \E t : WrittenTo(a, t)
    <3>1. wire'[a] = wire[a] \o Halves(Other("notify"))
      BY <2>1, <2>2 DEF WriteToAll
    <3> QED
      BY <1>l, <1>k, <2>1, <3>1, LineWritten
  <2>3. ASSUME NEW a \in Attach, ~attached[a] PROVE wire'[a] = wire[a]
    BY <2>1, <2>3 DEF WriteToAll
  <2>4. produced <= produced'
    BY <1>t, <2>1
  <2>5. \A a \in Attach : attached'[a] => attached[a]
    BY <2>1
  <2>6. \A a \in Attach : \/ wire'[a] = wire[a] /\ (attached'[a] => produced' = produced)
                          \/ attached[a] /\ \E t : WrittenTo(a, t)
    BY <2>1, <2>2, <2>3
  <2> QED
    BY <2>1, <2>4, <2>5, <2>6, WritingKeepsOrder
<1>3. ASSUME NEW a \in Attach, TmuxReply(a) PROVE IInv'
  <2>1. /\ attached[a] /\ produced' = produced
        /\ UNCHANGED <<from, attached, link, task, aborted, reader>>
    BY <1>3 DEF TmuxReply
  <2>2. PICK closing \in {"end", "error"} :
          wire' = [wire EXCEPT ![a] = @ \o Halves(Other("begin")) \o Halves(Other("text"))
                                        \o Halves(Other(closing))]
    BY <1>3 DEF TmuxReply
  <2> DEFINE t == Halves(Other("begin")) \o Halves(Other("text")) \o Halves(Other(closing))
  <2>3. t \in Seq(Half) /\ Len(t) = 6 /\ Whole(t) /\ HalfNumbers(t) = [i \in 1 .. 6 |-> 0]
    BY WholeReply
  <2>4. wire'[a] = wire[a] \o t
    <3>1. /\ Halves(Other("begin")) \in Seq(Half) /\ Halves(Other("text")) \in Seq(Half)
          /\ Halves(Other(closing)) \in Seq(Half)
      BY OtherTypes
    <3>2. wire[a] \in Seq(Half)
      BY <1>t
    <3>3. wire'[a] = ((wire[a] \o Halves(Other("begin"))) \o Halves(Other("text")))
                       \o Halves(Other(closing))
      BY <1>t, <2>2
    <3> DEFINE p == Halves(Other("begin"))
               q == Halves(Other("text"))
               r == Halves(Other(closing))
               Join(u, v) == u \o v
    <3>4. t = Join(Join(p, q), r) /\ wire'[a] = Join(Join(Join(wire[a], p), q), r)
      BY <3>3
    <3>5. p \in Seq(Half) /\ q \in Seq(Half) /\ r \in Seq(Half)
      BY <3>1
    <3>6. \A x, y, z, w \in Seq(Half) :
            Join(Join(Join(x, y), z), w) = Join(x, Join(Join(y, z), w))
      BY ThreeAtOnce
    <3> HIDE DEF p, q, r, t, Join
    <3>7. wire'[a] = Join(wire[a], t)
      BY <3>2, <3>4, <3>5, <3>6
    <3> QED
      BY <3>7, Zenon DEF Join
  <2> HIDE DEF t
  <2>5. \A i \in 1 .. Len(t) : HalfNumbers(t)[i] = 0
    BY <2>3
  <2>6. WrittenTo(a, t)
    BY <2>1, <2>3, <2>4, <2>5 DEF WrittenTo
  <2>7. \A b \in Attach : b # a => wire'[b] = wire[b]
    BY <1>t, <2>2
  <2>8. \A b \in Attach : \/ wire'[b] = wire[b] /\ (attached'[b] => produced' = produced)
                          \/ attached[b] /\ \E s : WrittenTo(b, s)
    BY <2>1, <2>6, <2>7
  <2>9. produced <= produced' /\ \A b \in Attach : attached'[b] => attached[b]
    BY <1>t, <2>1
  <2> QED
    BY <2>1, <2>8, <2>9, WritingKeepsOrder
<1>4. ASSUME NEW a \in Attach, ChannelEnds(a) PROVE IInv'
  <2>1. /\ attached[a] /\ produced' = produced /\ attached' = [attached EXCEPT ![a] = FALSE]
        /\ UNCHANGED <<from, link, task, aborted, reader>>
        /\ \/ UNCHANGED wire
           \/ wire' = [wire EXCEPT ![a] = @ \o Halves(Other("exit"))]
    BY <1>4 DEF ChannelEnds
  <2>2. CASE UNCHANGED wire
    <3>1. \A b \in Attach : \/ wire'[b] = wire[b] /\ (attached'[b] => produced' = produced)
                            \/ attached[b] /\ \E s : WrittenTo(b, s)
      BY <2>1, <2>2
    <3>2. produced <= produced' /\ \A b \in Attach : attached'[b] => attached[b]
      BY <1>t, <2>1
    <3> QED
      BY <2>1, <3>1, <3>2, WritingKeepsOrder
  <2>3. CASE wire' = [wire EXCEPT ![a] = @ \o Halves(Other("exit"))]
    <3>1. wire'[a] = wire[a] \o Halves(Other("exit")) /\ \A b \in Attach : b # a => wire'[b] = wire[b]
      BY <1>t, <2>3
    <3>2. \E s : WrittenTo(a, s)
      BY <1>l, <1>k, <2>1, <3>1, LineWritten
    <3>3. \A b \in Attach : \/ wire'[b] = wire[b] /\ (attached'[b] => produced' = produced)
                            \/ attached[b] /\ \E s : WrittenTo(b, s)
      BY <2>1, <3>1, <3>2
    <3>4. produced <= produced' /\ \A b \in Attach : attached'[b] => attached[b]
      BY <1>t, <2>1
    <3> QED
      BY <2>1, <3>3, <3>4, WritingKeepsOrder
  <2> QED
    BY <2>1, <2>2, <2>3
<1> QED
  BY <1>1, <1>2, <1>3, <1>4

(* Where there is nothing, nothing is skipped.                             *)
EmptyInOrder(n) == Gapless(EventNumbers(<<>>), n, n) /\ Gapless(HalfNumbers(<<>>), n, n)

LEMMA EmptyQueues ==
  ASSUME NEW n \in Nat
  PROVE  EmptyInOrder(n)
<1>1. DOMAIN EventNumbers(<<>>) = {} /\ DOMAIN HalfNumbers(<<>>) = {}
  BY DEF EventNumbers, HalfNumbers
<1>2. n + 1 .. n = {} /\ n <= n
  OBVIOUS
<1> QED
  BY <1>1, <1>2 DEF EmptyInOrder, Gapless

LEMMA InitOrder == Init => IInv
<1> SUFFICES ASSUME Init PROVE IInv
  OBVIOUS
<1>1. TInv
  BY InitTypes
<1>2. ASSUME NEW a \in Attach
      PROVE  /\ Unfed(a) = <<>> /\ events[a] = <<>> /\ outputs[a] = <<>> /\ from[a] = 0
             /\ wire[a] = <<>> /\ line_buf[a] = <<>>
             /\ task[a] = "none" /\ ~in_block[a] /\ ~attached[a]
  BY DEF Init, Unfed
<1>3. EmptyInOrder(0)
  BY EmptyQueues
<1>4. NothingSkipped
  <2>1. ASSUME NEW a \in Attach PROVE InOrder(a)
    <3>1. produced = 0 /\ 0 \in 0 .. 0 /\ from[a] + Len(outputs[a]) = 0
      BY <1>2 DEF Init
    <3> QED
      BY <1>2, <1>3, <3>1 DEF InOrder, EmptyInOrder
  <2> QED
    BY <2>1 DEF NothingSkipped
<1>5. WholeBlocks
  BY <1>2 DEF WholeBlocks, FedWhole, Whole
<1>6. YetToCome
  BY <1>2 DEF YetToCome, Untouched
<1>7. SpawnedLast
  BY DEF Init, SpawnedLast
<1> QED
  BY <1>1, <1>4, <1>5, <1>6, <1>7 DEF IInv

LEMMA ReaderKeepsOrder ==
  ASSUME IInv, TInv', NEW a \in Attach, Reader(a)
  PROVE  IInv'
<1>t. /\ wire \in [Attach -> Seq(Half)] /\ line_buf \in [Attach -> Seq(Half)]
      /\ events \in [Attach -> Seq(Line)] /\ outputs \in [Attach -> Seq(1 .. MaxOutputs)]
      /\ task \in [Attach -> {"none", "select", "lines", "send", "ended"}]
      /\ in_block \in [Attach -> BOOLEAN]
  BY DEF IInv, TInv, TypeOK, Half
<1>p. produced \in Nat
  BY Bounds DEF IInv, TInv, TypeOK
<1>1. UNCHANGED <<produced, from, attached, conn, current>>
  BY DEF Reader, ReadChunk, FeedLine, HandleEvent, ReadClose, Cancelled, tmux, link
<1>2. task[a] # "none"
  BY DEF Reader, ReadChunk, FeedLine, HandleEvent, ReadClose, Cancelled
<1>3. ASSUME NEW b \in Attach, b # a
      PROVE  /\ wire'[b] = wire[b] /\ line_buf'[b] = line_buf[b] /\ in_block'[b] = in_block[b]
             /\ events'[b] = events[b] /\ outputs'[b] = outputs[b] /\ task'[b] = task[b]
  <2>1. CASE ReadChunk(a)
    BY <1>t, <1>3, <2>1 DEF ReadChunk
  <2>2. CASE FeedLine(a)
    BY <1>t, <1>3, <2>2 DEF FeedLine, Emit, tmux
  <2>3. CASE HandleEvent(a)
    BY <1>t, <1>3, <2>3 DEF HandleEvent, tmux
  <2>4. CASE ReadClose(a) \/ Cancelled(a)
    BY <1>t, <1>3, <2>4 DEF ReadClose, Cancelled, tmux, reader
  <2> QED
    BY <2>1, <2>2, <2>3, <2>4 DEF Reader
<1>4. /\ task'[a] \notin {"send", "ended"} => InOrder(a)'
      /\ FedWhole(a)'
  <2>1. CASE ReadChunk(a)
    <3>1. Unfed(a)' = Unfed(a) /\ UNCHANGED <<in_block, events, outputs>> /\ task[a] = "select"
      BY <2>1, ChunkKeepsUnfed DEF IInv, ReadChunk
    <3>2. InOrder(a)
      BY <3>1 DEF IInv, NothingSkipped
    <3>3. InOrder(a)'
      BY <1>1, <1>p, <3>1, <3>2, LeftAlone DEF IInv
    <3> QED
      BY <3>1, <3>3 DEF IInv, WholeBlocks, FedWhole
  <2>2. CASE FeedLine(a)
    BY <2>2, FeedKeepsOrder
  <2>3. CASE HandleEvent(a)
    <3>1. UNCHANGED <<wire, line_buf, in_block>>
      BY <2>3 DEF HandleEvent, tmux
    <3> QED
      BY <2>3, <3>1, HandleKeepsOrder DEF IInv, WholeBlocks, FedWhole, Unfed
  <2>4. CASE ReadClose(a) \/ Cancelled(a)
    <3>1. UNCHANGED <<wire, line_buf, in_block>> /\ task'[a] = "ended"
      BY <1>t, <2>4 DEF ReadClose, Cancelled, tmux, reader
    <3> QED
      BY <3>1 DEF IInv, WholeBlocks, FedWhole, Unfed
  <2> QED
    BY <2>1, <2>2, <2>3, <2>4 DEF Reader
<1>5. ASSUME NEW b \in Attach, b # a PROVE (InOrder(b) => InOrder(b)') /\ FedWhole(b)'
  <2>1. Unfed(b)' = Unfed(b)
    BY <1>3, <1>5 DEF Unfed
  <2>2. InOrder(b) => InOrder(b)'
    BY <1>1, <1>3, <1>5, <1>p, <2>1, LeftAlone DEF IInv
  <2> QED
    BY <1>3, <1>5, <2>1, <2>2 DEF IInv, WholeBlocks, FedWhole
<1>6. NothingSkipped'
  BY <1>3, <1>4, <1>5 DEF IInv, NothingSkipped
<1>7. WholeBlocks'
  BY <1>4, <1>5 DEF WholeBlocks
<1>8. YetToCome'
  <2>1. ASSUME NEW b \in Attach, b > current PROVE Untouched(b)'
    <3>1. Untouched(b)
      BY <2>1 DEF IInv, YetToCome
    <3>2. b # a
      BY <1>2, <3>1 DEF Untouched
    <3> QED
      BY <1>1, <1>3, <3>1, <3>2 DEF Untouched
  <2> QED
    BY <1>1, <2>1 DEF YetToCome
<1>9. SpawnedLast'
  BY <1>1, <1>2, <1>3 DEF IInv, SpawnedLast
<1> QED
  BY <1>6, <1>7, <1>8, <1>9 DEF IInv

LEMMA ConnectorKeepsOrder ==
  ASSUME IInv, TInv', Connector
  PROVE  IInv'
<1>t. /\ attached \in [Attach -> BOOLEAN] /\ current \in 0 .. MaxAttach /\ MaxAttach \in Nat
      /\ task \in [Attach -> {"none", "select", "lines", "send", "ended"}]
      /\ from \in [Attach -> 0 .. MaxOutputs]
  BY Bounds DEF IInv, TInv, TypeOK
<1>p. produced \in Nat /\ produced' \in Nat
  BY Bounds DEF IInv, TInv, TypeOK
<1>0. UNCHANGED <<produced, wire, line_buf, in_block, events, outputs>>
  BY DEF Connector, ConnectAttach, ConnectAbort, ConnectClose, ConnectSpawn, Disconnect, tmux,
         link, reader
<1>1. \A a \in Attach : Unfed(a)' = Unfed(a)
  BY <1>0 DEF Unfed
<1>2. WholeBlocks'
  BY <1>0, <1>1 DEF IInv, WholeBlocks, FedWhole
<1>3. CASE ConnectAttach
  <2>1. PICK a \in Attach :
          /\ a = current + 1 /\ current' = a /\ conn' = "attached"
          /\ attached' = [attached EXCEPT ![a] = TRUE]
          /\ from' = [from EXCEPT ![a] = produced] /\ task' = task
    <3>1. /\ current' = current + 1 /\ conn' = "attached" /\ current < MaxAttach
          /\ attached' = [attached EXCEPT ![current'] = TRUE]
          /\ from' = [from EXCEPT ![current'] = produced] /\ task' = task
      BY <1>3 DEF ConnectAttach
    <3>2. current' \in Attach
      BY <1>t, <3>1 DEF Attach
    <3> QED
      BY <3>1, <3>2
  <2>2. a > current /\ \A b \in Attach : b > current' => b > current /\ b # a
    BY <1>t, <2>1 DEF Attach
  <2>3. Untouched(a)
    BY <2>1, <2>2 DEF IInv, YetToCome
  <2>4. InOrder(a)'
    <3>1. /\ events'[a] = <<>> /\ Unfed(a) = <<>> /\ outputs'[a] = <<>> /\ from'[a] = produced
          /\ Len(<<>>) = 0 /\ produced + 0 = produced
      BY <1>t, <1>p, <1>0, <2>1, <2>3 DEF Untouched, Unfed
    <3>2. Unfed(a)' = <<>>
      BY <1>1, <3>1
    <3>3. EmptyInOrder(produced)
      BY <1>p, EmptyQueues
    <3>4. produced \in 0 .. produced' /\ produced' = produced
      BY <1>p, <1>0
    <3>5. /\ Gapless(EventNumbers(events'[a]), from'[a] + Len(outputs'[a]), produced)
          /\ Gapless(HalfNumbers(Unfed(a)'), produced, produced)
      BY <3>1, <3>2, <3>3 DEF EmptyInOrder
    <3> QED
      BY <3>4, <3>5 DEF InOrder
  <2>5. NothingSkipped'
    <3>1. ASSUME NEW b \in Attach, b # a PROVE InOrder(b) => InOrder(b)'
      <4>1. attached'[b] = attached[b] /\ from'[b] = from[b]
        BY <1>t, <2>1, <3>1
      <4> QED
        BY <1>0, <1>1, <1>p, <4>1, LeftAlone DEF IInv
    <3> QED
      BY <2>1, <2>4, <3>1 DEF IInv, NothingSkipped
  <2>6. YetToCome'
    <3>1. ASSUME NEW b \in Attach, b > current' PROVE Untouched(b)'
      <4>1. b # a /\ Untouched(b)
        BY <2>2, <3>1 DEF IInv, YetToCome
      <4>2. attached'[b] = attached[b]
        BY <1>t, <2>1, <4>1
      <4> QED
        BY <1>0, <2>1, <4>1, <4>2 DEF Untouched
    <3> QED
      BY <3>1 DEF YetToCome
  <2>7. SpawnedLast'
    BY <2>1, <2>3 DEF SpawnedLast, Untouched
  <2> QED
    BY <1>2, <2>5, <2>6, <2>7 DEF IInv
<1>4. CASE ConnectAbort \/ ConnectClose \/ Disconnect
  <2>1. /\ UNCHANGED <<from, current, task>>
        /\ \A a \in Attach : attached'[a] => attached[a]
        /\ conn' \in {"aborted", "closed"} => conn \in {"attached", "aborted"}
        /\ conn' \in {"aborted", "closed", "down"}
    BY <1>t, <1>4 DEF ConnectAbort, ConnectClose, Disconnect, tmux
  <2>2. NothingSkipped'
    <3>1. ASSUME NEW a \in Attach PROVE InOrder(a) => InOrder(a)'
      BY <1>0, <1>1, <1>p, <2>1, LeftAlone DEF IInv
    <3> QED
      BY <2>1, <3>1 DEF IInv, NothingSkipped
  <2>3. YetToCome'
    <3>1. ASSUME NEW a \in Attach, a > current PROVE Untouched(a)'
      BY <1>0, <2>1, <3>1 DEF IInv, YetToCome, Untouched
    <3> QED
      BY <2>1, <3>1 DEF YetToCome
  <2>4. SpawnedLast'
    BY <2>1 DEF IInv, SpawnedLast
  <2> QED
    BY <1>2, <2>2, <2>3, <2>4 DEF IInv
<1>5. CASE ConnectSpawn
  <2>1. /\ task' = [task EXCEPT ![current] = "select"] /\ conn' = "up" /\ conn = "closed"
        /\ UNCHANGED <<from, attached, current>>
    BY <1>5 DEF ConnectSpawn, tmux
  <2>2. current \in Attach /\ task[current] = "none"
    BY <2>1 DEF IInv, SpawnedLast
  <2>3. NothingSkipped'
    <3>1. ASSUME NEW a \in Attach PROVE InOrder(a) => InOrder(a)'
      BY <1>0, <1>1, <1>p, <2>1, LeftAlone DEF IInv
    <3>2. ASSUME NEW a \in Attach, task'[a] \notin {"send", "ended"} PROVE InOrder(a)
      <4>1. task[a] \notin {"send", "ended"}
        BY <1>t, <2>1, <2>2, <3>2
      <4> QED
        BY <4>1 DEF IInv, NothingSkipped
    <3> QED
      BY <3>1, <3>2 DEF NothingSkipped
  <2>4. YetToCome'
    <3>1. ASSUME NEW a \in Attach, a > current PROVE Untouched(a)'
      <4>1. a # current
        BY <1>t, <3>1 DEF Attach
      <4>2. task'[a] = task[a]
        BY <1>t, <2>1, <4>1
      <4> QED
        BY <1>0, <2>1, <3>1, <4>2 DEF IInv, YetToCome, Untouched
    <3> QED
      BY <2>1, <3>1 DEF YetToCome
  <2>5. SpawnedLast'
    BY <2>1 DEF SpawnedLast
  <2> QED
    BY <1>2, <2>3, <2>4, <2>5 DEF IInv
<1> QED
  BY <1>3, <1>4, <1>5 DEF Connector

LEMMA NextOrder == IInv /\ [Next]_vars => IInv'
<1> SUFFICES ASSUME IInv, [Next]_vars PROVE IInv'
  OBVIOUS
<1>1. TInv'
  BY NextTypes DEF IInv
<1>2. CASE TmuxOutput \/ TmuxNotify \/ \E a \in Attach : TmuxReply(a) \/ ChannelEnds(a)
  BY <1>1, <1>2, TmuxKeepsOrder
<1>3. CASE \E a \in Attach : Reader(a)
  BY <1>1, <1>3, ReaderKeepsOrder
<1>4. CASE Connector
  BY <1>1, <1>4, ConnectorKeepsOrder
<1>5. CASE UNCHANGED vars
  BY <1>1, <1>5 DEF vars, IInv, NothingSkipped, InOrder, WholeBlocks, FedWhole, YetToCome,
                    Untouched, SpawnedLast, Unfed
<1> QED
  BY <1>2, <1>3, <1>4, <1>5 DEF Next

(* What a step of the connection is for the stream of one reader.          *)
LEMMA StepsStream ==
  ASSUME IInv, [Next]_vars, NEW a \in Attach
  PROVE  [Stream(a)!Next]_<<produced, from[a], outputs[a]>>
<1> DEFINE Same == UNCHANGED <<produced, from[a], outputs[a]>>
<1> USE DEF Stream!Next, Stream!Produce, Stream!Start, Stream!PassOn
<1>1. CASE TmuxOutput
  BY <1>1 DEF TmuxOutput, reader
<1>2. CASE TmuxNotify \/ \E b \in Attach : TmuxReply(b) \/ ChannelEnds(b)
  <2>1. Same
    BY <1>2 DEF TmuxNotify, TmuxReply, ChannelEnds, reader
  <2> QED
    BY <2>1
<1>3. ASSUME NEW b \in Attach, Reader(b) PROVE [Stream(a)!Next]_<<produced, from[a], outputs[a]>>
  <2>1. CASE HandleEvent(b)
    <3>1. UNCHANGED <<produced, from>>
      BY <2>1 DEF HandleEvent, tmux
    <3>2. CASE b = a
      BY <2>1, <3>1, <3>2, HandleKeepsOrder
    <3>3. CASE b # a
      <4>1. outputs'[a] = outputs[a]
        BY <2>1, <3>3 DEF HandleEvent, IInv, TInv, TypeOK
      <4> QED
        BY <3>1, <4>1
    <3> QED
      BY <3>2, <3>3
  <2>2. CASE ReadChunk(b) \/ FeedLine(b) \/ ReadClose(b) \/ Cancelled(b)
    <3>1. Same
      BY <2>2 DEF ReadChunk, FeedLine, ReadClose, Cancelled, tmux, reader
    <3> QED
      BY <3>1
  <2> QED
    BY <1>3, <2>1, <2>2 DEF Reader
<1>4. CASE ConnectAttach
  <2>1. /\ current' = current + 1 /\ current \in 0 .. MaxAttach
        /\ from' = [from EXCEPT ![current'] = produced] /\ UNCHANGED <<produced, outputs>>
    BY <1>4 DEF ConnectAttach, IInv, TInv, TypeOK, reader
  <2>2. CASE a = current'
    <3>1. a > current
      BY <2>1, <2>2, Bounds
    <3>2. outputs[a] = <<>>
      BY <3>1 DEF IInv, YetToCome, Untouched
    <3>3. from'[a] = produced
      BY <2>1, <2>2 DEF IInv, TInv, TypeOK
    <3> QED
      BY <2>1, <3>2, <3>3
  <2>3. CASE a # current'
    <3>1. from'[a] = from[a]
      BY <2>1, <2>3 DEF IInv, TInv, TypeOK
    <3> QED
      BY <2>1, <3>1
  <2> QED
    BY <2>2, <2>3
<1>5. CASE ConnectAbort \/ ConnectClose \/ ConnectSpawn \/ Disconnect
  <2>1. Same
    BY <1>5 DEF ConnectAbort, ConnectClose, ConnectSpawn, Disconnect, tmux, reader
  <2> QED
    BY <2>1
<1>6. CASE UNCHANGED vars
  BY <1>6 DEF vars
<1> QED
  BY <1>1, <1>2, <1>3, <1>4, <1>5, <1>6 DEF Next, Connector

(* Every reader implements the stream of OutputStream: it broadcasts every *)
(* output that tmux produces after its attachment, once, in order and      *)
(* without a gap until it ends or blocks, however the channel is cut into  *)
(* chunks, whatever notifications and replies come in between and whatever *)
(* the reader of another attachment does (ssh_transport.rs:375-453).       *)
THEOREM EveryReaderStreams == Spec => ReadersStream
<1>1. Init => \A a \in Attach : Stream(a)!Init
  BY DEF Init, Stream!Init
<1>2. IInv /\ [Next]_vars =>
        [\A a \in Attach : [Stream(a)!Next]_<<produced, from[a], outputs[a]>>]_<<produced, from, outputs>>
  BY StepsStream
<1> QED
  BY <1>1, <1>2, InitOrder, NextOrder, PTL DEF Spec, ReadersStream

-----------------------------------------------------------------------------
(* Nothing is lost.                                                        *)

(* What a reader has broadcast are the outputs that follow its attachment. *)
Exact(a) == \A i \in 1 .. Len(outputs[a]) : outputs[a][i] = from[a] + i
AllExact == \A a \in Attach : Exact(a)

(* An attached reader that waits, with no more to read or to take out.     *)
Idle(a) ==
  /\ attached[a] /\ task[a] = "select"
  /\ wire[a] = <<>> /\ line_buf[a] = <<>> /\ events[a] = <<>>

(* It has broadcast the outputs from its attachment to the last one, each  *)
(* once and in order.                                                      *)
IdleReadersHaveAll ==
  \A a \in Attach : Idle(a) => outputs[a] = [i \in 1 .. produced - from[a] |-> from[a] + i]

(* A step of the abstract stream keeps the numbers exact.                  *)
LEMMA StreamKeepsExact ==
  ASSUME TInv, TInv', NEW a \in Attach, Exact(a),
         [Stream(a)!Next]_<<produced, from[a], outputs[a]>>
  PROVE  Exact(a)'
<1> DEFINE t == outputs[a]
           n == from[a] + Len(t) + 1
<1>1. t \in Seq(1 .. MaxOutputs) /\ Len(t) \in Nat /\ n \in Nat /\ from[a] \in Nat
  BY UnfedType
<1>2. CASE from'[a] = from[a] /\ outputs'[a] = t
  BY <1>2 DEF Exact
<1>3. CASE t = <<>> /\ outputs'[a] = t
  BY <1>3 DEF Exact
<1>4. CASE from'[a] = from[a] /\ outputs'[a] = Append(t, n)
  <2>1. /\ Len(Append(t, n)) = Len(t) + 1
        /\ \A i \in 1 .. Len(t) : Append(t, n)[i] = t[i]
        /\ Append(t, n)[Len(t) + 1] = n
    <3> HIDE DEF n
    <3> QED
      BY <1>1
  <2>2. \A i \in 1 .. Len(t) + 1 : i \in 1 .. Len(t) \/ i = Len(t) + 1
    BY <1>1
  <2>3. Len(outputs'[a]) = Len(t) + 1 /\ from'[a] = from[a]
    BY <1>4, <2>1
  <2>4. ASSUME NEW i \in 1 .. Len(t) PROVE outputs'[a][i] = from'[a] + i
    BY <1>4, <2>1, <2>4 DEF Exact
  <2>5. outputs'[a][Len(t) + 1] = from'[a] + (Len(t) + 1)
    BY <1>1, <1>4, <2>1
  <2>6. \A i \in 1 .. Len(t) + 1 : outputs'[a][i] = from'[a] + i
    <3> HIDE DEF t, n
    <3> QED
      BY <2>2, <2>4, <2>5
  <2> QED
    BY <2>3, <2>6 DEF Exact
<1> QED
  BY <1>2, <1>3, <1>4 DEF Stream!Next, Stream!Produce, Stream!Start, Stream!PassOn

(* Queues that are empty and follow one another leave no output out.       *)
LEMMA EmptyIsAll ==
  ASSUME IInv, AllExact, NEW a \in Attach, Idle(a)
  PROVE  outputs[a] = [i \in 1 .. produced - from[a] |-> from[a] + i]
<1> DEFINE t == outputs[a]
<1>1. t \in Seq(1 .. MaxOutputs) /\ Len(t) \in Nat /\ from[a] \in Nat /\ produced \in Nat
  BY UnfedType DEF IInv
<1>2. PICK queued \in 0 .. produced, written \in 0 .. produced :
        /\ Gapless(EventNumbers(<<>>), from[a] + Len(t), queued)
        /\ Gapless(HalfNumbers(<<>>), queued, written)
        /\ written = produced
  <2>1. attached[a] /\ events[a] = <<>> /\ InOrder(a)
    BY DEF IInv, NothingSkipped, Idle
  <2>2. Unfed(a) = <<>>
    BY DEF Idle, Unfed
  <2> QED
    BY <2>1, <2>2 DEF InOrder
<1>3. DOMAIN EventNumbers(<<>>) = {} /\ DOMAIN HalfNumbers(<<>>) = {}
  BY DEF EventNumbers, HalfNumbers
<1>4. /\ from[a] + Len(t) <= queued /\ queued <= written
      /\ from[a] + Len(t) + 1 .. queued = {} /\ queued + 1 .. written = {}
  BY <1>2, <1>3 DEF Gapless
<1>5. Len(t) = produced - from[a]
  BY <1>1, <1>2, <1>4
<1>6. t = [i \in 1 .. Len(t) |-> t[i]]
  BY <1>1
<1>7. \A i \in 1 .. Len(t) : t[i] = from[a] + i
  BY DEF AllExact, Exact
<1> HIDE DEF t
<1>8. t = [i \in 1 .. Len(t) |-> from[a] + i]
  BY <1>6, <1>7, Zenon
<1> QED
  BY <1>5, <1>8 DEF t

(* The safety half of OutputsArrive, for any number of outputs, chunks and *)
(* attachments: the reader loop never comes to rest with an output left    *)
(* out.  When the select! of an attached reader finds nothing ready, every *)
(* %output that tmux wrote since the attachment has been broadcast         *)
(* (ssh_transport.rs:403-453).                                             *)
THEOREM NothingIsLost == Spec => []IdleReadersHaveAll
<1>1. Init => IInv /\ AllExact
  BY InitOrder DEF Init, AllExact, Exact
<1>2. IInv /\ AllExact /\ [Next]_vars => IInv' /\ AllExact'
  <2> SUFFICES ASSUME IInv, AllExact, [Next]_vars PROVE IInv' /\ AllExact'
    OBVIOUS
  <2>1. IInv'
    BY NextOrder
  <2>2. ASSUME NEW a \in Attach PROVE Exact(a)'
    BY <2>1, StepsStream, StreamKeepsExact DEF IInv, AllExact
  <2> QED
    BY <2>1, <2>2 DEF AllExact
<1>3. IInv /\ AllExact => IdleReadersHaveAll
  BY EmptyIsAll DEF IdleReadersHaveAll
<1> QED
  BY <1>1, <1>2, <1>3, PTL DEF Spec

=============================================================================
