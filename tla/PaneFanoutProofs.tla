-------------------------- MODULE PaneFanoutProofs --------------------------
(***************************************************************************)
(* What PaneFanout promises, for any number of clients and panes, any      *)
(* capacity and any number of outputs.                                     *)
(***************************************************************************)
EXTENDS PaneFanout, FiniteSetTheorems, SequenceTheorems, TLAPS

-----------------------------------------------------------------------------
(* Orders of a set of panes are sequences of its elements.                 *)
LEMMA OrderType ==
  ASSUME NEW S \in SUBSET Pane, NEW order \in SetToSeqs(S)
  PROVE  /\ order \in Seq(Pane)
         /\ \A i \in DOMAIN order : order[i] \in S
<1>1. IsFiniteSet(S)
  BY PaneAssumption, FS_Subset
<1>2. Cardinality(S) \in Nat
  BY <1>1, FS_CardinalityType
<1>3. order \in [1 .. Cardinality(S) -> S]
  BY DEF SetToSeqs
<1> QED
  BY <1>2, <1>3

-----------------------------------------------------------------------------
(* Type correctness.                                                       *)

LEMMA InitTypes == Init => TypeOK
BY PublishedAssumption DEF Init, TypeOK, Number

(* The top of the loop leaves the task with an order of the receivers.     *)
LEMMA LoopTypes ==
  ASSUME TypeOK, NEW c \in Client, NEW subs \in SUBSET Pane, Loop(c, subs)
  PROVE  /\ at' \in [Client -> {"drain", "send", "select", "request", "closed"}]
         /\ todo' \in [Client -> Seq(Pane)]
         /\ due' \in [Client -> [Pane -> Number]]
         /\ at' = [at EXCEPT ![c] = "drain"]
         /\ \A d \in Client : d # c => todo'[d] = todo[d]
         /\ \A i \in DOMAIN todo'[c] : todo'[c][i] \in subs
<1>1. PICK order \in SetToSeqs(subs) : todo' = [todo EXCEPT ![c] = order]
  BY DEF Loop
<1>2. /\ order \in Seq(Pane)
      /\ \A i \in DOMAIN order : order[i] \in subs
  BY OrderType
<1> QED
  BY <1>1, <1>2 DEF Loop, TypeOK

LEMMA NextTypes == TypeOK /\ [Next]_vars => TypeOK'
<1> SUFFICES ASSUME TypeOK, [Next]_vars PROVE TypeOK'
  OBVIOUS
<1> USE PublishedAssumption, CapacityAssumption
<1>1. ASSUME NEW p \in Pane, Publish(p) PROVE TypeOK'
  BY <1>1 DEF Publish, TypeOK, Number
<1>2. ASSUME NEW c \in Client, Open(c) PROVE TypeOK'
  <2>1. Loop(c, {})
    BY <1>2 DEF Open
  <2> QED
    BY <1>2, <2>1, LoopTypes DEF Open, TypeOK
<1>3. ASSUME NEW c \in Client, DrainLagged(c) PROVE TypeOK'
  <2> DEFINE p == Head(todo[c])
  <2>1. p \in Pane
    BY <1>3 DEF DrainLagged, TypeOK
  <2>2. Oldest(p) \in 1 .. MaxPublished + 1
    <3>1. published[p] \in 0 .. MaxPublished
      BY <2>1 DEF TypeOK, Number
    <3> QED
      BY <3>1, CapacityAssumption, PublishedAssumption DEF Oldest
  <2> QED
    BY <1>3, <2>1, <2>2 DEF DrainLagged, TypeOK
<1>4. ASSUME NEW c \in Client, DrainOutput(c) PROVE TypeOK'
  <2> DEFINE p == Head(todo[c])
  <2>1. p \in Pane
    BY <1>4 DEF DrainOutput, TypeOK
  <2>2. next[c][p] \in 1 .. MaxPublished
    BY <1>4, <2>1 DEF DrainOutput, IsEmpty, TypeOK, Number
  <2>3. [pane |-> p, n |-> next[c][p]] \in Frame
    BY <2>1, <2>2 DEF Frame, Number
  <2>4. frames' \in [Client -> Seq(Frame)]
    BY <1>4, <2>3 DEF DrainOutput, TypeOK
  <2>5. next' \in [Client -> [Pane -> 1 .. MaxPublished + 1]]
    BY <1>4, <2>1, <2>2 DEF DrainOutput, TypeOK
  <2> QED
    BY <1>4, <2>4, <2>5 DEF DrainOutput, TypeOK
<1>5. ASSUME NEW c \in Client, DrainEmpty(c) PROVE TypeOK'
  BY <1>5 DEF DrainEmpty, TypeOK
<1>6. ASSUME NEW c \in Client, DrainDone(c) PROVE TypeOK'
  BY <1>6 DEF DrainDone, TypeOK
<1>7. ASSUME NEW c \in Client, SendFrame(c) PROVE TypeOK'
  <2> DEFINE f == Head(frames[c])
  <2>1. f \in Frame
    BY <1>7 DEF SendFrame, TypeOK
  <2>2. last' \in [Client -> [Pane -> Number]]
    BY <1>7, <2>1 DEF SendFrame, TypeOK, Frame
  <2>3. frames' \in [Client -> Seq(Frame)]
    BY <1>7 DEF SendFrame, TypeOK
  <2> QED
    BY <1>7, <2>2, <2>3 DEF SendFrame, TypeOK
<1>8. ASSUME NEW c \in Client, SendDone(c) PROVE TypeOK'
  BY <1>8 DEF SendDone, TypeOK
<1>9. ASSUME NEW c \in Client, Tick(c) \/ RequestDone(c) PROVE TypeOK'
  <2>1. Loop(c, pane_subs[c])
    BY <1>9 DEF Tick, RequestDone
  <2>2. pane_subs[c] \in SUBSET Pane
    BY DEF TypeOK
  <2> QED
    BY <1>9, <2>1, <2>2, LoopTypes DEF Tick, RequestDone, TypeOK
<1>10. ASSUME NEW c \in Client, NEW p \in Pane, Subscribe(c, p) PROVE TypeOK'
  <2>1. Loop(c, pane_subs[c] \cup {p}) /\ pane_subs[c] \cup {p} \in SUBSET Pane
    BY <1>10 DEF Subscribe, TypeOK
  <2>2. next' \in [Client -> [Pane -> 1 .. MaxPublished + 1]]
    BY <1>10 DEF Subscribe, TypeOK, Number
  <2>3. last' \in [Client -> [Pane -> Number]]
    BY <1>10 DEF Subscribe, TypeOK
  <2> QED
    BY <1>10, <2>1, <2>2, <2>3, LoopTypes DEF Subscribe, TypeOK
<1>11. ASSUME NEW c \in Client, NEW p \in Pane, Unsubscribe(c, p) PROVE TypeOK'
  <2>1. Loop(c, pane_subs[c] \ {p}) /\ pane_subs[c] \ {p} \in SUBSET Pane
    BY <1>11 DEF Unsubscribe, TypeOK
  <2> QED
    BY <1>11, <2>1, LoopTypes DEF Unsubscribe, TypeOK
<1>12. ASSUME NEW c \in Client, Request(c) \/ Break(c) \/ Close(c) PROVE TypeOK'
  BY <1>12 DEF Request, Break, Close, TypeOK
<1>13. CASE UNCHANGED vars
  BY <1>13 DEF vars, TypeOK
<1> QED
  BY <1>1, <1>2, <1>3, <1>4, <1>5, <1>6, <1>7, <1>8, <1>9, <1>10, <1>11, <1>12, <1>13
     DEF Next, Task, Drain

(* The model keeps its types, whatever the constants.                      *)
THEOREM TypeCorrect == Spec => []TypeOK
BY InitTypes, NextTypes, PTL DEF Spec

-----------------------------------------------------------------------------
(* A client is only sent what it is subscribed to: the invariant.          *)

(* Frames exist only between a drain and the end of the sends, and the     *)
(* panes still to be drained are subscribed to.                            *)
SubscribedInv ==
  \A c \in Client :
    /\ at[c] \notin {"drain", "send"} => frames[c] = <<>>
    /\ at[c] = "drain" => \A i \in DOMAIN todo[c] : todo[c][i] \in pane_subs[c]
    /\ \A i \in DOMAIN frames[c] : frames[c][i].pane \in pane_subs[c]

LEMMA InitSubscribed == Init => SubscribedInv
BY DEF Init, SubscribedInv

LEMMA NextSubscribed == TypeOK /\ SubscribedInv /\ [Next]_vars => SubscribedInv'
<1> SUFFICES ASSUME TypeOK, SubscribedInv, [Next]_vars PROVE SubscribedInv'
  OBVIOUS
(* At the top of the loop there are no frames.                             *)
<1>0. ASSUME NEW c \in Client, NEW subs \in SUBSET Pane, Loop(c, subs),
             pane_subs' = [pane_subs EXCEPT ![c] = subs], frames' = frames,
             frames[c] = <<>>
      PROVE  SubscribedInv'
  <2> SUFFICES ASSUME NEW d \in Client
               PROVE  /\ at'[d] \notin {"drain", "send"} => frames'[d] = <<>>
                      /\ at'[d] = "drain" => \A i \in DOMAIN todo'[d] : todo'[d][i] \in pane_subs'[d]
                      /\ \A i \in DOMAIN frames'[d] : frames'[d][i].pane \in pane_subs'[d]
    BY DEF SubscribedInv
  <2>1. CASE d = c
    <3>1. /\ at' = [at EXCEPT ![c] = "drain"]
          /\ \A i \in DOMAIN todo'[c] : todo'[c][i] \in subs
      BY <1>0, LoopTypes
    <3>2. pane_subs'[c] = subs /\ frames'[c] = <<>>
      BY <1>0 DEF TypeOK
    <3>3. at'[c] = "drain"
      BY <3>1 DEF TypeOK
    <3> QED
      BY <2>1, <3>1, <3>2, <3>3
  <2>2. CASE d # c
    <3>0. at' = [at EXCEPT ![c] = "drain"] /\ todo'[d] = todo[d]
      BY <1>0, <2>2, LoopTypes
    <3>1. at'[d] = at[d] /\ todo'[d] = todo[d]
      BY <2>2, <3>0 DEF TypeOK
    <3>2. pane_subs'[d] = pane_subs[d] /\ frames'[d] = frames[d]
      BY <1>0, <2>2 DEF TypeOK
    <3> QED
      BY <3>1, <3>2 DEF SubscribedInv
  <2> QED
    BY <2>1, <2>2
<1>1. ASSUME NEW p \in Pane, Publish(p) PROVE SubscribedInv'
  BY <1>1 DEF Publish, SubscribedInv
<1>2. ASSUME NEW c \in Client, Open(c) PROVE SubscribedInv'
  <2>1. Loop(c, {}) /\ frames[c] = <<>>
    BY <1>2 DEF Open, SubscribedInv
  <2> QED
    BY <1>2, <2>1, <1>0 DEF Open
<1>3. ASSUME NEW c \in Client, DrainLagged(c) PROVE SubscribedInv'
  BY <1>3 DEF DrainLagged, SubscribedInv
<1>4. ASSUME NEW c \in Client, DrainOutput(c) PROVE SubscribedInv'
  <2> DEFINE p == Head(todo[c])
             f == [pane |-> p, n |-> next[c][p]]
  <2>1. p \in pane_subs[c] /\ p \in Pane
    BY <1>4 DEF DrainOutput, SubscribedInv, TypeOK
  <2>2. frames'[c] = Append(frames[c], f) /\ \A d \in Client : d # c => frames'[d] = frames[d]
    BY <1>4 DEF DrainOutput, TypeOK
  <2>3. \A i \in DOMAIN frames'[c] : frames'[c][i].pane \in pane_subs[c]
    <3> SUFFICES ASSUME NEW i \in DOMAIN frames'[c] PROVE frames'[c][i].pane \in pane_subs[c]
      OBVIOUS
    <3>1. CASE i \in DOMAIN frames[c]
      BY <2>2, <3>1 DEF SubscribedInv, TypeOK
    <3>2. CASE i = Len(frames[c]) + 1
      BY <2>1, <2>2, <3>2 DEF TypeOK
    <3> QED
      BY <2>2, <3>1, <3>2 DEF TypeOK
  <2> QED
    BY <1>4, <2>2, <2>3 DEF DrainOutput, SubscribedInv
<1>5. ASSUME NEW c \in Client, DrainEmpty(c) PROVE SubscribedInv'
  BY <1>5 DEF DrainEmpty, SubscribedInv, TypeOK
<1>6. ASSUME NEW c \in Client, DrainDone(c) PROVE SubscribedInv'
  BY <1>6 DEF DrainDone, SubscribedInv, TypeOK
<1>7. ASSUME NEW c \in Client, SendFrame(c) PROVE SubscribedInv'
  <2>1. \A d \in Client : d # c => frames'[d] = frames[d]
    BY <1>7 DEF SendFrame, TypeOK
  <2>2. \A i \in DOMAIN frames'[c] : i + 1 \in DOMAIN frames[c] /\ frames'[c][i] = frames[c][i + 1]
    BY <1>7 DEF SendFrame, TypeOK
  <2> QED
    BY <1>7, <2>1, <2>2 DEF SendFrame, SubscribedInv
<1>8. ASSUME NEW c \in Client, SendDone(c) PROVE SubscribedInv'
  BY <1>8 DEF SendDone, SubscribedInv, TypeOK
<1>9. ASSUME NEW c \in Client, Tick(c) \/ RequestDone(c) PROVE SubscribedInv'
  <2>1. Loop(c, pane_subs[c]) /\ frames[c] = <<>> /\ pane_subs[c] \in SUBSET Pane
    BY <1>9 DEF Tick, RequestDone, SubscribedInv, TypeOK
  <2>2. pane_subs' = [pane_subs EXCEPT ![c] = pane_subs[c]]
    BY <1>9 DEF Tick, RequestDone, TypeOK
  <2> QED
    BY <1>9, <2>1, <2>2, <1>0 DEF Tick, RequestDone
<1>10. ASSUME NEW c \in Client, NEW p \in Pane, Subscribe(c, p) PROVE SubscribedInv'
  <2>1. Loop(c, pane_subs[c] \cup {p}) /\ frames[c] = <<>> /\ pane_subs[c] \cup {p} \in SUBSET Pane
    BY <1>10 DEF Subscribe, SubscribedInv, TypeOK
  <2> QED
    BY <1>10, <2>1, <1>0 DEF Subscribe
<1>11. ASSUME NEW c \in Client, NEW p \in Pane, Unsubscribe(c, p) PROVE SubscribedInv'
  <2>1. Loop(c, pane_subs[c] \ {p}) /\ frames[c] = <<>> /\ pane_subs[c] \ {p} \in SUBSET Pane
    BY <1>11 DEF Unsubscribe, SubscribedInv, TypeOK
  <2> QED
    BY <1>11, <2>1, <1>0 DEF Unsubscribe
<1>12. ASSUME NEW c \in Client, Request(c) \/ Break(c) PROVE SubscribedInv'
  BY <1>12 DEF Request, Break, SubscribedInv, TypeOK
<1>13. ASSUME NEW c \in Client, Close(c) PROVE SubscribedInv'
  BY <1>13 DEF Close, SubscribedInv, TypeOK
<1>14. CASE UNCHANGED vars
  BY <1>14 DEF vars, SubscribedInv
<1> QED
  BY <1>1, <1>2, <1>3, <1>4, <1>5, <1>6, <1>7, <1>8, <1>9, <1>10, <1>11, <1>12, <1>13, <1>14
     DEF Next, Task, Drain

(* Nothing drained before an Unsubscribe goes out after it: the frames a   *)
(* task still has to send are of panes its client is subscribed to.        *)
THEOREM OnlySubscribed == Spec => []OnlySubscribedPanes
<1>1. SubscribedInv => OnlySubscribedPanes
  BY DEF SubscribedInv, OnlySubscribedPanes
<1> QED
  BY <1>1, InitTypes, NextTypes, InitSubscribed, NextSubscribed, PTL DEF Spec

-----------------------------------------------------------------------------
(* The stream of a client.                                                 *)

(* The frames of a pane are in order, between the last output sent and the *)
(* next one the receiver yields, and what a subscribed client will not get *)
(* the channel retains no longer.                                          *)
StreamInv ==
  \A c \in Client, p \in Pane :
    /\ last[c][p] < next[c][p]
    /\ next[c][p] <= published[p] + 1
    /\ \A i \in DOMAIN frames[c] :
         frames[c][i].pane = p => last[c][p] < frames[c][i].n /\ frames[c][i].n < next[c][p]
    /\ \A i, j \in DOMAIN frames[c] :
         i < j /\ frames[c][i].pane = p /\ frames[c][j].pane = p => frames[c][i].n < frames[c][j].n
    /\ p \in pane_subs[c] /\ ~broken[c] =>
         \A x \in Nat : last[c][p] < x /\ x < next[c][p] =>
           \/ \E i \in DOMAIN frames[c] : frames[c][i].pane = p /\ frames[c][i].n = x
           \/ x + Capacity <= published[p]

LEMMA InitStream == Init => StreamInv
BY DEF Init, StreamInv

(* A step that leaves the receivers and the frames alone.                  *)
LEMMA StreamKept ==
  ASSUME TypeOK, StreamInv, UNCHANGED <<next, frames, last>>,
         \A p \in Pane : published'[p] \in Nat /\ published[p] <= published'[p],
         \A c \in Client, p \in Pane :
           p \in pane_subs'[c] /\ ~broken'[c] => p \in pane_subs[c] /\ ~broken[c]
  PROVE  StreamInv'
<1> SUFFICES ASSUME NEW c \in Client, NEW p \in Pane
             PROVE  /\ last[c][p] < next[c][p]
                    /\ next[c][p] <= published'[p] + 1
                    /\ \A i \in DOMAIN frames[c] :
                         frames[c][i].pane = p => last[c][p] < frames[c][i].n /\ frames[c][i].n < next[c][p]
                    /\ \A i, j \in DOMAIN frames[c] :
                         i < j /\ frames[c][i].pane = p /\ frames[c][j].pane = p => frames[c][i].n < frames[c][j].n
                    /\ p \in pane_subs'[c] /\ ~broken'[c] =>
                         \A x \in Nat : last[c][p] < x /\ x < next[c][p] =>
                           \/ \E i \in DOMAIN frames[c] : frames[c][i].pane = p /\ frames[c][i].n = x
                           \/ x + Capacity <= published'[p]
  BY DEF StreamInv
<1>1. published[p] \in Nat /\ published'[p] \in Nat /\ published[p] <= published'[p]
      /\ next[c][p] \in Nat /\ Capacity \in Nat
  BY CapacityAssumption, PublishedAssumption DEF TypeOK, Number
<1>2. /\ next[c][p] <= published[p] + 1
      /\ p \in pane_subs[c] /\ ~broken[c] =>
           \A x \in Nat : last[c][p] < x /\ x < next[c][p] =>
             \/ \E i \in DOMAIN frames[c] : frames[c][i].pane = p /\ frames[c][i].n = x
             \/ x + Capacity <= published[p]
  BY DEF StreamInv
<1>3. next[c][p] <= published'[p] + 1
  BY <1>1, <1>2
<1>4. \A x \in Nat : x + Capacity <= published[p] => x + Capacity <= published'[p]
  BY <1>1
<1> QED
  BY <1>2, <1>3, <1>4 DEF StreamInv

(* One client's receivers and frames change, those of the others do not.   *)
LEMMA StreamOfOne ==
  ASSUME TypeOK, StreamInv, NEW c \in Client,
         UNCHANGED <<published, pane_subs, broken>>,
         \A d \in Client : d # c =>
           next'[d] = next[d] /\ frames'[d] = frames[d] /\ last'[d] = last[d],
         \A p \in Pane :
           /\ last'[c][p] < next'[c][p]
           /\ next'[c][p] <= published[p] + 1
           /\ \A i \in DOMAIN frames'[c] :
                frames'[c][i].pane = p => last'[c][p] < frames'[c][i].n /\ frames'[c][i].n < next'[c][p]
           /\ \A i, j \in DOMAIN frames'[c] :
                i < j /\ frames'[c][i].pane = p /\ frames'[c][j].pane = p => frames'[c][i].n < frames'[c][j].n
           /\ p \in pane_subs[c] /\ ~broken[c] =>
                \A x \in Nat : last'[c][p] < x /\ x < next'[c][p] =>
                  \/ \E i \in DOMAIN frames'[c] : frames'[c][i].pane = p /\ frames'[c][i].n = x
                  \/ x + Capacity <= published[p]
  PROVE  StreamInv'
<1> SUFFICES ASSUME NEW d \in Client, NEW p \in Pane
             PROVE  /\ last'[d][p] < next'[d][p]
                    /\ next'[d][p] <= published[p] + 1
                    /\ \A i \in DOMAIN frames'[d] :
                         frames'[d][i].pane = p => last'[d][p] < frames'[d][i].n /\ frames'[d][i].n < next'[d][p]
                    /\ \A i, j \in DOMAIN frames'[d] :
                         i < j /\ frames'[d][i].pane = p /\ frames'[d][j].pane = p => frames'[d][i].n < frames'[d][j].n
                    /\ p \in pane_subs[d] /\ ~broken[d] =>
                         \A x \in Nat : last'[d][p] < x /\ x < next'[d][p] =>
                           \/ \E i \in DOMAIN frames'[d] : frames'[d][i].pane = p /\ frames'[d][i].n = x
                           \/ x + Capacity <= published[p]
  BY DEF StreamInv
<1>1. CASE d = c
  BY <1>1
<1>2. CASE d # c
  <2>1. next'[d] = next[d] /\ frames'[d] = frames[d] /\ last'[d] = last[d]
    BY <1>2
  <2> QED
    BY <2>1 DEF StreamInv
<1> QED
  BY <1>1, <1>2

LEMMA NextStream == TypeOK /\ SubscribedInv /\ StreamInv /\ [Next]_vars => StreamInv'
<1> SUFFICES ASSUME TypeOK, SubscribedInv, StreamInv, [Next]_vars PROVE StreamInv'
  OBVIOUS
<1>n. ASSUME NEW p \in Pane PROVE published[p] \in Nat /\ Capacity \in Nat /\ Capacity > 0
  BY CapacityAssumption, PublishedAssumption DEF TypeOK, Number
<1>m. ASSUME NEW c \in Client, NEW p \in Pane PROVE next[c][p] \in Nat /\ last[c][p] \in Nat
  BY PublishedAssumption DEF TypeOK, Number
<1>f. ASSUME NEW c \in Client, NEW i \in DOMAIN frames[c]
      PROVE  frames[c][i] \in Frame /\ frames[c][i].n \in Nat /\ frames[c][i].pane \in Pane
  <2>1. frames[c] \in Seq(Frame)
    BY DEF TypeOK
  <2>2. frames[c][i] \in Frame
    BY <2>1
  <2> QED
    BY <2>2, PublishedAssumption DEF Frame, Number
<1>1. ASSUME NEW p \in Pane, Publish(p) PROVE StreamInv'
  <2>1. \A q \in Pane : published'[q] \in Nat /\ published[q] <= published'[q]
    BY <1>1, <1>n DEF Publish, TypeOK
  <2> QED
    BY <1>1, <2>1, StreamKept DEF Publish
(* A step that changes neither the channels nor the receivers.             *)
<1>u. ASSUME UNCHANGED <<published, next, frames, last>>,
             \A c \in Client, p \in Pane :
               p \in pane_subs'[c] /\ ~broken'[c] => p \in pane_subs[c] /\ ~broken[c]
      PROVE  StreamInv'
  BY <1>u, <1>n, StreamKept
<1>2. ASSUME NEW c \in Client, Open(c) PROVE StreamInv'
  <2>1. \A d \in Client, p \in Pane :
          p \in pane_subs'[d] /\ ~broken'[d] => p \in pane_subs[d] /\ ~broken[d]
    BY <1>2 DEF Open, TypeOK
  <2> QED
    BY <1>2, <2>1, <1>u DEF Open
<1>3. ASSUME NEW c \in Client, DrainLagged(c) PROVE StreamInv'
  <2> DEFINE q == Head(todo[c])
  <2>1. q \in Pane
    BY <1>3 DEF DrainLagged, TypeOK
  <2>2. /\ next'[c][q] = Oldest(q) /\ next[c][q] < Oldest(q)
        /\ \A p \in Pane : p # q => next'[c][p] = next[c][p]
        /\ \A d \in Client : d # c => next'[d] = next[d]
    BY <1>3, <2>1 DEF DrainLagged, IsLagged, TypeOK
  <2>3. /\ Oldest(q) \in Nat /\ Oldest(q) <= published[q] + 1
        /\ \A x \in Nat : next[c][q] <= x /\ x < Oldest(q) => x + Capacity <= published[q]
    <3>1. CASE published[q] > Capacity
      BY <2>1, <3>1, <1>n DEF Oldest
    <3>2. CASE ~(published[q] > Capacity)
      BY <2>1, <2>2, <3>2, <1>n, <1>m, PublishedAssumption DEF Oldest, TypeOK
    <3> QED
      BY <3>1, <3>2
  <2>4. ASSUME NEW p \in Pane
        PROVE  /\ last[c][p] < next'[c][p]
               /\ next'[c][p] <= published[p] + 1
               /\ \A i \in DOMAIN frames[c] :
                    frames[c][i].pane = p => last[c][p] < frames[c][i].n /\ frames[c][i].n < next'[c][p]
               /\ p \in pane_subs[c] /\ ~broken[c] =>
                    \A x \in Nat : last[c][p] < x /\ x < next'[c][p] =>
                      \/ \E i \in DOMAIN frames[c] : frames[c][i].pane = p /\ frames[c][i].n = x
                      \/ x + Capacity <= published[p]
    <3>1. CASE p # q
      BY <2>2, <3>1 DEF StreamInv
    <3>2. CASE p = q
      <4>1. last[c][q] < next'[c][q]
        BY <2>1, <2>2, <2>3, <1>m DEF StreamInv
      <4>2. ASSUME NEW i \in DOMAIN frames[c], frames[c][i].pane = q
            PROVE  last[c][q] < frames[c][i].n /\ frames[c][i].n < next'[c][q]
        <5>1. last[c][q] < frames[c][i].n /\ frames[c][i].n < next[c][q]
          BY <2>1, <4>2 DEF StreamInv
        <5>2. frames[c][i].n \in Nat /\ next[c][q] \in Nat
          BY <1>f, <1>m, <2>1
        <5> QED
          BY <2>2, <2>3, <5>1, <5>2
      <4>3. ASSUME NEW x \in Nat, last[c][q] < x, x < next'[c][q], q \in pane_subs[c], ~broken[c]
            PROVE  \/ \E i \in DOMAIN frames[c] : frames[c][i].pane = q /\ frames[c][i].n = x
                   \/ x + Capacity <= published[q]
        <5>1. CASE x < next[c][q]
          BY <2>1, <4>3, <5>1 DEF StreamInv
        <5>2. CASE next[c][q] <= x
          BY <2>2, <2>3, <4>3, <5>2
        <5> QED
          BY <5>1, <5>2, <1>m, <2>1
      <4> QED
        BY <2>2, <2>3, <3>2, <4>1, <4>2, <4>3
    <3> QED
      BY <3>1, <3>2
  <2>5. UNCHANGED <<published, pane_subs, broken, frames, last>>
    BY <1>3 DEF DrainLagged
  <2>6. ASSUME NEW p \in Pane
        PROVE  \A i, j \in DOMAIN frames[c] :
                 i < j /\ frames[c][i].pane = p /\ frames[c][j].pane = p => frames[c][i].n < frames[c][j].n
    BY DEF StreamInv
  <2> QED
    BY <2>2, <2>4, <2>5, <2>6, StreamOfOne
<1>4. ASSUME NEW c \in Client, DrainOutput(c) PROVE StreamInv'
  <2> DEFINE q == Head(todo[c])
             f == [pane |-> q, n |-> next[c][q]]
  <2>1. q \in Pane
    BY <1>4 DEF DrainOutput, TypeOK
  <2>2. /\ next'[c][q] = next[c][q] + 1 /\ next[c][q] <= published[q]
        /\ \A p \in Pane : p # q => next'[c][p] = next[c][p]
        /\ \A d \in Client : d # c => next'[d] = next[d] /\ frames'[d] = frames[d]
    BY <1>4, <2>1, <1>n, <1>m DEF DrainOutput, IsEmpty, TypeOK
  <2>3. /\ DOMAIN frames'[c] = DOMAIN frames[c] \cup {Len(frames[c]) + 1}
        /\ \A i \in DOMAIN frames[c] : frames'[c][i] = frames[c][i] /\ i \in Nat /\ i < Len(frames[c]) + 1
        /\ frames'[c][Len(frames[c]) + 1] = f
        /\ Len(frames[c]) \in Nat
    <3>1. frames'[c] = Append(frames[c], f)
      BY <1>4 DEF DrainOutput, TypeOK
    <3>2. frames[c] \in Seq(Frame)
      BY DEF TypeOK
    <3> HIDE DEF f
    <3> QED
      BY <3>1, <3>2
  <2>4. ASSUME NEW p \in Pane
        PROVE  /\ last[c][p] < next'[c][p]
               /\ next'[c][p] <= published[p] + 1
               /\ next[c][p] <= next'[c][p]
    <3>1. CASE p = q
      BY <2>1, <2>2, <3>1, <1>m, <1>n DEF StreamInv
    <3>2. CASE p # q
      BY <2>2, <3>2, <1>m DEF StreamInv
    <3> QED
      BY <3>1, <3>2
  <2>5. ASSUME NEW p \in Pane, NEW i \in DOMAIN frames'[c], frames'[c][i].pane = p
        PROVE  last[c][p] < frames'[c][i].n /\ frames'[c][i].n < next'[c][p]
    <3>1. CASE i \in DOMAIN frames[c]
      <4>1. last[c][p] < frames[c][i].n /\ frames[c][i].n < next[c][p]
        BY <2>3, <2>5, <3>1 DEF StreamInv
      <4>2. frames[c][i].n \in Nat /\ next[c][p] \in Nat /\ next'[c][p] \in Nat
        BY <1>f, <1>m, <2>2, <3>1
      <4> QED
        BY <2>3, <2>4, <3>1, <4>1, <4>2
    <3>2. CASE i = Len(frames[c]) + 1
      <4>1. p = q /\ frames'[c][i].n = next[c][q]
        BY <2>3, <2>5, <3>2
      <4>2. last[c][q] < next[c][q]
        BY <2>1 DEF StreamInv
      <4> HIDE DEF q, f
      <4> QED
        BY <2>1, <2>2, <4>1, <4>2, <1>m
    <3> QED
      BY <2>3, <3>1, <3>2
  <2>6. ASSUME NEW p \in Pane, NEW i \in DOMAIN frames'[c], NEW j \in DOMAIN frames'[c],
               i < j, frames'[c][i].pane = p, frames'[c][j].pane = p
        PROVE  frames'[c][i].n < frames'[c][j].n
    <3>1. i \in DOMAIN frames[c]
      BY <2>3, <2>6
    <3>2. CASE j \in DOMAIN frames[c]
      BY <2>3, <2>6, <3>1, <3>2 DEF StreamInv
    <3>3. CASE j = Len(frames[c]) + 1
      <4>1. p = q /\ frames'[c][j].n = next[c][q]
        BY <2>3, <2>6, <3>3
      <4>2. frames[c][i].n < next[c][q]
        BY <2>3, <2>6, <3>1, <4>1 DEF StreamInv
      <4> QED
        BY <2>3, <3>1, <4>1, <4>2
    <3> QED
      BY <2>3, <3>2, <3>3
  <2>7. ASSUME NEW p \in Pane, p \in pane_subs[c], ~broken[c],
               NEW x \in Nat, last[c][p] < x, x < next'[c][p]
        PROVE  \/ \E i \in DOMAIN frames'[c] : frames'[c][i].pane = p /\ frames'[c][i].n = x
               \/ x + Capacity <= published[p]
    <3>1. CASE x < next[c][p]
      <4>1. \/ \E i \in DOMAIN frames[c] : frames[c][i].pane = p /\ frames[c][i].n = x
            \/ x + Capacity <= published[p]
        BY <2>7, <3>1 DEF StreamInv
      <4> QED
        BY <2>3, <4>1
    <3>2. CASE ~(x < next[c][p])
      <4>1. p = q /\ x = next[c][q]
        BY <2>2, <2>7, <3>2, <1>m
      <4>2. frames'[c][Len(frames[c]) + 1].pane = p /\ frames'[c][Len(frames[c]) + 1].n = x
        BY <2>3, <4>1
      <4> QED
        BY <2>3, <4>2
    <3> QED
      BY <3>1, <3>2
  <2>8. UNCHANGED <<published, pane_subs, broken, last>>
    BY <1>4 DEF DrainOutput
  <2> HIDE DEF f, q
  <2> QED
    BY <2>2, <2>4, <2>5, <2>6, <2>7, <2>8, StreamOfOne
<1>7. ASSUME NEW c \in Client, SendFrame(c) PROVE StreamInv'
  <2> DEFINE f == Head(frames[c])
  <2>1. /\ 1 \in DOMAIN frames[c] /\ f = frames[c][1]
        /\ f.pane \in Pane /\ f.n \in Nat
    <3>1. frames[c] \in Seq(Frame) /\ frames[c] # <<>>
      BY <1>7 DEF SendFrame, TypeOK
    <3>2. 1 \in DOMAIN frames[c] /\ f = frames[c][1]
      BY <3>1
    <3> QED
      BY <3>2, <1>f
  <2>2. /\ \A i \in DOMAIN frames'[c] :
             /\ i \in Nat /\ i + 1 \in DOMAIN frames[c] /\ 1 < i + 1
             /\ frames'[c][i] = frames[c][i + 1]
        /\ \A i \in DOMAIN frames[c] : i # 1 => i \in Nat /\ i - 1 \in DOMAIN frames'[c] /\ (i - 1) + 1 = i
        /\ \A d \in Client : d # c => frames'[d] = frames[d]
    <3>1. frames[c] \in Seq(Frame) /\ frames[c] # <<>>
      BY <1>7 DEF SendFrame, TypeOK
    <3>2. frames'[c] = Tail(frames[c]) /\ \A d \in Client : d # c => frames'[d] = frames[d]
      BY <1>7 DEF SendFrame, TypeOK
    <3> QED
      BY <3>1, <3>2
  <2>3. UNCHANGED <<published, pane_subs, broken, next>>
    BY <1>7 DEF SendFrame
  <2>4. ASSUME NEW p \in Pane, NEW i \in DOMAIN frames'[c], NEW j \in DOMAIN frames'[c],
               i < j, frames'[c][i].pane = p, frames'[c][j].pane = p
        PROVE  frames'[c][i].n < frames'[c][j].n
    <3>1. i + 1 \in DOMAIN frames[c] /\ j + 1 \in DOMAIN frames[c] /\ i + 1 < j + 1
      BY <2>2, <2>4
    <3> QED
      BY <2>2, <2>4, <3>1 DEF StreamInv
  <2>5. CASE broken[c]
    <3>1. last' = last
      BY <1>7, <2>5 DEF SendFrame
    <3>2. ASSUME NEW p \in Pane, NEW i \in DOMAIN frames'[c], frames'[c][i].pane = p
          PROVE  last[c][p] < frames'[c][i].n /\ frames'[c][i].n < next[c][p]
      BY <2>2, <3>2 DEF StreamInv
    <3>3. ASSUME NEW p \in Pane PROVE last[c][p] < next[c][p] /\ next[c][p] <= published[p] + 1
      BY DEF StreamInv
    <3> QED
      BY <2>2, <2>3, <2>4, <2>5, <3>1, <3>2, <3>3, StreamOfOne
  <2>6. CASE ~broken[c]
    <3>1. /\ last'[c][f.pane] = f.n
          /\ \A p \in Pane : p # f.pane => last'[c][p] = last[c][p]
          /\ \A d \in Client : d # c => last'[d] = last[d]
      BY <1>7, <2>1, <2>6 DEF SendFrame, TypeOK
    <3>2. ASSUME NEW p \in Pane
          PROVE  /\ last'[c][p] < next[c][p]
                 /\ next[c][p] <= published[p] + 1
                 /\ last'[c][p] \in Nat /\ last[c][p] <= last'[c][p]
      <4>1. CASE p = f.pane
        <5>1. last[c][p] < f.n /\ f.n < next[c][p]
          BY <2>1, <4>1 DEF StreamInv
        <5> QED
          BY <2>1, <3>1, <4>1, <5>1, <1>m DEF StreamInv
      <4>2. CASE p # f.pane
        BY <3>1, <4>2, <1>m DEF StreamInv
      <4> QED
        BY <4>1, <4>2
    <3>3. ASSUME NEW p \in Pane, NEW i \in DOMAIN frames'[c], frames'[c][i].pane = p
          PROVE  last'[c][p] < frames'[c][i].n /\ frames'[c][i].n < next[c][p]
      <4>1. /\ i + 1 \in DOMAIN frames[c] /\ 1 < i + 1
            /\ frames[c][i + 1].pane = p /\ frames'[c][i].n = frames[c][i + 1].n
        BY <2>2, <3>3
      <4>2. last[c][p] < frames[c][i + 1].n /\ frames[c][i + 1].n < next[c][p]
        BY <4>1 DEF StreamInv
      <4>3. CASE p = f.pane
        BY <2>1, <3>1, <4>1, <4>2, <4>3 DEF StreamInv
      <4>4. CASE p # f.pane
        BY <3>1, <4>1, <4>2, <4>4
      <4> QED
        BY <4>3, <4>4
    <3>4. ASSUME NEW p \in Pane, p \in pane_subs[c],
                 NEW x \in Nat, last'[c][p] < x, x < next[c][p]
          PROVE  \/ \E i \in DOMAIN frames'[c] : frames'[c][i].pane = p /\ frames'[c][i].n = x
                 \/ x + Capacity <= published[p]
      <4>1. last[c][p] < x
        BY <3>2, <3>4, <1>m
      <4>2. \/ \E i \in DOMAIN frames[c] : frames[c][i].pane = p /\ frames[c][i].n = x
            \/ x + Capacity <= published[p]
        BY <2>6, <3>4, <4>1 DEF StreamInv
      <4>3. ASSUME NEW i \in DOMAIN frames[c], frames[c][i].pane = p, frames[c][i].n = x
            PROVE  \E k \in DOMAIN frames'[c] : frames'[c][k].pane = p /\ frames'[c][k].n = x
        <5>1. i # 1
          BY <2>1, <3>1, <3>4, <4>3
        <5>2. i - 1 \in DOMAIN frames'[c] /\ frames'[c][i - 1] = frames[c][i]
          BY <2>2, <5>1
        <5> QED
          BY <4>3, <5>2
      <4> QED
        BY <4>2, <4>3
    <3> HIDE DEF f
    <3> QED
      BY <2>2, <2>3, <2>4, <3>1, <3>2, <3>3, <3>4, StreamOfOne
  <2> QED
    BY <2>5, <2>6, <1>m DEF TypeOK
<1>8. ASSUME NEW c \in Client, DrainEmpty(c) \/ DrainDone(c) \/ SendDone(c) \/ Tick(c) \/ RequestDone(c)
      PROVE  StreamInv'
  BY <1>8, <1>u DEF DrainEmpty, DrainDone, SendDone, Tick, RequestDone
<1>10. ASSUME NEW c \in Client, NEW q \in Pane, Subscribe(c, q) PROVE StreamInv'
  <2>1. frames[c] = <<>>
    BY <1>10 DEF Subscribe, SubscribedInv
  <2>2. /\ next'[c][q] = published[q] + 1 /\ last'[c][q] = published[q]
        /\ \A p \in Pane : p # q => next'[c][p] = next[c][p] /\ last'[c][p] = last[c][p]
        /\ \A d \in Client : d # c => next'[d] = next[d] /\ last'[d] = last[d] /\ pane_subs'[d] = pane_subs[d]
        /\ pane_subs'[c] = pane_subs[c] \cup {q}
        /\ UNCHANGED <<published, frames, broken>>
    BY <1>10 DEF Subscribe, TypeOK
  <2> SUFFICES ASSUME NEW d \in Client, NEW p \in Pane
               PROVE  /\ last'[d][p] < next'[d][p]
                      /\ next'[d][p] <= published[p] + 1
                      /\ \A i \in DOMAIN frames[d] :
                           frames[d][i].pane = p => last'[d][p] < frames[d][i].n /\ frames[d][i].n < next'[d][p]
                      /\ \A i, j \in DOMAIN frames[d] :
                           i < j /\ frames[d][i].pane = p /\ frames[d][j].pane = p => frames[d][i].n < frames[d][j].n
                      /\ p \in pane_subs'[d] /\ ~broken[d] =>
                           \A x \in Nat : last'[d][p] < x /\ x < next'[d][p] =>
                             \/ \E i \in DOMAIN frames[d] : frames[d][i].pane = p /\ frames[d][i].n = x
                             \/ x + Capacity <= published[p]
    BY <2>2 DEF StreamInv
  <2>3. CASE d = c /\ p = q
    BY <2>1, <2>2, <2>3, <1>n
  <2>4. CASE ~(d = c /\ p = q)
    <3>1. next'[d][p] = next[d][p] /\ last'[d][p] = last[d][p] /\ (p \in pane_subs'[d] => p \in pane_subs[d])
      BY <2>2, <2>4
    <3> QED
      BY <3>1 DEF StreamInv
  <2> QED
    BY <2>3, <2>4
<1>11. ASSUME NEW c \in Client, NEW q \in Pane, Unsubscribe(c, q) PROVE StreamInv'
  <2>1. \A d \in Client, p \in Pane :
          p \in pane_subs'[d] /\ ~broken'[d] => p \in pane_subs[d] /\ ~broken[d]
    BY <1>11 DEF Unsubscribe, TypeOK
  <2> QED
    BY <1>11, <2>1, <1>u DEF Unsubscribe
<1>12. ASSUME NEW c \in Client, Request(c) \/ Break(c) \/ Close(c) PROVE StreamInv'
  <2>1. \A d \in Client, p \in Pane :
          p \in pane_subs'[d] /\ ~broken'[d] => p \in pane_subs[d] /\ ~broken[d]
    BY <1>12 DEF Request, Break, Close, TypeOK
  <2> QED
    BY <1>12, <2>1, <1>u DEF Request, Break, Close
<1>13. CASE UNCHANGED vars
  BY <1>13, <1>u DEF vars
<1> QED
  BY <1>1, <1>2, <1>3, <1>4, <1>7, <1>8, <1>10, <1>11, <1>12, <1>13 DEF Next, Task, Drain

-----------------------------------------------------------------------------
(* The refinement.                                                         *)

LEMMA InitMaps ==
  ASSUME NEW c \in Client, NEW p \in Pane
  PROVE  Init => Stream(c, p)!Init
BY DEF Init, Stream!Init

(* Sending a frame of p is a Send of the stream, a Subscribe to p is a     *)
(* Subscribe, a Publish to p a Publish; every other step stutters.         *)
LEMMA StepMaps ==
  ASSUME NEW c \in Client, NEW p \in Pane, TypeOK, SubscribedInv, StreamInv, [Next]_vars
  PROVE  [Stream(c, p)!Next]_<<published[p], since[c][p], last[c][p]>>
<1> USE DEF Stream!Next, Stream!Publish, Stream!Subscribe, Stream!Send
<1>n. published[p] \in Nat /\ last[c][p] \in Nat /\ Capacity \in Nat
  BY CapacityAssumption, PublishedAssumption DEF TypeOK, Number
<1>1. ASSUME NEW q \in Pane, Publish(q) PROVE [Stream(c, p)!Next]_<<published[p], since[c][p], last[c][p]>>
  BY <1>1 DEF Publish, TypeOK
<1>2. ASSUME NEW d \in Client, NEW q \in Pane, Subscribe(d, q)
      PROVE  [Stream(c, p)!Next]_<<published[p], since[c][p], last[c][p]>>
  BY <1>2 DEF Subscribe, TypeOK
<1>3. ASSUME NEW d \in Client, SendFrame(d) PROVE [Stream(c, p)!Next]_<<published[p], since[c][p], last[c][p]>>
  <2> DEFINE f == Head(frames[d])
  <2>1. 1 \in DOMAIN frames[d] /\ f = frames[d][1] /\ f \in Frame
    BY <1>3 DEF SendFrame, TypeOK
  <2>2. f.pane \in Pane /\ f.n \in Nat
    BY <2>1, PublishedAssumption DEF Frame, Number
  <2>3. published' = published /\ since' = since
    BY <1>3 DEF SendFrame
  <2>4. CASE broken[d] \/ d # c \/ f.pane # p
    BY <1>3, <2>2, <2>3, <2>4 DEF SendFrame, TypeOK
  <2>5. CASE ~broken[d] /\ d = c /\ f.pane = p
    <3>1. last'[c][p] = f.n
      BY <1>3, <2>2, <2>5 DEF SendFrame, TypeOK
    <3>2. p \in pane_subs[c]
      BY <2>1, <2>5 DEF SubscribedInv
    <3>3. last[c][p] < f.n /\ f.n < next[c][p] /\ next[c][p] <= published[p] + 1 /\ next[c][p] \in Nat
      BY <2>1, <2>5, PublishedAssumption DEF StreamInv, TypeOK
    <3>4. f.n > last[c][p] + 1 => (f.n - 1) + Capacity <= published[p]
      <4> SUFFICES ASSUME f.n > last[c][p] + 1 PROVE (f.n - 1) + Capacity <= published[p]
        OBVIOUS
      <4> DEFINE x == f.n - 1
      <4>1. x \in Nat /\ last[c][p] < x /\ x < next[c][p] /\ x < f.n
        BY <2>2, <3>3, <1>n
      <4>2. ASSUME NEW i \in DOMAIN frames[c], frames[c][i].pane = p, frames[c][i].n = x PROVE FALSE
        <5>1. i # 1 /\ i \in Nat /\ 1 < i
          BY <2>1, <2>5, <4>1, <4>2 DEF TypeOK
        <5>2. frames[c][1].n < frames[c][i].n
          BY <2>1, <2>5, <4>2, <5>1 DEF StreamInv
        <5> QED
          BY <2>1, <2>2, <2>5, <4>1, <4>2, <5>2
      <4>3. x + Capacity <= published[p]
        BY <2>5, <3>2, <4>1, <4>2 DEF StreamInv
      <4> QED
        BY <4>3, <1>n
    <3>5. f.n \in (last[c][p] + 1) .. published[p]
      BY <2>2, <3>3, <1>n
    <3> HIDE DEF f
    <3> QED
      BY <2>3, <3>1, <3>4, <3>5
  <2> QED
    BY <2>4, <2>5 DEF TypeOK
<1>4. CASE UNCHANGED <<published, since, last>>
  BY <1>4
<1> QED
  BY <1>1, <1>2, <1>3, <1>4
     DEF Next, Task, Drain, vars, Open, DrainLagged, DrainOutput, DrainEmpty, DrainDone, SendDone,
         Tick, RequestDone, Unsubscribe, Request, Break, Close

(* Every client is sent a lagged stream of every pane: in order, none      *)
(* twice, and none left out that the channel of the pane still retains.    *)
THEOREM EveryClientStreams == Spec => ClientsStream
<1>1. Init => \A c \in Client, p \in Pane : Stream(c, p)!Init
  BY InitMaps
<1>2. TypeOK /\ SubscribedInv /\ StreamInv /\ [Next]_vars =>
        [\A c \in Client, p \in Pane :
           [Stream(c, p)!Next]_<<published[p], since[c][p], last[c][p]>>]_<<published, since, last>>
  BY StepMaps
<1> QED
  BY <1>1, <1>2, InitTypes, NextTypes, InitSubscribed, NextSubscribed, InitStream, NextStream, PTL
     DEF Spec, ClientsStream

-----------------------------------------------------------------------------
(* A pass leaves nothing behind.                                           *)

(* What is still to come of a pane: it is to be drained, or the output     *)
(* that was due when the pass began, or a later one, is among the frames   *)
(* or has been sent.                                                       *)
ToCome(c, p) ==
  \/ at[c] = "drain" /\ \E i \in DOMAIN todo[c] : todo[c][i] = p
  \/ last[c][p] >= due[c][p]
  \/ \E i \in DOMAIN frames[c] : frames[c][i].pane = p /\ frames[c][i].n >= due[c][p]

CatchUpInv ==
  \A c \in Client, p \in Pane :
    /\ due[c][p] <= published[p]
    /\ p \in pane_subs[c] /\ ~broken[c] => ToCome(c, p)

LEMMA InitCatchUp == Init => CatchUpInv
BY DEF Init, CatchUpInv

(* An order of a set of panes has each of them.                            *)
LEMMA OrderCovers ==
  ASSUME NEW S \in SUBSET Pane, NEW order \in SetToSeqs(S)
  PROVE  \A p \in S : \E i \in DOMAIN order : order[i] = p
<1> DEFINE D == 1 .. Cardinality(S)
<1>1. IsFiniteSet(S)
  BY PaneAssumption, FS_Subset
<1>2. Cardinality(S) \in Nat
  BY <1>1, FS_CardinalityType
<1>3. IsFiniteSet(D) /\ Cardinality(D) = Cardinality(S)
  BY <1>2, FS_Interval
<1>4. order \in [D -> S] /\ \A i, j \in D : i # j => order[i] # order[j]
  BY DEF SetToSeqs
<1>5. order \in Injection(D, S)
  BY <1>4 DEF Injection, IsInjective
<1>6. order \in Surjection(D, S)
  BY <1>1, <1>3, <1>5, FS_Injection
<1> QED
  BY <1>4, <1>6 DEF Surjection

(* The newest output is on its way when the receiver has no more.          *)
LEMMA EmptyMeansNewest ==
  ASSUME TypeOK, StreamInv, NEW c \in Client, NEW p \in pane_subs[c], ~broken[c], IsEmpty(c, p)
  PROVE  \/ last[c][p] = published[p]
         \/ \E i \in DOMAIN frames[c] : frames[c][i].pane = p /\ frames[c][i].n = published[p]
<1>1. p \in Pane
  BY DEF TypeOK
<1>2. published[p] \in Nat /\ last[c][p] \in Nat /\ next[c][p] \in Nat /\ Capacity \in Nat \ {0}
  BY <1>1, CapacityAssumption, PublishedAssumption DEF TypeOK, Number
<1>3. last[c][p] < next[c][p] /\ next[c][p] <= published[p] + 1 /\ next[c][p] > published[p]
  BY <1>1 DEF StreamInv, IsEmpty
<1>4. last[c][p] < published[p] =>
        \/ \E i \in DOMAIN frames[c] : frames[c][i].pane = p /\ frames[c][i].n = published[p]
        \/ published[p] + Capacity <= published[p]
  BY <1>1, <1>2, <1>3 DEF StreamInv
<1> QED
  BY <1>2, <1>3, <1>4

(* A step that leaves one client's place alone.                            *)
LEMMA ToComeKept ==
  ASSUME NEW c \in Client, NEW p \in Pane,
         at'[c] = at[c], todo'[c] = todo[c], last'[c] = last[c], due'[c] = due[c],
         frames'[c] = frames[c], ToCome(c, p)
  PROVE  ToCome(c, p)'
BY DEF ToCome

LEMMA NextCatchUp ==
  TypeOK /\ SubscribedInv /\ StreamInv /\ CatchUpInv /\ [Next]_vars => CatchUpInv'
<1> SUFFICES ASSUME TypeOK, SubscribedInv, StreamInv, CatchUpInv, [Next]_vars PROVE CatchUpInv'
  OBVIOUS
<1>n. \A c \in Client, p \in Pane :
        published[p] \in Nat /\ due[c][p] \in Nat /\ last[c][p] \in Nat /\ due[c][p] <= published[p]
  BY PublishedAssumption DEF TypeOK, Number, CatchUpInv
(* At the top of the loop every receiver is to be drained.                 *)
<1>l. ASSUME NEW c \in Client, NEW subs \in SUBSET Pane, Loop(c, subs),
             pane_subs' = [pane_subs EXCEPT ![c] = subs],
             UNCHANGED <<published, frames>>,
             \A d \in Client : d # c => last'[d] = last[d] /\ broken'[d] = broken[d]
      PROVE  CatchUpInv'
  <2> SUFFICES ASSUME NEW d \in Client, NEW p \in Pane
               PROVE  /\ due'[d][p] <= published[p]
                      /\ p \in pane_subs'[d] /\ ~broken'[d] => ToCome(d, p)'
    BY <1>l DEF CatchUpInv
  <2>1. PICK order \in SetToSeqs(subs) : todo' = [todo EXCEPT ![c] = order]
    BY <1>l DEF Loop
  <2>2. \A q \in subs : \E i \in DOMAIN order : order[i] = q
    BY OrderCovers
  <2>3. CASE d = c
    <3>1. at'[c] = "drain" /\ todo'[c] = order /\ due'[c] = published /\ pane_subs'[c] = subs
      BY <1>l, <2>1 DEF Loop, TypeOK
    <3> QED
      BY <2>2, <2>3, <3>1, <1>n DEF ToCome
  <2>4. CASE d # c
    <3>1. /\ at'[d] = at[d] /\ todo'[d] = todo[d] /\ due'[d] = due[d]
          /\ pane_subs'[d] = pane_subs[d] /\ frames'[d] = frames[d]
          /\ last'[d] = last[d] /\ broken'[d] = broken[d]
      BY <1>l, <2>1, <2>4 DEF Loop, TypeOK
    <3> QED
      BY <3>1, <1>n, ToComeKept DEF CatchUpInv
  <2> QED
    BY <2>3, <2>4
(* A step of one client within its pass.                                   *)
<1>s. ASSUME NEW c \in Client, UNCHANGED <<published, due, pane_subs, broken>>,
             \A d \in Client : d # c =>
               at'[d] = at[d] /\ todo'[d] = todo[d] /\ last'[d] = last[d] /\ frames'[d] = frames[d],
             \A p \in pane_subs[c] : ~broken[c] /\ ToCome(c, p) => ToCome(c, p)'
      PROVE  CatchUpInv'
  <2> SUFFICES ASSUME NEW d \in Client, NEW p \in Pane
               PROVE  /\ due[d][p] <= published[p]
                      /\ p \in pane_subs[d] /\ ~broken[d] => ToCome(d, p)'
    BY <1>s DEF CatchUpInv
  <2>1. CASE d = c
    BY <1>s, <2>1 DEF CatchUpInv
  <2>2. CASE d # c
    BY <1>s, <2>2, ToComeKept DEF CatchUpInv
  <2> QED
    BY <2>1, <2>2
(* A step that leaves every pass alone, with no new receiver.              *)
<1>u. ASSUME UNCHANGED <<at, todo, due, last, frames>>,
             \A p \in Pane : published'[p] \in Nat /\ published[p] <= published'[p],
             \A c \in Client, p \in Pane :
               p \in pane_subs'[c] /\ ~broken'[c] => p \in pane_subs[c] /\ ~broken[c]
      PROVE  CatchUpInv'
  <2> SUFFICES ASSUME NEW d \in Client, NEW p \in Pane
               PROVE  /\ due[d][p] <= published'[p]
                      /\ p \in pane_subs'[d] /\ ~broken'[d] => ToCome(d, p)'
    BY <1>u DEF CatchUpInv
  <2>1. due[d][p] <= published'[p]
    BY <1>u, <1>n
  <2>2. ToCome(d, p) => ToCome(d, p)'
    BY <1>u, ToComeKept
  <2> QED
    BY <1>u, <2>1, <2>2 DEF CatchUpInv
<1>1. ASSUME NEW p \in Pane, Publish(p) PROVE CatchUpInv'
  <2>1. \A q \in Pane : published'[q] \in Nat /\ published[q] <= published'[q]
    BY <1>1, <1>n, PublishedAssumption DEF Publish, TypeOK, Number
  <2> QED
    BY <1>1, <2>1, <1>u DEF Publish
<1>2. ASSUME NEW c \in Client, Open(c) PROVE CatchUpInv'
  <2>1. \A d \in Client : d # c => last'[d] = last[d] /\ broken'[d] = broken[d]
    BY <1>2 DEF Open, TypeOK
  <2> QED
    BY <1>2, <2>1, <1>l DEF Open
<1>3. ASSUME NEW c \in Client, DrainLagged(c) PROVE CatchUpInv'
  BY <1>3, <1>s DEF DrainLagged, ToCome
<1>4. ASSUME NEW c \in Client, DrainOutput(c) PROVE CatchUpInv'
  <2> DEFINE f == [pane |-> Head(todo[c]), n |-> next[c][Head(todo[c])]]
  <2>1. /\ DOMAIN frames[c] \subseteq DOMAIN frames'[c]
        /\ \A i \in DOMAIN frames[c] : frames'[c][i] = frames[c][i]
    <3>1. frames'[c] = Append(frames[c], f) /\ frames[c] \in Seq(Frame)
      BY <1>4 DEF DrainOutput, TypeOK
    <3> HIDE DEF f
    <3> QED
      BY <3>1
  <2>2. \A d \in Client : d # c => frames'[d] = frames[d]
    BY <1>4 DEF DrainOutput, TypeOK
  <2>3. \A p \in pane_subs[c] : ToCome(c, p) => ToCome(c, p)'
    BY <1>4, <2>1 DEF DrainOutput, ToCome
  <2> QED
    BY <1>4, <2>2, <2>3, <1>s DEF DrainOutput
<1>5. ASSUME NEW c \in Client, DrainEmpty(c) PROVE CatchUpInv'
  <2> DEFINE q == Head(todo[c])
  <2>1. /\ todo[c] \in Seq(Pane) /\ todo[c] # <<>> /\ q = todo[c][1]
        /\ todo'[c] = Tail(todo[c])
        /\ \A d \in Client : d # c => todo'[d] = todo[d]
    BY <1>5 DEF DrainEmpty, TypeOK
  <2>2. \A i \in DOMAIN todo[c] : i # 1 => i - 1 \in DOMAIN todo'[c] /\ todo'[c][i - 1] = todo[c][i]
    BY <2>1
  <2>3. ASSUME NEW p \in pane_subs[c], ~broken[c], ToCome(c, p) PROVE ToCome(c, p)'
    <3>1. p \in Pane
      BY DEF TypeOK
    <3>2. CASE p = q
      <4>1. \/ last[c][p] = published[p]
            \/ \E i \in DOMAIN frames[c] : frames[c][i].pane = p /\ frames[c][i].n = published[p]
        BY <1>5, <2>3, <3>2, EmptyMeansNewest DEF DrainEmpty
      <4> QED
        BY <1>5, <3>1, <4>1, <1>n DEF DrainEmpty, ToCome
    <3>3. CASE p # q
      BY <1>5, <2>1, <2>2, <2>3, <3>3 DEF DrainEmpty, ToCome
    <3> QED
      BY <3>2, <3>3
  <2> QED
    BY <1>5, <2>1, <2>3, <1>s DEF DrainEmpty
<1>6. ASSUME NEW c \in Client, DrainDone(c) PROVE CatchUpInv'
  <2>1. \A d \in Client : d # c => at'[d] = at[d]
    BY <1>6 DEF DrainDone, TypeOK
  <2>2. \A p \in pane_subs[c] : ToCome(c, p) => ToCome(c, p)'
    BY <1>6 DEF DrainDone, ToCome
  <2> QED
    BY <1>6, <2>1, <2>2, <1>s DEF DrainDone
<1>7. ASSUME NEW c \in Client, SendFrame(c) PROVE CatchUpInv'
  <2> DEFINE f == Head(frames[c])
  <2>1. /\ frames[c] \in Seq(Frame) /\ frames[c] # <<>>
        /\ frames'[c] = Tail(frames[c])
        /\ \A d \in Client : d # c => frames'[d] = frames[d] /\ last'[d] = last[d]
    BY <1>7 DEF SendFrame, TypeOK
  <2>2. /\ f = frames[c][1] /\ f \in Frame
        /\ \A i \in DOMAIN frames[c] : i # 1 => i - 1 \in DOMAIN frames'[c] /\ frames'[c][i - 1] = frames[c][i]
    BY <2>1
  <2>3. f.pane \in Pane /\ f.n \in Nat
    BY <2>2, PublishedAssumption DEF Frame, Number
  <2>4. ASSUME NEW p \in pane_subs[c], ~broken[c], ToCome(c, p) PROVE ToCome(c, p)'
    <3>1. p \in Pane
      BY DEF TypeOK
    <3>2. last'[c] = [last[c] EXCEPT ![f.pane] = f.n]
      BY <1>7, <2>4 DEF SendFrame, TypeOK
    <3>3. last[c][f.pane] < f.n
      <4>1. 1 \in DOMAIN frames[c]
        BY <2>1
      <4> QED
        BY <2>2, <2>3, <4>1 DEF StreamInv
    <3>4. last'[c][p] \in Nat /\ last'[c][p] >= last[c][p]
      BY <3>1, <3>2, <3>3, <2>3, <1>n DEF TypeOK
    <3>5. CASE last[c][p] >= due[c][p]
      BY <1>7, <3>1, <3>4, <3>5, <1>n DEF SendFrame, ToCome
    <3>6. CASE \E i \in DOMAIN frames[c] : frames[c][i].pane = p /\ frames[c][i].n >= due[c][p]
      <4>1. PICK i \in DOMAIN frames[c] : frames[c][i].pane = p /\ frames[c][i].n >= due[c][p]
        BY <3>6
      <4>2. CASE i = 1
        <5>1. f.pane = p /\ f.n >= due[c][p]
          BY <2>2, <4>1, <4>2
        <5>2. last'[c][p] = f.n
          BY <3>1, <3>2, <5>1 DEF TypeOK
        <5> QED
          BY <1>7, <5>1, <5>2 DEF SendFrame, ToCome
      <4>3. CASE i # 1
        BY <1>7, <2>2, <4>1, <4>3 DEF SendFrame, ToCome
      <4> QED
        BY <4>2, <4>3
    <3> QED
      BY <1>7, <2>4, <3>5, <3>6 DEF SendFrame, ToCome
  <2> QED
    BY <1>7, <2>1, <2>4, <1>s DEF SendFrame
<1>8. ASSUME NEW c \in Client, SendDone(c) \/ Request(c) PROVE CatchUpInv'
  <2>1. \A d \in Client : d # c => at'[d] = at[d]
    BY <1>8 DEF SendDone, Request, TypeOK
  <2>2. \A p \in pane_subs[c] : ToCome(c, p) => ToCome(c, p)'
    BY <1>8 DEF SendDone, Request, ToCome
  <2> QED
    BY <1>8, <2>1, <2>2, <1>s DEF SendDone, Request
<1>9. ASSUME NEW c \in Client, Tick(c) \/ RequestDone(c) PROVE CatchUpInv'
  <2>1. /\ Loop(c, pane_subs[c]) /\ pane_subs[c] \in SUBSET Pane
        /\ pane_subs' = [pane_subs EXCEPT ![c] = pane_subs[c]]
        /\ UNCHANGED <<published, frames, last, broken>>
    BY <1>9 DEF Tick, RequestDone, TypeOK
  <2> QED
    BY <2>1, <1>l
<1>10. ASSUME NEW c \in Client, NEW p \in Pane, Subscribe(c, p) PROVE CatchUpInv'
  <2>1. /\ Loop(c, pane_subs[c] \cup {p}) /\ pane_subs[c] \cup {p} \in SUBSET Pane
        /\ pane_subs' = [pane_subs EXCEPT ![c] = pane_subs[c] \cup {p}]
        /\ UNCHANGED <<published, frames, broken>>
        /\ \A d \in Client : d # c => last'[d] = last[d]
    BY <1>10 DEF Subscribe, TypeOK
  <2> QED
    BY <2>1, <1>l
<1>11. ASSUME NEW c \in Client, NEW p \in Pane, Unsubscribe(c, p) PROVE CatchUpInv'
  <2>1. /\ Loop(c, pane_subs[c] \ {p}) /\ pane_subs[c] \ {p} \in SUBSET Pane
        /\ pane_subs' = [pane_subs EXCEPT ![c] = pane_subs[c] \ {p}]
        /\ UNCHANGED <<published, frames, last, broken>>
    BY <1>11 DEF Unsubscribe, TypeOK
  <2> QED
    BY <2>1, <1>l
<1>12. ASSUME NEW c \in Client, Break(c) PROVE CatchUpInv'
  <2>1. \A d \in Client, p \in Pane :
          p \in pane_subs'[d] /\ ~broken'[d] => p \in pane_subs[d] /\ ~broken[d]
    BY <1>12 DEF Break, TypeOK
  <2> QED
    BY <1>12, <2>1, <1>n, <1>u DEF Break
<1>13. ASSUME NEW c \in Client, Close(c) PROVE CatchUpInv'
  <2> SUFFICES ASSUME NEW d \in Client, NEW p \in Pane
               PROVE  /\ due[d][p] <= published[p]
                      /\ p \in pane_subs'[d] /\ ~broken[d] => ToCome(d, p)'
    BY <1>13 DEF Close, CatchUpInv
  <2>1. CASE d = c
    BY <1>13, <2>1, <1>n DEF Close, TypeOK
  <2>2. CASE d # c
    <3>1. at'[d] = at[d] /\ pane_subs'[d] = pane_subs[d]
      BY <1>13, <2>2 DEF Close, TypeOK
    <3> QED
      BY <1>13, <3>1, <1>n, ToComeKept DEF Close, CatchUpInv
  <2> QED
    BY <2>1, <2>2
<1>14. CASE UNCHANGED vars
  <2>1. /\ UNCHANGED <<at, todo, due, last, frames, published, pane_subs, broken>>
        /\ \A p \in Pane : published'[p] \in Nat /\ published[p] <= published'[p]
    BY <1>14, PublishedAssumption DEF vars, TypeOK, Number
  <2> QED
    BY <2>1, <1>u
<1> QED
  BY <1>1, <1>2, <1>3, <1>4, <1>5, <1>6, <1>7, <1>8, <1>9, <1>10, <1>11, <1>12, <1>13, <1>14
     DEF Next, Task, Drain

(* When a task turns to the next message, its client has been sent what    *)
(* was the newest output of each of its panes when the pass began, or a    *)
(* later one, however far its receivers had fallen behind: the outputs     *)
(* that a channel drops are older than those it still retains              *)
(* (session_handler.rs:482-505).                                           *)
THEOREM SlowClientsCatchUp == Spec => []PassesCatchUp
<1>1. ASSUME TypeOK, SubscribedInv, CatchUpInv, NEW c \in Client, NEW p \in pane_subs[c],
             at[c] = "select", ~broken[c]
      PROVE  last[c][p] >= due[c][p]
  <2>1. p \in Pane /\ frames[c] = <<>>
    BY <1>1 DEF TypeOK, SubscribedInv
  <2>2. ToCome(c, p)
    BY <1>1, <2>1 DEF CatchUpInv
  <2> QED
    BY <1>1, <2>1, <2>2 DEF ToCome
<1>2. TypeOK /\ SubscribedInv /\ CatchUpInv => PassesCatchUp
  BY <1>1 DEF PassesCatchUp
<1> QED
  BY <1>2, InitTypes, NextTypes, InitSubscribed, NextSubscribed, InitStream, NextStream,
     InitCatchUp, NextCatchUp, PTL DEF Spec

=============================================================================
