------------------------- MODULE AgentWebRtcProofs -------------------------
(***************************************************************************)
(* What AgentWebRtc promises, for any number of offers, candidates and     *)
(* outputs and any order of the callbacks.                                 *)
(***************************************************************************)
EXTENDS AgentWebRtc, TLAPS

(* Offers are made one after the other, when the one before has failed,    *)
(* and reach the agent in this order.                                      *)
OffersInOrder ==
  /\ \A j, k \in Offer : j < k /\ b[k] # "none" => b[j] = "closed"
  /\ \A k \in Offer : pc[k] # "none" => b[k] # "none"
  /\ \A i \in DOMAIN to_agent : to_agent[i].t = "webrtc_offer" =>
       /\ b[to_agent[i].n] # "none"
       /\ \A k \in Offer : pc[k] # "none" => k < to_agent[i].n
       /\ \A h \in 1 .. i - 1 : to_agent[h].t = "webrtc_offer" => to_agent[h].n < to_agent[i].n

(* At most one peer connection is being made or open, that of the newest   *)
(* offer the agent has seen, and an open one is stored.                    *)
OnePeer ==
  /\ \A j, k \in Offer : j < k /\ pc[j] \in {"creating", "open"} => pc[k] = "none"
  /\ \A k \in Offer : pc[k] = "creating" => at = "answer"
  /\ \A k \in Offer : pc[k] = "open" => webrtc_pc = k
  /\ webrtc_pc # 0 => pc[webrtc_pc] = "open"
  /\ at = "answer" => webrtc_pc = 0

(* A channel is open while its connection is.                              *)
ChannelsOfPeers == \A k \in Offer : dc[k] = "open" => pc[k] = "open"

IInv == TypeOK /\ OffersInOrder /\ OnePeer /\ ChannelsOfPeers

LEMMA Bounds == /\ MaxOffers \in Nat /\ MaxIce \in Nat /\ MaxOutputs \in Nat
                /\ DcCap \in Nat /\ DcCap > 0
BY BoundAssumption

-----------------------------------------------------------------------------
(* Type correctness.                                                       *)

LEMMA InitTypes == Init => TypeOK
<1> SUFFICES ASSUME Init PROVE TypeOK
  OBVIOUS
<1>1. 0 \in 0 .. MaxIce /\ 0 \in 0 .. MaxOutputs /\ 0 <= DcCap
  BY Bounds
<1>2. /\ to_agent \in Seq(ToAgent) /\ to_browser \in Seq(ToBrowser)
      /\ webrtc_pending_candidates \in Seq(Offer)
      /\ output_rx \in Seq(1 .. MaxOutputs)
      /\ dc_msg_rx \in Seq({"sub", "r"}) /\ Len(dc_msg_rx) = 0
  BY DEF Init
<1>3. dc_up \in [Offer -> Seq({"sub", "r"})] /\ dc_down \in [Offer -> Seq(1 .. MaxOutputs)]
  BY DEF Init
<1>4. /\ b \in [Offer -> {"none", "offered", "answered", "open", "closed"}]
      /\ pc \in [Offer -> {"none", "creating", "open", "closed", "dropped"}]
      /\ dc \in [Offer -> {"none", "open", "closed"}]
      /\ trickled \in [Offer -> 0 .. MaxIce]
  BY <1>1 DEF Init
<1>5. /\ gone \in BOOLEAN /\ subscribed \in BOOLEAN /\ displaced \in BOOLEAN
      /\ at = "loop" /\ webrtc_pc = 0 /\ webrtc_dc = 0 /\ produced = 0
      /\ shown = {} /\ unsent = {} /\ on_open = {} /\ on_close = {}
  BY DEF Init
<1> QED
  BY <1>1, <1>2, <1>3, <1>4, <1>5 DEF TypeOK

(* What is taken out of a queue, and what is left.                         *)
LEMMA HeadTail ==
  ASSUME NEW S, NEW q \in Seq(S), q # <<>>
  PROVE  Head(q) \in S /\ Tail(q) \in Seq(S) /\ Len(Tail(q)) = Len(q) - 1
OBVIOUS

LEMMA HeadTypes ==
  ASSUME TypeOK, to_agent # <<>>
  PROVE  /\ Head(to_agent).n \in Offer
         /\ Tail(to_agent) \in Seq(ToAgent)
<1>1. Head(to_agent) \in ToAgent /\ Tail(to_agent) \in Seq(ToAgent)
  BY HeadTail DEF TypeOK
<1> QED
  BY <1>1 DEF ToAgent

LEMMA ClosePcTypes ==
  ASSUME TypeOK, NEW k \in Offer,
         NEW pcs \in [Offer -> {"none", "creating", "open", "closed", "dropped"}],
         ClosePc(k, pcs)
  PROVE  /\ pc' \in [Offer -> {"none", "creating", "open", "closed", "dropped"}]
         /\ dc' \in [Offer -> {"none", "open", "closed"}]
         /\ on_open' \subseteq Offer /\ on_close' \subseteq Offer
BY DEF ClosePc, TypeOK

LEMMA NextTypes == TypeOK /\ [Next]_vars => TypeOK'
<1> SUFFICES ASSUME TypeOK, [Next]_vars PROVE TypeOK'
  OBVIOUS
<1> USE DEF browser, signals, store, output, upward, peer
<1>a. ASSUME NEW t \in {"webrtc_offer", "webrtc_ice"}, NEW k \in Offer
      PROVE  Append(to_agent, Signal(t, k)) \in Seq(ToAgent)
  <2>1. Signal(t, k) \in ToAgent
    BY DEF Signal, ToAgent
  <2> QED
    BY <2>1 DEF TypeOK
<1>b. ASSUME NEW t \in {"webrtc_answer", "webrtc_error"}, NEW k \in Offer
      PROVE  Append(to_browser, Signal(t, k)) \in Seq(ToBrowser)
  <2>1. Signal(t, k) \in ToBrowser
    BY DEF Signal, ToBrowser
  <2> QED
    BY <2>1 DEF TypeOK
<1>c. ASSUME NEW n \in 1 .. MaxOutputs
      PROVE  Append(to_browser, Signal("o", n)) \in Seq(ToBrowser)
  <2>1. Signal("o", n) \in ToBrowser
    BY DEF Signal, ToBrowser
  <2> QED
    BY <2>1 DEF TypeOK
<1>1. CASE SendOffer
  BY <1>1, <1>a DEF SendOffer, TypeOK
<1>2. CASE TakeSignal
  <2>1. b' \in [Offer -> {"none", "offered", "answered", "open", "closed"}]
    BY <1>2 DEF TakeSignal, TypeOK
  <2>2. to_browser' \in Seq(ToBrowser)
    BY <1>2, HeadTail DEF TakeSignal, TypeOK
  <2>3. UNCHANGED <<trickled, gone, to_agent, at, store, output, upward, peer, displaced>>
    BY <1>2 DEF TakeSignal
  <2> QED
    BY <2>1, <2>2, <2>3 DEF TypeOK
<1>3. CASE Leave
  <2>1. b' \in [Offer -> {"none", "offered", "answered", "open", "closed"}]
    BY <1>3 DEF Leave, TypeOK
  <2>2. /\ to_browser' \in Seq(ToBrowser) /\ gone' \in BOOLEAN
        /\ dc_down' \in [Offer -> Seq(1 .. MaxOutputs)]
    BY <1>3 DEF Leave, TypeOK
  <2>3. UNCHANGED <<trickled, to_agent, at, store, produced, output_rx, shown, unsent,
                    upward, peer, displaced>>
    BY <1>3 DEF Leave
  <2> QED
    BY <2>1, <2>2, <2>3 DEF TypeOK
<1>4. ASSUME NEW k \in Offer, Trickle(k) PROVE TypeOK'
  <2>1. trickled' \in [Offer -> 0 .. MaxIce]
    BY <1>4, Bounds DEF Trickle, TypeOK
  <2>2. to_agent' \in Seq(ToAgent)
    BY <1>4, <1>a DEF Trickle
  <2>3. UNCHANGED <<b, gone, to_browser, at, store, output, upward, peer, displaced>>
    BY <1>4 DEF Trickle
  <2> QED
    BY <2>1, <2>2, <2>3 DEF TypeOK
<1>5. ASSUME NEW k \in Offer, BrowserOpens(k) PROVE TypeOK'
  <2>1. /\ b' \in [Offer -> {"none", "offered", "answered", "open", "closed"}]
        /\ dc_up' \in [Offer -> Seq({"sub", "r"})]
    BY <1>5 DEF BrowserOpens, TypeOK
  <2>2. UNCHANGED <<trickled, gone, signals, at, store, output, subscribed, dc_msg_rx,
                    peer, displaced>>
    BY <1>5 DEF BrowserOpens
  <2> QED
    BY <2>1, <2>2 DEF TypeOK
<1>6. ASSUME NEW k \in Offer, Timeout(k) PROVE TypeOK'
  BY <1>6 DEF Timeout, TypeOK
<1>7. ASSUME NEW k \in Offer, ShowOutput(k) PROVE TypeOK'
  <2>1. dc_down[k] \in Seq(1 .. MaxOutputs) /\ dc_down[k] # <<>>
    BY <1>7 DEF ShowOutput, TypeOK
  <2>2. Head(dc_down[k]) \in 1 .. MaxOutputs /\ Tail(dc_down[k]) \in Seq(1 .. MaxOutputs)
    BY <2>1, HeadTail
  <2>3. shown' \subseteq 1 .. MaxOutputs /\ dc_down' \in [Offer -> Seq(1 .. MaxOutputs)]
    BY <1>7, <2>2 DEF ShowOutput, TypeOK
  <2>4. UNCHANGED <<browser, signals, at, store, produced, output_rx, unsent, upward, peer, displaced>>
    BY <1>7 DEF ShowOutput
  <2> QED
    BY <2>3, <2>4 DEF TypeOK
<1>8. CASE HandleOffer
  <2> DEFINE n == Head(to_agent).n
             pcs == [pc EXCEPT ![n] = "creating"]
  <2>1. n \in Offer /\ to_agent' \in Seq(ToAgent)
    BY <1>8, HeadTypes DEF HandleOffer
  <2>2. pcs \in [Offer -> {"none", "creating", "open", "closed", "dropped"}]
    BY <2>1 DEF TypeOK
  <2>3. \/ webrtc_pc # 0 /\ ClosePc(webrtc_pc, pcs)
        \/ pc' = pcs /\ UNCHANGED <<dc, on_open, on_close>>
    BY <1>8 DEF HandleOffer
  <2>4. webrtc_pc # 0 => webrtc_pc \in Offer
    BY DEF TypeOK
  <2> HIDE DEF pcs
  <2>5. /\ pc' \in [Offer -> {"none", "creating", "open", "closed", "dropped"}]
        /\ dc' \in [Offer -> {"none", "open", "closed"}]
        /\ on_open' \subseteq Offer /\ on_close' \subseteq Offer
    <3>1. CASE webrtc_pc # 0 /\ ClosePc(webrtc_pc, pcs)
      BY <3>1, <2>2, <2>4, ClosePcTypes
    <3>2. CASE pc' = pcs /\ UNCHANGED <<dc, on_open, on_close>>
      BY <3>2, <2>2 DEF TypeOK
    <3> QED
      BY <2>3, <3>1, <3>2
  <2>6. /\ webrtc_pc' = 0 /\ webrtc_dc' = 0 /\ webrtc_pending_candidates' = <<>>
        /\ at' = "answer"
        /\ UNCHANGED <<browser, to_browser, output, upward, displaced>>
    BY <1>8 DEF HandleOffer
  <2>7. webrtc_pending_candidates' \in Seq(Offer)
    BY <2>6
  <2>8. to_agent' \in Seq(ToAgent)
    BY <2>1
  <2> HIDE DEF n
  <2> QED
    BY <2>5, <2>6, <2>7, <2>8 DEF TypeOK
<1>9. ASSUME NEW k \in Offer, Answer(k) PROVE TypeOK'
  BY <1>9, <1>b DEF Answer, TypeOK
<1>10. CASE HandleIce
  <2>1. Head(to_agent).n \in Offer /\ to_agent' \in Seq(ToAgent)
    BY <1>10, HeadTypes DEF HandleIce
  <2>2. webrtc_pending_candidates' \in Seq(Offer)
    BY <1>10, <2>1 DEF HandleIce, TypeOK
  <2>3. UNCHANGED <<browser, to_browser, at, webrtc_pc, webrtc_dc, output, upward, peer,
                    displaced>>
    BY <1>10 DEF HandleIce
  <2> QED
    BY <2>1, <2>2, <2>3 DEF TypeOK
<1>11. CASE HandleDcMessage
  <2>1. /\ dc_msg_rx \in Seq({"sub", "r"}) /\ dc_msg_rx # <<>> /\ Len(dc_msg_rx) <= DcCap
        /\ dc_msg_rx' = Tail(dc_msg_rx)
    BY <1>11 DEF HandleDcMessage, TypeOK
  <2>2. dc_msg_rx' \in Seq({"sub", "r"}) /\ Len(dc_msg_rx') <= DcCap
    BY <2>1, Bounds
  <2>3. subscribed' \in BOOLEAN
    BY <1>11 DEF HandleDcMessage, TypeOK
  <2>4. UNCHANGED <<browser, signals, at, store, output, dc_up, peer, displaced>>
    BY <1>11 DEF HandleDcMessage
  <2> QED
    BY <2>2, <2>3, <2>4 DEF TypeOK
<1>12. CASE ForwardOutput
  <2>1. output_rx \in Seq(1 .. MaxOutputs) /\ output_rx # <<>>
        /\ output_rx' = Tail(output_rx)
    BY <1>12 DEF ForwardOutput, TypeOK
  <2>2. Head(output_rx) \in 1 .. MaxOutputs /\ output_rx' \in Seq(1 .. MaxOutputs)
    BY <2>1, HeadTail
  <2>3. dc_down' \in [Offer -> Seq(1 .. MaxOutputs)]
    <3>1. CASE dc_down' = dc_down
      BY <3>1 DEF TypeOK
    <3>2. CASE /\ Usable(webrtc_dc)
               /\ dc_down' = [dc_down EXCEPT ![webrtc_dc] =
                                IF gone THEN @ ELSE Append(@, Head(output_rx))]
      <4>1. webrtc_dc \in Offer /\ dc_down[webrtc_dc] \in Seq(1 .. MaxOutputs)
        BY <3>2 DEF Usable, TypeOK
      <4>2. Append(dc_down[webrtc_dc], Head(output_rx)) \in Seq(1 .. MaxOutputs)
        BY <4>1, <2>2
      <4> QED
        BY <3>2, <4>1, <4>2 DEF TypeOK
    <3> QED
      BY <1>12, <3>1, <3>2 DEF ForwardOutput, OverChannel
  <2>4. to_browser' \in Seq(ToBrowser)
    <3>1. Append(to_browser, Signal("o", Head(output_rx))) \in Seq(ToBrowser)
      BY <1>c, <2>2
    <3> QED
      BY <1>12, <3>1 DEF ForwardOutput, ToStream, OverChannel, TypeOK
  <2>5. unsent' \subseteq 1 .. MaxOutputs
    BY <1>12, <2>2 DEF ForwardOutput, TypeOK
  <2>6. UNCHANGED <<browser, to_agent, at, store, produced, shown, upward, peer, displaced>>
    BY <1>12 DEF ForwardOutput
  <2> QED
    BY <2>2, <2>3, <2>4, <2>5, <2>6 DEF TypeOK
<1>13. CASE End
  <2>1. /\ pc' \in [Offer -> {"none", "creating", "open", "closed", "dropped"}]
        /\ dc' \in [Offer -> {"none", "open", "closed"}]
        /\ on_open' \subseteq Offer /\ on_close' \subseteq Offer
    BY <1>13, ClosePcTypes DEF End, TypeOK
  <2> QED
    BY <1>13, <2>1 DEF End, TypeOK
<1>14. ASSUME NEW k \in Offer, AgentOpens(k) PROVE TypeOK'
  BY <1>14 DEF AgentOpens, TypeOK
<1>15. ASSUME NEW k \in Offer, OnOpen(k) PROVE TypeOK'
  BY <1>15 DEF OnOpen, TypeOK
<1>16. ASSUME NEW k \in Offer, AgentCloses(k) PROVE TypeOK'
  BY <1>16 DEF AgentCloses, TypeOK
<1>17. ASSUME NEW k \in Offer, OnClose(k) PROVE TypeOK'
  BY <1>17 DEF OnClose, TypeOK
<1>18. ASSUME NEW k \in Offer, OnMessage(k) PROVE TypeOK'
  <2>1. /\ dc_up[k] \in Seq({"sub", "r"}) /\ dc_up[k] # <<>>
        /\ dc_msg_rx \in Seq({"sub", "r"}) /\ Len(dc_msg_rx) < DcCap
        /\ dc_msg_rx' = Append(dc_msg_rx, Head(dc_up[k]))
        /\ dc_up' = [dc_up EXCEPT ![k] = Tail(@)]
    BY <1>18 DEF OnMessage, TypeOK
  <2>2. Head(dc_up[k]) \in {"sub", "r"} /\ Tail(dc_up[k]) \in Seq({"sub", "r"})
    BY <2>1, HeadTail
  <2>3. dc_msg_rx' \in Seq({"sub", "r"}) /\ Len(dc_msg_rx') <= DcCap
    BY <2>1, <2>2, Bounds
  <2>4. dc_up' \in [Offer -> Seq({"sub", "r"})]
    BY <2>1, <2>2 DEF TypeOK
  <2>5. UNCHANGED <<browser, signals, at, store, output, subscribed, peer, displaced>>
    BY <1>18 DEF OnMessage
  <2> QED
    BY <2>3, <2>4, <2>5 DEF TypeOK
<1>19. CASE Prints
  <2>1. produced' \in 1 .. MaxOutputs /\ produced' \in 0 .. MaxOutputs
    BY <1>19, Bounds DEF Prints, TypeOK
  <2>2. output_rx' \in Seq(1 .. MaxOutputs)
    BY <1>19, <2>1 DEF Prints, TypeOK
  <2>3. UNCHANGED <<browser, signals, at, store, shown, dc_down, unsent, upward, peer, displaced>>
    BY <1>19 DEF Prints
  <2> QED
    BY <2>1, <2>2, <2>3 DEF TypeOK
<1>20. CASE UNCHANGED vars
  BY <1>20 DEF vars, TypeOK
<1> QED
  BY <1>1, <1>2, <1>3, <1>4, <1>5, <1>6, <1>7, <1>8, <1>9, <1>10, <1>11, <1>12, <1>13, <1>14,
     <1>15, <1>16, <1>17, <1>18, <1>19, <1>20
     DEF Next, Browser, Session, Callback

(* Every variable has its type, with any number of offers; what waits for  *)
(* the session from data channels fits in its queue (server.rs:145).   *)
THEOREM TypeCorrect == Spec => []TypeOK
<1>1. Init => TypeOK
  BY InitTypes
<1>2. TypeOK /\ [Next]_vars => TypeOK'
  BY NextTypes
<1> QED
  BY <1>1, <1>2, PTL DEF Spec

-----------------------------------------------------------------------------
(* Offers in order.                                                        *)

(* Signals that leave the offers and the peer connections as they are.     *)
LEMMA OrderKept ==
  ASSUME OffersInOrder, to_agent' = to_agent,
         \A k \in Offer : /\ b'[k] = "none" <=> b[k] = "none"
                          /\ b[k] = "closed" => b'[k] = "closed"
                          /\ pc'[k] = "none" <=> pc[k] = "none",
         \A i \in DOMAIN to_agent : to_agent[i].n \in Offer
  PROVE  OffersInOrder'
<1>1. \A j, k \in Offer : j < k /\ b'[k] # "none" => b'[j] = "closed"
  BY DEF OffersInOrder
<1>2. \A k \in Offer : pc'[k] # "none" => b'[k] # "none"
  BY DEF OffersInOrder
<1>3. ASSUME NEW i \in DOMAIN to_agent', to_agent'[i].t = "webrtc_offer"
      PROVE  /\ b'[to_agent'[i].n] # "none"
             /\ \A k \in Offer : pc'[k] # "none" => k < to_agent'[i].n
             /\ \A h \in 1 .. i - 1 : to_agent'[h].t = "webrtc_offer" =>
                                        to_agent'[h].n < to_agent'[i].n
  BY <1>3 DEF OffersInOrder
<1> QED
  BY <1>1, <1>2, <1>3 DEF OffersInOrder

(* The signals that wait are of offers.                                    *)
LEMMA SignalTypes ==
  ASSUME TypeOK
  PROVE  /\ Len(to_agent) \in Nat /\ DOMAIN to_agent = 1 .. Len(to_agent)
         /\ \A i \in DOMAIN to_agent : to_agent[i] \in ToAgent /\ to_agent[i].n \in Offer
<1>1. to_agent \in Seq(ToAgent)
  BY DEF TypeOK
<1>2. \A i \in DOMAIN to_agent : to_agent[i] \in ToAgent
  BY <1>1
<1> QED
  BY <1>1, <1>2 DEF ToAgent

(* A signal that is no offer is sent after the others.                     *)
LEMMA OrderOfTrickle ==
  ASSUME TypeOK, OffersInOrder, NEW k \in Offer, Trickle(k)
  PROVE  OffersInOrder'
<1> DEFINE m == Signal("webrtc_ice", k)
<1>1. /\ to_agent' = Append(to_agent, m) /\ UNCHANGED <<b, pc>>
  BY DEF Trickle, peer
<1>2. m.t = "webrtc_ice"
  BY DEF Signal
<1> HIDE DEF m
<1>3. to_agent \in Seq(ToAgent)
  BY DEF TypeOK
<1>4. ASSUME NEW i \in DOMAIN to_agent', to_agent'[i].t = "webrtc_offer"
      PROVE  i \in DOMAIN to_agent /\ \A h \in 1 .. i : to_agent'[h] = to_agent[h]
  BY <1>1, <1>2, <1>3, <1>4
<1>5. ASSUME NEW i \in DOMAIN to_agent', to_agent'[i].t = "webrtc_offer"
      PROVE  /\ b'[to_agent'[i].n] # "none"
             /\ \A j \in Offer : pc'[j] # "none" => j < to_agent'[i].n
             /\ \A h \in 1 .. i - 1 : to_agent'[h].t = "webrtc_offer" =>
                                        to_agent'[h].n < to_agent'[i].n
  <2>1. i \in 1 .. i /\ \A h \in 1 .. i - 1 : h \in 1 .. i
    BY <1>4, <1>5, <1>3
  <2>2. to_agent[i].t = "webrtc_offer" /\ to_agent'[i] = to_agent[i]
    BY <1>4, <1>5, <2>1
  <2>3. \A h \in 1 .. i - 1 : to_agent'[h] = to_agent[h]
    BY <1>4, <1>5, <2>1
  <2> QED
    BY <1>1, <1>4, <1>5, <2>2, <2>3 DEF OffersInOrder
<1> QED
  BY <1>1, <1>5 DEF OffersInOrder

(* A new offer comes after every one that was made.                        *)
LEMMA OrderOfOffer ==
  ASSUME TypeOK, OffersInOrder, SendOffer
  PROVE  OffersInOrder'
<1>1. PICK k \in Offer : /\ b[k] = "none" /\ \A j \in 1 .. k - 1 : b[j] = "closed"
                         /\ b' = [b EXCEPT ![k] = "offered"]
                         /\ to_agent' = Append(to_agent, Signal("webrtc_offer", k))
  BY DEF SendOffer
<1>2. pc' = pc
  BY DEF SendOffer, peer
<1>3. \A j \in Offer : b[j] # "none" => j < k
  BY <1>1, Bounds DEF OffersInOrder, Offer
<1>4. \A j \in Offer : j < k => b[j] = "closed"
  BY <1>1, Bounds DEF Offer
<1>5. b' \in [Offer -> {"none", "offered", "answered", "open", "closed"}]
      /\ b'[k] = "offered" /\ \A j \in Offer \ {k} : b'[j] = b[j]
  BY <1>1 DEF TypeOK
<1>6. k \in Nat /\ \A j \in Offer : j \in Nat
  BY Bounds DEF Offer
<1>7. \A i, j \in Offer : i < j /\ b'[j] # "none" => b'[i] = "closed"
  <2> SUFFICES ASSUME NEW i \in Offer, NEW j \in Offer, i < j, b'[j] # "none"
               PROVE  b'[i] = "closed"
    OBVIOUS
  <2>1. CASE j = k
    BY <2>1, <1>4, <1>5, <1>6
  <2>2. CASE j # k
    <3>1. b[j] # "none" /\ j < k
      BY <2>2, <1>3, <1>5
    <3>2. i < k
      BY <3>1, <1>6
    <3> QED
      BY <3>2, <1>4, <1>5, <1>6
  <2> QED
    BY <2>1, <2>2
<1>8. \A j \in Offer : pc'[j] # "none" => b'[j] # "none"
  BY <1>2, <1>5 DEF OffersInOrder
<1>9. ASSUME NEW i \in DOMAIN to_agent', to_agent'[i].t = "webrtc_offer"
      PROVE  /\ b'[to_agent'[i].n] # "none"
             /\ \A j \in Offer : pc'[j] # "none" => j < to_agent'[i].n
             /\ \A h \in 1 .. i - 1 : to_agent'[h].t = "webrtc_offer" =>
                                        to_agent'[h].n < to_agent'[i].n
  <2> DEFINE m == Signal("webrtc_offer", k)
  <2>1. to_agent \in Seq(ToAgent) /\ to_agent' = Append(to_agent, m)
    BY <1>1 DEF TypeOK
  <2>2. m.n = k
    BY DEF Signal
  <2> HIDE DEF m
  <2>3. CASE i \in DOMAIN to_agent
    <3>1. /\ to_agent'[i] = to_agent[i]
          /\ \A h \in 1 .. i - 1 : to_agent'[h] = to_agent[h]
      BY <2>1, <2>3
    <3>2. /\ b[to_agent[i].n] # "none"
          /\ \A j \in Offer : pc[j] # "none" => j < to_agent[i].n
          /\ \A h \in 1 .. i - 1 : to_agent[h].t = "webrtc_offer" =>
                                     to_agent[h].n < to_agent[i].n
      BY <1>9, <2>3, <3>1 DEF OffersInOrder
    <3>3. to_agent[i].n \in Offer
      BY <2>3, SignalTypes
    <3>4. b'[to_agent[i].n] # "none"
      BY <3>2, <3>3, <1>5
    <3> QED
      BY <3>1, <3>2, <3>4, <1>2
  <2>4. CASE i \notin DOMAIN to_agent
    <3>1. /\ to_agent'[i] = m
          /\ \A h \in 1 .. i - 1 : h \in DOMAIN to_agent /\ to_agent'[h] = to_agent[h]
      BY <2>1, <2>4
    <3>2. ASSUME NEW h \in 1 .. i - 1, to_agent'[h].t = "webrtc_offer"
          PROVE  to_agent'[h].n < k
      <4>1. h \in DOMAIN to_agent /\ to_agent[h].t = "webrtc_offer"
            /\ to_agent'[h] = to_agent[h]
        BY <3>1, <3>2
      <4>2. b[to_agent[h].n] # "none" /\ to_agent[h].n \in Offer
        BY <4>1, SignalTypes DEF OffersInOrder
      <4> QED
        BY <4>1, <4>2, <1>3
    <3>3. \A j \in Offer : pc'[j] # "none" => j < k
      BY <1>2, <1>3 DEF OffersInOrder
    <3> QED
      BY <3>1, <3>2, <3>3, <2>2, <1>5
  <2> QED
    BY <2>3, <2>4
<1> QED
  BY <1>7, <1>8, <1>9 DEF OffersInOrder

(* What is left in the queue when its head is taken.                       *)
LEMMA OrderOfTail ==
  ASSUME TypeOK, OffersInOrder, to_agent # <<>>, to_agent' = Tail(to_agent), b' = b,
         \A k \in Offer : pc'[k] # "none" =>
           \/ pc[k] # "none"
           \/ Head(to_agent).t = "webrtc_offer" /\ k = Head(to_agent).n
  PROVE  OffersInOrder'
<1>1. to_agent \in Seq(ToAgent) /\ to_agent # <<>> /\ to_agent' = Tail(to_agent)
  BY DEF TypeOK
<1>2. 1 \in DOMAIN to_agent /\ Head(to_agent) = to_agent[1]
  BY <1>1
<1>3. \A k \in Offer : pc'[k] # "none" => b'[k] # "none"
  BY <1>2 DEF OffersInOrder
<1>4. ASSUME NEW i \in DOMAIN to_agent', to_agent'[i].t = "webrtc_offer"
      PROVE  /\ b'[to_agent'[i].n] # "none"
             /\ \A k \in Offer : pc'[k] # "none" => k < to_agent'[i].n
             /\ \A h \in 1 .. i - 1 : to_agent'[h].t = "webrtc_offer" =>
                                        to_agent'[h].n < to_agent'[i].n
  <2>1. /\ i \in Nat /\ i + 1 \in DOMAIN to_agent /\ to_agent'[i] = to_agent[i + 1]
        /\ 1 \in 1 .. (i + 1) - 1
        /\ \A h \in 1 .. i - 1 : h + 1 \in 1 .. (i + 1) - 1 /\ to_agent'[h] = to_agent[h + 1]
    BY <1>1
  <2>2. /\ b[to_agent[i + 1].n] # "none"
        /\ \A k \in Offer : pc[k] # "none" => k < to_agent[i + 1].n
        /\ \A h \in 1 .. (i + 1) - 1 : to_agent[h].t = "webrtc_offer" =>
                                         to_agent[h].n < to_agent[i + 1].n
    BY <1>4, <2>1 DEF OffersInOrder
  <2>3. to_agent[1].t = "webrtc_offer" => to_agent[1].n < to_agent[i + 1].n
    BY <2>1, <2>2
  <2>4. \A k \in Offer : pc'[k] # "none" => k < to_agent[i + 1].n
    BY <2>2, <2>3, <1>2
  <2>5. \A h \in 1 .. i - 1 : to_agent'[h].t = "webrtc_offer" =>
                                to_agent'[h].n < to_agent[i + 1].n
    BY <2>1, <2>2
  <2> QED
    BY <2>1, <2>2, <2>4, <2>5
<1>5. \A j, k \in Offer : j < k /\ b'[k] # "none" => b'[j] = "closed"
  BY DEF OffersInOrder
<1> QED
  BY <1>3, <1>4, <1>5 DEF OffersInOrder

LEMMA OrderNext == TypeOK /\ OffersInOrder /\ OnePeer /\ [Next]_vars => OffersInOrder'
<1> SUFFICES ASSUME TypeOK, OffersInOrder, OnePeer, [Next]_vars PROVE OffersInOrder'
  OBVIOUS
<1>a. \A i \in DOMAIN to_agent : to_agent[i].n \in Offer
  BY SignalTypes
<1>b. ASSUME UNCHANGED <<to_agent, b, pc>> PROVE OffersInOrder'
  BY <1>a, <1>b, OrderKept
<1>c. ASSUME UNCHANGED <<to_agent, pc>>,
             \A k \in Offer : /\ b'[k] = "none" <=> b[k] = "none"
                              /\ b[k] = "closed" => b'[k] = "closed"
      PROVE  OffersInOrder'
  BY <1>a, <1>c, OrderKept
<1>d. ASSUME UNCHANGED <<to_agent, b>>, \A k \in Offer : pc'[k] = "none" <=> pc[k] = "none"
      PROVE  OffersInOrder'
  BY <1>a, <1>d, OrderKept
<1>1. CASE SendOffer
  BY <1>1, OrderOfOffer
<1>2. CASE TakeSignal
  <2>1. \/ b' = b
        \/ b[Head(to_browser).n] = "offered"
           /\ b' = [b EXCEPT ![Head(to_browser).n] = "answered"]
    BY <1>2 DEF TakeSignal
  <2>2. \A k \in Offer : (b'[k] = "none" <=> b[k] = "none")
                         /\ (b[k] = "closed" => b'[k] = "closed")
    BY <2>1 DEF TypeOK
  <2> QED
    BY <1>2, <2>2, <1>c DEF TakeSignal, peer
<1>3. CASE Leave
  <2>1. \A k \in Offer : (b'[k] = "none" <=> b[k] = "none")
                         /\ (b[k] = "closed" => b'[k] = "closed")
    BY <1>3 DEF Leave
  <2> QED
    BY <1>3, <2>1, <1>c DEF Leave, peer
<1>4. ASSUME NEW k \in Offer, Trickle(k) PROVE OffersInOrder'
  BY <1>4, OrderOfTrickle
<1>5. ASSUME NEW k \in Offer, BrowserOpens(k) \/ Timeout(k) PROVE OffersInOrder'
  <2>1. \A j \in Offer : (b'[j] = "none" <=> b[j] = "none")
                         /\ (b[j] = "closed" => b'[j] = "closed")
    BY <1>5 DEF BrowserOpens, Timeout, TypeOK
  <2> QED
    BY <1>5, <2>1, <1>c DEF BrowserOpens, Timeout, signals, peer
<1>6. ASSUME NEW k \in Offer, ShowOutput(k) PROVE OffersInOrder'
  BY <1>6, <1>b DEF ShowOutput, browser, signals, peer
<1>7. CASE HandleOffer
  <2> DEFINE n == Head(to_agent).n
  <2>1. /\ n \in Offer /\ to_agent # <<>> /\ to_agent' = Tail(to_agent) /\ b' = b
        /\ Head(to_agent).t = "webrtc_offer"
    BY <1>7, HeadTypes DEF HandleOffer, browser
  <2>2. \A k \in Offer \ {n} : pc'[k] # "none" => pc[k] # "none"
    <3>1. CASE webrtc_pc # 0 /\ ClosePc(webrtc_pc, [pc EXCEPT ![n] = "creating"])
      <4>1. webrtc_pc \in Offer /\ pc[webrtc_pc] = "open"
        BY <3>1 DEF TypeOK, OnePeer
      <4> QED
        BY <3>1, <4>1 DEF ClosePc, TypeOK
    <3>2. CASE pc' = [pc EXCEPT ![n] = "creating"]
      BY <3>2 DEF TypeOK
    <3> QED
      BY <1>7, <3>1, <3>2 DEF HandleOffer
  <2> QED
    BY <2>1, <2>2, OrderOfTail
<1>8. ASSUME NEW k \in Offer, Answer(k) PROVE OffersInOrder'
  <2>1. \A j \in Offer : pc'[j] = "none" <=> pc[j] = "none"
    BY <1>8 DEF Answer, TypeOK
  <2> QED
    BY <1>8, <2>1, <1>d DEF Answer, browser
<1>9. CASE HandleIce
  BY <1>9, OrderOfTail DEF HandleIce, browser, peer
<1>10. CASE HandleDcMessage \/ ForwardOutput
  BY <1>10, <1>b DEF HandleDcMessage, ForwardOutput, browser, signals, peer
<1>11. CASE End
  <2>1. \A j \in Offer : pc'[j] = "none" <=> pc[j] = "none"
    <3>1. CASE webrtc_pc # 0 /\ ClosePc(webrtc_pc, pc)
      <4>1. webrtc_pc \in Offer /\ pc[webrtc_pc] = "open"
        BY <3>1 DEF TypeOK, OnePeer
      <4> QED
        BY <3>1, <4>1 DEF ClosePc, TypeOK
    <3>2. CASE pc' = pc
      BY <3>2
    <3> QED
      BY <1>11, <3>1, <3>2 DEF End, peer
  <2> QED
    BY <1>11, <2>1, <1>d DEF End, browser, signals
<1>12. ASSUME NEW k \in Offer, Callback(k) PROVE OffersInOrder'
  BY <1>12, <1>b
     DEF Callback, AgentOpens, OnOpen, AgentCloses, OnClose, OnMessage, browser, signals, peer
<1>13. CASE Prints
  BY <1>13, <1>b DEF Prints, browser, signals, peer
<1>14. CASE UNCHANGED vars
  BY <1>14, <1>b DEF vars, browser, signals, peer
<1> QED
  BY <1>1, <1>2, <1>3, <1>4, <1>5, <1>6, <1>7, <1>8, <1>9, <1>10, <1>11, <1>12, <1>13, <1>14
     DEF Next, Browser, Session

-----------------------------------------------------------------------------
(* One peer connection.                                                    *)

LEMMA OnePeerNext == TypeOK /\ OffersInOrder /\ OnePeer /\ [Next]_vars => OnePeer'
<1> SUFFICES ASSUME TypeOK, OffersInOrder, OnePeer, [Next]_vars PROVE OnePeer'
  OBVIOUS
<1>a. ASSUME UNCHANGED <<pc, webrtc_pc, at>> PROVE OnePeer'
  BY <1>a DEF OnePeer
<1>b. 0 \notin Offer /\ \A k \in Offer : k \in Nat
  BY DEF Offer
<1>1. CASE HandleOffer
  <2> DEFINE n == Head(to_agent).n
             pcs == [pc EXCEPT ![n] = "creating"]
  <2>1. n \in Offer /\ at = "loop" /\ at' = "answer" /\ webrtc_pc' = 0
    BY <1>1, HeadTypes DEF HandleOffer
  <2>2. \A k \in Offer : pc[k] # "none" => k < n
    <3>1. 1 \in DOMAIN to_agent /\ Head(to_agent) = to_agent[1]
          /\ to_agent[1].t = "webrtc_offer"
      <4>1. to_agent \in Seq(ToAgent) /\ to_agent # <<>> /\ Head(to_agent).t = "webrtc_offer"
        BY <1>1 DEF HandleOffer, TypeOK
      <4> QED
        BY <4>1
    <3> QED
      BY <3>1 DEF OffersInOrder
  <2>3. \A k \in Offer : pc[k] # "creating"
    BY <2>1 DEF OnePeer
  <2>4. pcs \in [Offer -> {"none", "creating", "open", "closed", "dropped"}]
        /\ pcs[n] = "creating" /\ \A k \in Offer \ {n} : pcs[k] = pc[k]
    BY <2>1 DEF TypeOK
  <2>5. \/ /\ webrtc_pc # 0
           /\ pc' = [pcs EXCEPT ![webrtc_pc] = "closed"]
        \/ webrtc_pc = 0 /\ pc' = pcs
    BY <1>1 DEF HandleOffer, ClosePc
  <2>6. webrtc_pc # 0 => webrtc_pc \in Offer /\ pc[webrtc_pc] = "open"
    BY DEF OnePeer, TypeOK
  <2> HIDE DEF pcs, n
  <2>7. /\ pc'[n] = "creating"
        /\ \A k \in Offer \ {n} : pc'[k] \notin {"creating", "open"}
                                  /\ (pc'[k] # "none" => pc[k] # "none")
    <3>1. CASE webrtc_pc = 0
      <4>1. \A k \in Offer : pc[k] # "open"
        BY <3>1, <1>b DEF OnePeer
      <4>2. pc' = pcs
        BY <3>1, <2>5
      <4> QED
        BY <4>1, <4>2, <2>3, <2>4
    <3>2. CASE webrtc_pc # 0
      <4>1. webrtc_pc # n
        BY <3>2, <2>1, <2>2, <2>6, <1>b
      <4>2. \A k \in Offer : pc[k] = "open" => k = webrtc_pc
        BY DEF OnePeer
      <4>3. pc' = [pcs EXCEPT ![webrtc_pc] = "closed"] /\ webrtc_pc \in Offer
        BY <3>2, <2>5, <2>6
      <4>4. pc'[webrtc_pc] = "closed" /\ \A k \in Offer \ {webrtc_pc} : pc'[k] = pcs[k]
        BY <4>3, <2>4
      <4>5. pc'[n] = "creating"
        BY <4>1, <4>4, <2>1, <2>4
      <4>6. ASSUME NEW k \in Offer \ {n}
            PROVE  pc'[k] \notin {"creating", "open"} /\ (pc'[k] # "none" => pc[k] # "none")
        <5>1. CASE k = webrtc_pc
          BY <5>1, <4>4, <2>6, <3>2
        <5>2. CASE k # webrtc_pc
          <6>1. pc'[k] = pc[k]
            BY <5>2, <4>4, <2>4
          <6> QED
            BY <6>1, <5>2, <4>2, <2>3
        <5> QED
          BY <5>1, <5>2
      <4> QED
        BY <4>5, <4>6
    <3> QED
      BY <3>1, <3>2
  <2>8. \A j, k \in Offer : j < k /\ pc'[j] \in {"creating", "open"} => pc'[k] = "none"
    <3> SUFFICES ASSUME NEW j \in Offer, NEW k \in Offer, j < k, pc'[j] \in {"creating", "open"}
                 PROVE  pc'[k] = "none"
      OBVIOUS
    <3>1. j = n /\ k # n
      BY <2>7, <2>1, <1>b
    <3>2. pc[k] = "none"
      BY <3>1, <2>2, <2>1, <1>b
    <3> QED
      BY <3>1, <3>2, <2>7
  <2> QED
    BY <2>1, <2>7, <2>8 DEF OnePeer
<1>2. ASSUME NEW k \in Offer, Answer(k) PROVE OnePeer'
  <2>1. at = "answer" /\ pc[k] = "creating" /\ at' = "loop" /\ webrtc_pc = 0
    BY <1>2 DEF Answer, OnePeer
  <2>2. /\ pc' \in [Offer -> {"none", "creating", "open", "closed", "dropped"}]
        /\ \A j \in Offer \ {k} : pc'[j] = pc[j]
        /\ \/ pc'[k] = "open" /\ webrtc_pc' = k
           \/ pc'[k] = "dropped" /\ webrtc_pc' = webrtc_pc
    <3>1. \/ pc' = [pc EXCEPT ![k] = "open"] /\ webrtc_pc' = k
          \/ pc' = [pc EXCEPT ![k] = "dropped"] /\ webrtc_pc' = webrtc_pc
      BY <1>2 DEF Answer
    <3>2. pc \in [Offer -> {"none", "creating", "open", "closed", "dropped"}]
      BY DEF TypeOK
    <3>3. CASE pc' = [pc EXCEPT ![k] = "open"] /\ webrtc_pc' = k
      BY <3>2, <3>3
    <3>4. CASE pc' = [pc EXCEPT ![k] = "dropped"] /\ webrtc_pc' = webrtc_pc
      BY <3>2, <3>4
    <3> QED
      BY <3>1, <3>3, <3>4
  <2>3. \A j \in Offer \ {k} : pc[j] \notin {"creating", "open"}
    BY <2>1, <1>b DEF OnePeer
  <2>4. \A i, j \in Offer : i < j /\ pc'[i] \in {"creating", "open"} => pc'[j] = "none"
    BY <2>1, <2>2, <2>3, <1>b DEF OnePeer
  <2> QED
    BY <2>1, <2>2, <2>3, <2>4, <1>b DEF OnePeer
<1>3. CASE End
  <2>1. at = "loop" /\ at' = "ended" /\ webrtc_pc' = 0
    BY <1>3 DEF End
  <2>2. \A j \in Offer : pc[j] # "creating" /\ (pc[j] = "open" => j = webrtc_pc)
    BY <2>1 DEF OnePeer
  <2>3. /\ \A j \in Offer : pc'[j] \notin {"creating", "open"}
    <3>1. CASE webrtc_pc # 0 /\ ClosePc(webrtc_pc, pc)
      BY <3>1, <2>2 DEF ClosePc, TypeOK
    <3>2. CASE webrtc_pc = 0 /\ pc' = pc
      BY <3>2, <2>2, <1>b
    <3> QED
      BY <1>3, <3>1, <3>2 DEF End, peer
  <2> QED
    BY <2>1, <2>3 DEF OnePeer
<1>4. CASE SendOffer \/ TakeSignal \/ Leave
  BY <1>4, <1>a DEF SendOffer, TakeSignal, Leave, store, peer
<1>5. ASSUME NEW k \in Offer, Browser(k) PROVE OnePeer'
  BY <1>5, <1>a DEF Browser, Trickle, BrowserOpens, Timeout, ShowOutput, store, peer
<1>6. CASE HandleIce \/ HandleDcMessage \/ ForwardOutput
  BY <1>6, <1>a DEF HandleIce, HandleDcMessage, ForwardOutput, store, peer
<1>7. ASSUME NEW k \in Offer, Callback(k) PROVE OnePeer'
  BY <1>7, <1>a
     DEF Callback, AgentOpens, OnOpen, AgentCloses, OnClose, OnMessage, store, peer
<1>8. CASE Prints
  BY <1>8, <1>a DEF Prints, store, peer
<1>9. CASE UNCHANGED vars
  BY <1>9, <1>a DEF vars, store, peer
<1> QED
  BY <1>1, <1>2, <1>3, <1>4, <1>5, <1>6, <1>7, <1>8, <1>9 DEF Next, Session

(* Closing the stored connection leaves no channel open.                   *)
LEMMA ClosedChannel ==
  ASSUME TypeOK, \A k \in Offer : dc[k] = "open" => k = webrtc_pc,
         \/ webrtc_pc # 0
            /\ dc' = [dc EXCEPT ![webrtc_pc] = IF @ = "open" THEN "closed" ELSE @]
         \/ webrtc_pc = 0 /\ dc' = dc
  PROVE  \A k \in Offer : dc'[k] # "open"
<1>1. 0 \notin Offer /\ webrtc_pc \in Offer \cup {0} /\ dc \in [Offer -> {"none", "open", "closed"}]
  BY DEF TypeOK, Offer
<1>2. CASE webrtc_pc = 0
  BY <1>1, <1>2
<1>3. CASE webrtc_pc # 0
  <2>1. dc'[webrtc_pc] # "open" /\ \A k \in Offer \ {webrtc_pc} : dc'[k] = dc[k]
    BY <1>1, <1>3
  <2> QED
    BY <2>1
<1> QED
  BY <1>2, <1>3

(* A channel is open while its connection is.                              *)
LEMMA ChannelsNext ==
  TypeOK /\ OnePeer /\ ChannelsOfPeers /\ [Next]_vars => ChannelsOfPeers'
<1> SUFFICES ASSUME TypeOK, OnePeer, ChannelsOfPeers, [Next]_vars PROVE ChannelsOfPeers'
  OBVIOUS
<1>a. ASSUME UNCHANGED <<pc, dc>> PROVE ChannelsOfPeers'
  BY <1>a DEF ChannelsOfPeers
<1>1. CASE HandleOffer
  <2> DEFINE n == Head(to_agent).n
             pcs == [pc EXCEPT ![n] = "creating"]
  <2>1. n \in Offer /\ at = "loop"
    BY <1>1, HeadTypes DEF HandleOffer
  <2>2. \A k \in Offer : dc[k] = "open" => k = webrtc_pc
    BY DEF ChannelsOfPeers, OnePeer
  <2>3. \/ webrtc_pc # 0 /\ dc' = [dc EXCEPT ![webrtc_pc] = IF @ = "open" THEN "closed" ELSE @]
        \/ webrtc_pc = 0 /\ dc' = dc
    BY <1>1 DEF HandleOffer, ClosePc
  <2>4. \A k \in Offer : dc'[k] # "open"
    BY <2>2, <2>3, ClosedChannel
  <2> QED
    BY <2>4 DEF ChannelsOfPeers
<1>2. ASSUME NEW k \in Offer, Answer(k) PROVE ChannelsOfPeers'
  BY <1>2 DEF Answer, ChannelsOfPeers, TypeOK
<1>3. CASE End
  <2>1. \A k \in Offer : dc[k] = "open" => k = webrtc_pc
    BY DEF ChannelsOfPeers, OnePeer
  <2>2. \/ webrtc_pc # 0 /\ dc' = [dc EXCEPT ![webrtc_pc] = IF @ = "open" THEN "closed" ELSE @]
        \/ webrtc_pc = 0 /\ dc' = dc
    BY <1>3 DEF End, ClosePc, peer
  <2>3. \A k \in Offer : dc'[k] # "open"
    BY <2>1, <2>2, ClosedChannel
  <2> QED
    BY <2>3 DEF ChannelsOfPeers
<1>4. ASSUME NEW k \in Offer, AgentOpens(k) PROVE ChannelsOfPeers'
  BY <1>4 DEF AgentOpens, ChannelsOfPeers, TypeOK
<1>5. ASSUME NEW k \in Offer, AgentCloses(k) PROVE ChannelsOfPeers'
  BY <1>5 DEF AgentCloses, ChannelsOfPeers, TypeOK
<1>6. ASSUME NEW k \in Offer, OnOpen(k) \/ OnClose(k) \/ OnMessage(k) PROVE ChannelsOfPeers'
  BY <1>6, <1>a DEF OnOpen, OnClose, OnMessage, peer
<1>7. CASE SendOffer \/ TakeSignal \/ Leave
  BY <1>7, <1>a DEF SendOffer, TakeSignal, Leave, peer
<1>8. ASSUME NEW k \in Offer, Browser(k) PROVE ChannelsOfPeers'
  BY <1>8, <1>a DEF Browser, Trickle, BrowserOpens, Timeout, ShowOutput, peer
<1>9. CASE HandleIce \/ HandleDcMessage \/ ForwardOutput
  BY <1>9, <1>a DEF HandleIce, HandleDcMessage, ForwardOutput, peer
<1>10. CASE Prints
  BY <1>10, <1>a DEF Prints, peer
<1>11. CASE UNCHANGED vars
  BY <1>11, <1>a DEF vars, peer
<1> QED
  BY <1>1, <1>2, <1>3, <1>4, <1>5, <1>6, <1>7, <1>8, <1>9, <1>10, <1>11
     DEF Next, Session, Callback

-----------------------------------------------------------------------------
(* The inductive invariant, and what follows.                              *)

LEMMA Inductive == Spec => []IInv
<1>1. Init => IInv
  <2> SUFFICES ASSUME Init PROVE IInv
    OBVIOUS
  <2>1. TypeOK
    BY InitTypes
  <2>2. /\ \A k \in Offer : b[k] = "none" /\ pc[k] = "none" /\ dc[k] = "none"
        /\ to_agent = <<>> /\ at = "loop" /\ webrtc_pc = 0
    BY DEF Init
  <2> QED
    BY <2>1, <2>2 DEF IInv, OffersInOrder, OnePeer, ChannelsOfPeers, Offer
<1>2. IInv /\ [Next]_vars => IInv'
  BY NextTypes, OrderNext, OnePeerNext, ChannelsNext DEF IInv
<1> QED
  BY <1>1, <1>2, PTL DEF Spec

(* Output is only sent over the channel of the newest offer (see           *)
(* OldChannelsAreSilent): its channel is open, so its peer connection is,  *)
(* and every later offer is one the agent has not seen.                    *)
THEOREM SilentChannels == Spec => OldChannelsAreSilent
<1>1. IInv /\ [Next]_vars =>
        [\A k \in Offer :
           Len(dc_down'[k]) > Len(dc_down[k]) => \A j \in Offer : j > k => pc[j] = "none"]_vars
  <2> SUFFICES ASSUME IInv, [Next]_vars, NEW k \in Offer, Len(dc_down'[k]) > Len(dc_down[k])
               PROVE  \A j \in Offer : j > k => pc[j] = "none"
    OBVIOUS
  <2>a. dc_down[k] \in Seq(1 .. MaxOutputs) /\ Len(dc_down[k]) \in Nat
    BY DEF IInv, TypeOK
  <2>1. CASE ForwardOutput
    <3>1. k = webrtc_dc /\ dc[k] = "open"
      <4>1. \/ /\ Usable(webrtc_dc)
               /\ dc_down' = [dc_down EXCEPT ![webrtc_dc] =
                                IF gone THEN @ ELSE Append(@, Head(output_rx))]
            \/ dc_down' = dc_down
        BY <2>1 DEF ForwardOutput, OverChannel
      <4>2. dc_down' # dc_down
        BY <2>a
      <4>3. webrtc_dc \in Offer /\ dc[webrtc_dc] = "open"
        BY <4>1, <4>2 DEF Usable, IInv, TypeOK
      <4>4. k # webrtc_dc => dc_down'[k] = dc_down[k]
        BY <4>1, <4>3 DEF IInv, TypeOK
      <4> QED
        BY <4>3, <4>4, <2>a
    <3>2. pc[k] = "open"
      BY <3>1 DEF IInv, ChannelsOfPeers
    <3> QED
      BY <3>2 DEF IInv, OnePeer, Offer
  <2>2. CASE Leave
    BY <2>2, <2>a DEF Leave
  <2>3. ASSUME NEW l \in Offer, ShowOutput(l) PROVE FALSE
    <3>1. dc_down[l] \in Seq(1 .. MaxOutputs) /\ dc_down[l] # <<>>
      BY <2>3 DEF ShowOutput, IInv, TypeOK
    <3>2. Len(Tail(dc_down[l])) = Len(dc_down[l]) - 1 /\ Len(dc_down[l]) \in Nat
      BY <3>1
    <3>3. dc_down' = [dc_down EXCEPT ![l] = Tail(dc_down[l])]
      BY <2>3 DEF ShowOutput
    <3> QED
      BY <2>a, <3>2, <3>3 DEF IInv, TypeOK
  <2>4. CASE UNCHANGED dc_down
    BY <2>4, <2>a
  <2>5. ForwardOutput \/ Leave \/ (\E l \in Offer : ShowOutput(l)) \/ UNCHANGED dc_down
    BY DEF Next, SendOffer, TakeSignal, Browser, Trickle, BrowserOpens, Timeout, Answer, Callback,
           AgentOpens, OnOpen, AgentCloses, OnClose, OnMessage, Session, HandleOffer, HandleIce,
           HandleDcMessage, End, Prints, vars, output
  <2> QED
    BY <2>1, <2>2, <2>3, <2>4, <2>5
<1> QED
  BY <1>1, Inductive, PTL DEF Spec, OldChannelsAreSilent

-----------------------------------------------------------------------------
(* What a session leaves behind.                                           *)

(* A session that has ended has no stored connection, and never gets one.  *)
EndedWithoutPc == at = "ended" => webrtc_pc = 0

LEMMA EndedNext == IInv /\ EndedWithoutPc /\ [Next]_vars => EndedWithoutPc'
<1> SUFFICES ASSUME IInv, EndedWithoutPc, [Next]_vars PROVE EndedWithoutPc'
  OBVIOUS
<1>1. CASE HandleOffer
  BY <1>1 DEF HandleOffer, EndedWithoutPc
<1>2. ASSUME NEW k \in Offer, Answer(k) PROVE EndedWithoutPc'
  BY <1>2 DEF Answer, EndedWithoutPc
<1>3. CASE End
  BY <1>3 DEF End, EndedWithoutPc
<1>4. CASE HandleIce \/ HandleDcMessage \/ ForwardOutput
  BY <1>4 DEF HandleIce, HandleDcMessage, ForwardOutput, store, EndedWithoutPc
<1>5. CASE SendOffer \/ TakeSignal \/ Leave \/ Prints
  BY <1>5 DEF SendOffer, TakeSignal, Leave, Prints, store, EndedWithoutPc
<1>6. ASSUME NEW k \in Offer, Browser(k) PROVE EndedWithoutPc'
  BY <1>6 DEF Browser, Trickle, BrowserOpens, Timeout, ShowOutput, store, EndedWithoutPc
<1>7. ASSUME NEW k \in Offer, Callback(k) PROVE EndedWithoutPc'
  BY <1>7 DEF Callback, AgentOpens, OnOpen, AgentCloses, OnClose, OnMessage, store, EndedWithoutPc
<1>8. CASE UNCHANGED vars
  BY <1>8 DEF vars, store, EndedWithoutPc
<1> QED
  BY <1>1, <1>2, <1>3, <1>4, <1>5, <1>6, <1>7, <1>8 DEF Next, Session

(* A session that has ended leaves no peer connection behind ("prevent     *)
(* resource leak", server.rs:290): the stored one is the only one that can *)
(* be open, however many offers there were and whichever of their answers  *)
(* failed.  (SessionsEndClean adds that the session ends.)                 *)
THEOREM EndedSessionsAreClean ==
  Spec => [](at = "ended" => \A k \in Offer : pc[k] \notin {"creating", "open"})
<1>1. Init => EndedWithoutPc
  BY DEF Init, EndedWithoutPc
<1>2. IInv /\ EndedWithoutPc =>
        (at = "ended" => \A k \in Offer : pc[k] \notin {"creating", "open"})
  BY DEF IInv, OnePeer, EndedWithoutPc, Offer
<1> QED
  BY <1>1, <1>2, EndedNext, Inductive, PTL DEF Spec

=============================================================================
