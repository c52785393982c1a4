----------------------------- MODULE AgentWebRtc -----------------------------
(***************************************************************************)
(* WebRTC between a browser and an agent.                                  *)
(*                                                                         *)
(* Offers, answers and candidates travel over the QUIC stream of a session *)
(* (AgentSession).  The browser opens a data channel with each offer; the  *)
(* agent answers with a peer connection of its own, and its callbacks      *)
(* store the data channel when it opens and clear the store when it        *)
(* closes.  They run in tasks of their own, when they like.  Output goes   *)
(* to the stored channel, if that is open, and to the stream otherwise,    *)
(* where a browser in WebRTC mode does not look for it.                    *)
(*                                                                         *)
(* An offer is a number; its peer connections and its data channel have    *)
(* the same.  The agent accepts another offer on the same stream, as a     *)
(* retry (server.rs:510); today's browser opens another stream instead.    *)
(* External: ICE, DTLS and SCTP, which connect the two sides or do not,    *)
(* and tmux, which prints.                                                 *)
(***************************************************************************)
EXTENDS Naturals, Sequences, SequencesExt

CONSTANTS
  MaxOffers,   (* bound: offers of a client                                *)
  MaxIce,      (* bound: candidates of an offer                            *)
  MaxOutputs,  (* bound: outputs of the pane                               *)
  DcCap        (* capacity of the queue of data channel messages (256)     *)

ASSUME BoundAssumption == /\ {MaxOffers, MaxIce, MaxOutputs} \subseteq Nat
                          /\ DcCap \in Nat \ {0}

VARIABLES
  (* the browser *)
  b,          (* its side of an offer: "none", "offered", "answered",      *)
              (* "open" or "closed"                                        *)
  trickled,   (* candidates sent                                           *)
  gone,       (* the QUIC connection is closed                             *)
  shown,      (* outputs that came over a data channel                     *)
  (* the streams *)
  to_agent, to_browser,
  dc_up, dc_down,  (* data channels                                        *)
  (* the session of the agent *)
  at,         (* "loop", in create_webrtc_"answer" or "ended"              *)
  webrtc_pc,  (* the stored peer connection, or 0                          *)
  webrtc_dc,  (* the stored data channel, or 0                             *)
  webrtc_pending_candidates,
  subscribed,
  produced,   (* number of outputs so far                                  *)
  output_rx,  (* outputs that are not forwarded yet                        *)
  dc_msg_rx,  (* messages of data channels that are not handled yet        *)
  pc,         (* peer connections: "none", "creating", "open", "closed" or *)
              (* "dropped" by an answer that failed                        *)
  dc,         (* data channels: "none", "open" or "closed"                 *)
  on_open, on_close,  (* callbacks that have not run yet                   *)
  (* history *)
  unsent,     (* outputs that an open channel did not take                 *)
  displaced   (* a callback of an old channel took a newer one's place     *)

browser == <<b, trickled, gone>>
signals == <<to_agent, to_browser>>
store == <<webrtc_pc, webrtc_dc, webrtc_pending_candidates>>
output == <<produced, output_rx, shown, dc_down, unsent>>
upward == <<subscribed, dc_up, dc_msg_rx>>
peer == <<pc, dc, on_open, on_close>>
vars == <<browser, signals, at, store, output, upward, peer, displaced>>

Offer == 1 .. MaxOffers
Signal(t, k) == [t |-> t, n |-> k]
ToAgent == [t : {"webrtc_offer", "webrtc_ice"}, n : Offer]
ToBrowser == [t : {"webrtc_answer", "webrtc_error"}, n : Offer]
             \cup [t : {"o"}, n : 1 .. MaxOutputs]

TypeOK ==
  /\ b \in [Offer -> {"none", "offered", "answered", "open", "closed"}]
  /\ trickled \in [Offer -> 0 .. MaxIce]
  /\ gone \in BOOLEAN
  /\ shown \subseteq 1 .. MaxOutputs /\ unsent \subseteq 1 .. MaxOutputs
  /\ to_agent \in Seq(ToAgent)
  /\ to_browser \in Seq(ToBrowser)
  /\ dc_up \in [Offer -> Seq({"sub", "r"})]
  /\ dc_down \in [Offer -> Seq(1 .. MaxOutputs)]
  /\ at \in {"loop", "answer", "ended"}
  /\ webrtc_pc \in Offer \cup {0} /\ webrtc_dc \in Offer \cup {0}
  /\ webrtc_pending_candidates \in Seq(Offer)
  /\ subscribed \in BOOLEAN
  /\ produced \in 0 .. MaxOutputs
  /\ output_rx \in Seq(1 .. MaxOutputs)
  /\ dc_msg_rx \in Seq({"sub", "r"}) /\ Len(dc_msg_rx) <= DcCap
  /\ pc \in [Offer -> {"none", "creating", "open", "closed", "dropped"}]
  /\ dc \in [Offer -> {"none", "open", "closed"}]
  /\ on_open \subseteq Offer /\ on_close \subseteq Offer
  /\ displaced \in BOOLEAN

Init ==
  /\ b = [k \in Offer |-> "none"]
  /\ trickled = [k \in Offer |-> 0]
  /\ gone = FALSE
  /\ shown = {} /\ unsent = {}
  /\ to_agent = <<>> /\ to_browser = <<>>
  /\ dc_up = [k \in Offer |-> <<>>] /\ dc_down = [k \in Offer |-> <<>>]
  /\ at = "loop"
  /\ webrtc_pc = 0 /\ webrtc_dc = 0
  /\ webrtc_pending_candidates = <<>>
  /\ subscribed = FALSE
  /\ produced = 0
  /\ output_rx = <<>> /\ dc_msg_rx = <<>>
  /\ pc = [k \in Offer |-> "none"] /\ dc = [k \in Offer |-> "none"]
  /\ on_open = {} /\ on_close = {}
  /\ displaced = FALSE

-----------------------------------------------------------------------------
(* The browser.                                                            *)

(* An offer, without candidates; the last one has failed, if there was one.*)
SendOffer ==
  /\ ~gone
  /\ \E k \in Offer :
       /\ b[k] = "none" /\ \A j \in 1 .. k - 1 : b[j] = "closed"
       /\ b' = [b EXCEPT ![k] = "offered"]
       /\ to_agent' = Append(to_agent, Signal("webrtc_offer", k))
  /\ UNCHANGED <<trickled, gone, to_browser, at, store, output, upward, peer, displaced>>

(* Candidates follow, as they are found.                                   *)
Trickle(k) ==
  /\ ~gone /\ b[k] \in {"offered", "answered"} /\ trickled[k] < MaxIce
  /\ trickled' = [trickled EXCEPT ![k] = @ + 1]
  /\ to_agent' = Append(to_agent, Signal("webrtc_ice", k))
  /\ UNCHANGED <<b, gone, to_browser, at, store, output, upward, peer, displaced>>

(* An answer is set; errors and outputs are dropped.                       *)
TakeSignal ==
  /\ ~gone /\ to_browser # <<>>
  /\ LET m == Head(to_browser) IN
       b' = IF m.t = "webrtc_answer" /\ b[m.n] = "offered"
            THEN [b EXCEPT ![m.n] = "answered"] ELSE b
  /\ to_browser' = Tail(to_browser)
  /\ UNCHANGED <<trickled, gone, to_agent, at, store, output, upward, peer, displaced>>

(* The browser's channel opens after the agent's; the session is in WebRTC *)
(* mode from here, and subscribes to its pane again, then resizes it.      *)
BrowserOpens(k) ==
  /\ b[k] = "answered" /\ dc[k] = "open"
  /\ b' = [b EXCEPT ![k] = "open"]
  /\ dc_up' = [dc_up EXCEPT ![k] = @ \o <<"sub", "r">>]
  /\ UNCHANGED <<trickled, gone, signals, at, store, output, subscribed, dc_msg_rx,
                 peer, displaced>>

(* Thirty seconds without a channel: the attempt is given up.              *)
Timeout(k) ==
  /\ b[k] \in {"offered", "answered"}
  /\ b' = [b EXCEPT ![k] = "closed"]
  /\ UNCHANGED <<trickled, gone, signals, at, store, output, upward, peer, displaced>>

(* A session leaves WebRTC mode when its channel is lost, or when the user *)
(* wants: both connections are closed.                                     *)
Leave ==
  /\ ~gone
  /\ gone' = TRUE
  /\ b' = [k \in Offer |-> IF b[k] = "none" THEN "none" ELSE "closed"]
  /\ to_browser' = <<>>
  /\ dc_down' = [k \in Offer |-> <<>>]
  /\ UNCHANGED <<trickled, to_agent, at, store, produced, output_rx, shown, unsent,
                 upward, peer, displaced>>

ShowOutput(k) ==
  /\ b[k] = "open" /\ dc_down[k] # <<>>
  /\ shown' = shown \cup {Head(dc_down[k])}
  /\ dc_down' = [dc_down EXCEPT ![k] = Tail(@)]
  /\ UNCHANGED <<browser, signals, at, store, produced, output_rx, unsent, upward, peer,
                 displaced>>

-----------------------------------------------------------------------------
(* The session of the agent.                                               *)

(* A peer connection is closed, and its channel with it: the callback is   *)
(* told, and runs later.                                                   *)
ClosePc(k, pcs) ==
  /\ pc' = [pcs EXCEPT ![k] = "closed"]
  /\ dc' = [dc EXCEPT ![k] = IF @ = "open" THEN "closed" ELSE @]
  /\ on_close' = IF dc[k] = "open" THEN on_close \cup {k} ELSE on_close
  /\ UNCHANGED on_open

(* webrtc_offer: close what a previous one left, and create an answer.     *)
HandleOffer ==
  /\ at = "loop" /\ to_agent # <<>> /\ Head(to_agent).t = "webrtc_offer"
  /\ LET pcs == [pc EXCEPT ![Head(to_agent).n] = "creating"] IN
       \/ webrtc_pc # 0 /\ ClosePc(webrtc_pc, pcs)
       \/ webrtc_pc = 0 /\ pc' = pcs /\ UNCHANGED <<dc, on_open, on_close>>
  /\ webrtc_pc' = 0 /\ webrtc_dc' = 0
  /\ webrtc_pending_candidates' = <<>>
  /\ at' = "answer"
  /\ to_agent' = Tail(to_agent)
  /\ UNCHANGED <<browser, to_browser, output, upward, displaced>>

(* create_webrtc_answer returns, after candidates are gathered.            *)
Answer(k) ==
  /\ at = "answer" /\ pc[k] = "creating"
  /\ \/ /\ pc' = [pc EXCEPT ![k] = "open"]
        /\ webrtc_pc' = k
        /\ to_browser' = IF gone THEN to_browser
                         ELSE Append(to_browser, Signal("webrtc_answer", k))
     \/ /\ pc' = [pc EXCEPT ![k] = "dropped"]
        /\ to_browser' = IF gone THEN to_browser
                         ELSE Append(to_browser, Signal("webrtc_error", k))
        /\ UNCHANGED webrtc_pc
  /\ at' = "loop"
  /\ UNCHANGED <<browser, to_agent, webrtc_dc, webrtc_pending_candidates, output, upward,
                 dc, on_open, on_close, displaced>>

(* webrtc_ice: webrtc_remote_set is false for ever, so it is queued.       *)
HandleIce ==
  /\ at = "loop" /\ to_agent # <<>> /\ Head(to_agent).t = "webrtc_ice"
  /\ webrtc_pending_candidates' = Append(webrtc_pending_candidates, Head(to_agent).n)
  /\ to_agent' = Tail(to_agent)
  /\ UNCHANGED <<browser, to_browser, at, webrtc_pc, webrtc_dc, output, upward, peer, displaced>>

(* A message of a data channel is handled like one of the stream; the      *)
(* program that is told of a resize may print, as it may anyway.           *)
HandleDcMessage ==
  /\ at = "loop" /\ dc_msg_rx # <<>>
  /\ subscribed' = (subscribed \/ Head(dc_msg_rx) = "sub")
  /\ dc_msg_rx' = Tail(dc_msg_rx)
  /\ UNCHANGED <<browser, signals, at, store, output, dc_up, peer, displaced>>

(* Mutant of Usable: the state of the channel is not looked at.            *)
Stored(k) == k # 0

(* The stored channel is used while it is open.                            *)
Usable(k) == k # 0 /\ dc[k] = "open"

(* The stream takes a message while the connection lasts.                  *)
ToStream(n) ==
  to_browser' = IF gone THEN to_browser ELSE Append(to_browser, Signal("o", n))

OverChannel(n) ==
  /\ Usable(webrtc_dc)
  /\ dc_down' = [dc_down EXCEPT ![webrtc_dc] = IF gone THEN @ ELSE Append(@, n)]

(* Mutant of ForwardOutput: a channel that did not take an output is       *)
(* forgotten.                                                              *)
ForwardOrForget ==
  /\ at = "loop" /\ output_rx # <<>> /\ subscribed
  /\ LET n == Head(output_rx) IN
       \/ OverChannel(n) /\ UNCHANGED <<to_browser, unsent, webrtc_dc>>
       \/ /\ Usable(webrtc_dc) /\ ToStream(n)
          /\ unsent' = unsent \cup {n}
          /\ webrtc_dc' = 0
          /\ UNCHANGED dc_down
       \/ ~Usable(webrtc_dc) /\ ToStream(n) /\ UNCHANGED <<dc_down, unsent, webrtc_dc>>
  /\ output_rx' = Tail(output_rx)
  /\ UNCHANGED <<browser, to_agent, at, webrtc_pc, webrtc_pending_candidates, produced, shown,
                 upward, peer, displaced>>

(* Output of a subscribed pane: to the channel, or, without an open one or *)
(* if the send fails, to the stream.                                       *)
ForwardOutput ==
  /\ at = "loop" /\ output_rx # <<>>
  /\ LET n == Head(output_rx) IN
       \/ subscribed /\ OverChannel(n) /\ UNCHANGED <<to_browser, unsent>>
       \/ /\ subscribed /\ Usable(webrtc_dc) /\ ToStream(n)
          /\ unsent' = unsent \cup {n}
          /\ UNCHANGED dc_down
       \/ subscribed /\ ~Usable(webrtc_dc) /\ ToStream(n) /\ UNCHANGED <<dc_down, unsent>>
       \/ ~subscribed /\ UNCHANGED <<to_browser, dc_down, unsent>>
  /\ output_rx' = Tail(output_rx)
  /\ UNCHANGED <<browser, to_agent, at, store, produced, shown, upward, peer, displaced>>

(* Mutant of End: the peer connection is only forgotten.                   *)
EndAtOnce ==
  /\ at = "loop" /\ gone
  /\ webrtc_pc' = 0
  /\ at' = "ended"
  /\ UNCHANGED <<browser, signals, webrtc_dc, webrtc_pending_candidates, output, upward,
                 peer, displaced>>

(* The stream fails, for what is read or what is written: the session ends *)
(* and closes its peer connection.                                         *)
End ==
  /\ at = "loop" /\ gone
  /\ \/ webrtc_pc # 0 /\ ClosePc(webrtc_pc, pc)
     \/ webrtc_pc = 0 /\ UNCHANGED peer
  /\ webrtc_pc' = 0
  /\ at' = "ended"
  /\ UNCHANGED <<browser, signals, webrtc_dc, webrtc_pending_candidates, output, upward,
                 displaced>>

-----------------------------------------------------------------------------
(* The callbacks.                                                          *)

(* on_data_channel, and the channel opens.                                 *)
AgentOpens(k) ==
  /\ b[k] = "answered" /\ pc[k] = "open" /\ dc[k] = "none"
  /\ dc' = [dc EXCEPT ![k] = "open"]
  /\ on_open' = on_open \cup {k}
  /\ UNCHANGED <<browser, signals, at, store, output, upward, pc, on_close, displaced>>

(* Mutant of OnOpen: a channel that is stored is left there.               *)
OnOpenIfFree(k) ==
  /\ k \in on_open
  /\ webrtc_dc' = IF webrtc_dc = 0 THEN k ELSE webrtc_dc
  /\ on_open' = on_open \ {k}
  /\ UNCHANGED <<browser, signals, at, webrtc_pc, webrtc_pending_candidates, output, upward,
                 pc, dc, on_close, displaced>>

(* The channel is stored, whichever is there.                              *)
OnOpen(k) ==
  /\ k \in on_open
  /\ displaced' = (displaced \/ webrtc_dc > k)
  /\ webrtc_dc' = k
  /\ on_open' = on_open \ {k}
  /\ UNCHANGED <<browser, signals, at, webrtc_pc, webrtc_pending_candidates, output, upward,
                 pc, dc, on_close>>

(* The agent learns that the browser's side is closed.                     *)
AgentCloses(k) ==
  /\ dc[k] = "open" /\ b[k] = "closed"
  /\ dc' = [dc EXCEPT ![k] = "closed"]
  /\ on_close' = on_close \cup {k}
  /\ UNCHANGED <<browser, signals, at, store, output, upward, pc, on_open, displaced>>

(* The store is displaced, whichever channel is in it.                       *)
OnClose(k) ==
  /\ k \in on_close \ on_open
  /\ displaced' = (displaced \/ webrtc_dc \notin {0, k})
  /\ webrtc_dc' = 0
  /\ on_close' = on_close \ {k}
  /\ UNCHANGED <<browser, signals, at, webrtc_pc, webrtc_pending_candidates, output, upward,
                 pc, dc, on_open>>

(* on_message: into the queue of the session, which may be full.           *)
OnMessage(k) ==
  /\ dc[k] = "open" /\ dc_up[k] # <<>> /\ Len(dc_msg_rx) < DcCap
  /\ dc_msg_rx' = Append(dc_msg_rx, Head(dc_up[k]))
  /\ dc_up' = [dc_up EXCEPT ![k] = Tail(@)]
  /\ UNCHANGED <<browser, signals, at, store, output, subscribed, peer, displaced>>

(* The program in the pane prints.                                         *)
Prints ==
  /\ at # "ended" /\ produced < MaxOutputs
  /\ produced' = produced + 1
  /\ output_rx' = Append(output_rx, produced')
  /\ UNCHANGED <<browser, signals, at, store, shown, dc_down, unsent, upward, peer, displaced>>

Browser(k) == Trickle(k) \/ BrowserOpens(k) \/ Timeout(k) \/ ShowOutput(k)
Session == HandleOffer \/ HandleIce \/ HandleDcMessage \/ ForwardOutput \/ End
Callback(k) == AgentOpens(k) \/ OnOpen(k) \/ AgentCloses(k) \/ OnClose(k) \/ OnMessage(k)

Next ==
  \/ SendOffer \/ TakeSignal \/ Leave
  \/ \E k \in Offer : Browser(k) \/ Answer(k) \/ Callback(k)
  \/ Session \/ Prints

(* The runtimes of both sides run what is ready; select! takes every       *)
(* branch in the end, as output is bounded here (it is biased towards      *)
(* output).  A connection may fail to open, and users leave or stay.       *)
Fairness ==
  /\ WF_vars(TakeSignal)
  /\ WF_vars(HandleOffer \/ HandleIce \/ End)
  /\ WF_vars(HandleDcMessage) /\ WF_vars(ForwardOutput)
  /\ \A k \in Offer :
       /\ WF_vars(Answer(k)) /\ WF_vars(OnOpen(k)) /\ WF_vars(OnClose(k))
       /\ WF_vars(OnMessage(k)) /\ WF_vars(ShowOutput(k)) /\ WF_vars(AgentCloses(k))

Spec == Init /\ [][Next]_vars /\ Fairness

-----------------------------------------------------------------------------
(* Output is only sent over the channel of the newest offer: a retry       *)
(* closes the one before, and neither its callbacks, which may still be    *)
(* waiting, nor what they store bring it back (server.rs:236-241,          *)
(* 511-516).                                                               *)
OldChannelsAreSilent ==
  [][\A k \in Offer :
       Len(dc_down'[k]) > Len(dc_down[k]) => \A j \in Offer : j > k => pc[j] = "none"]_vars

(* Every session of a client that left ends, and leaves no peer connection *)
(* behind ("prevent resource leak", server.rs:290), however many offers it *)
(* had and wherever it was in an answer.                                   *)
SessionsEndClean ==
  gone ~> at = "ended" /\ \A k \in Offer : pc[k] \notin {"creating", "open"}

(* A browser in WebRTC mode is sent what its pane prints over the channel, *)
(* in the end: the agent stores the channel, unless a callback of an older *)
(* one is late and takes its place (server.rs:728-733, 737-743), ...       *)
ChannelIsUsed ==
  \A k \in Offer : b[k] = "open" ~> (webrtc_dc = k /\ subscribed) \/ b[k] # "open" \/ displaced

(* ... and from there on each output is shown but for those that the open  *)
(* channel does not take: these go to the stream, where the browser        *)
(* ignores them (server.rs:238-250, tmux.ts:314), and cost no other.       *)
OutputsAreShown ==
  \A k \in Offer, n \in 1 .. MaxOutputs :
    b[k] = "open" /\ webrtc_dc = k /\ subscribed /\ Contains(output_rx, n)
      ~> n \in shown \/ n \in unsent \/ b[k] # "open" \/ displaced

=============================================================================
