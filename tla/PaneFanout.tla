------------------------------ MODULE PaneFanout ------------------------------
(***************************************************************************)
(* From the readers to the browsers: the output of a pane is sent to a     *)
(* broadcast channel of bounded capacity, and the task of every WebSocket  *)
(* drains the channels its client subscribed to.                           *)
(*                                                                         *)
(* The task repeats: drain the receivers into frames, send the frames,     *)
(* then take one client message or one tick.  It handles the message       *)
(* before it drains again, so a slow request or a slow client lets the     *)
(* channels run ahead; a receiver that falls behind by more than the       *)
(* capacity loses the oldest outputs (tokio's Lagged).                     *)
(*                                                                         *)
(* The outputs of a pane are numbered in the order the reader task sends   *)
(* them (module ControlReader has the reader).  External: the readers and  *)
(* the clients.                                                            *)
(***************************************************************************)
EXTENDS Naturals, Sequences, SequencesExt

CONSTANTS
  Client,        (* sockets of the /ws endpoint                            *)
  Prompt,        (* the clients that keep reading from their socket        *)
  Pane,          (* pane ids                                               *)
  Capacity,      (* capacity of a broadcast channel (4096 in the code)     *)
  MaxPublished   (* bound: outputs of one pane                             *)

ASSUME ClientAssumption == Prompt \subseteq Client
ASSUME PaneAssumption == IsFiniteSet(Pane)
ASSUME CapacityAssumption == Capacity \in Nat \ {0}
ASSUME PublishedAssumption == MaxPublished \in Nat

VARIABLES
  published,  (* outputs of a pane sent to its channel so far              *)
  at,         (* where the task of a socket is                             *)
  pane_subs,  (* the panes it has a receiver for                           *)
  next,       (* the output that a receiver yields next                    *)
  todo,       (* panes it still has to drain in this pass                  *)
  due,        (* history: the outputs published when this pass began       *)
  frames,     (* frames drained and not yet sent                           *)
  since,      (* history: the last output published before the client      *)
              (* subscribed                                                *)
  last,       (* history: the last output sent since then                  *)
  broken      (* the connection is lost                                    *)

vars == <<published, at, pane_subs, next, todo, due, frames, since, last, broken>>

Number == 0 .. MaxPublished
Frame == [pane : Pane, n : Number]

TypeOK ==
  /\ published \in [Pane -> Number]
  /\ at \in [Client -> {"drain", "send", "select", "request", "closed"}]
  /\ pane_subs \in [Client -> SUBSET Pane]
  /\ next \in [Client -> [Pane -> 1 .. MaxPublished + 1]]
  /\ todo \in [Client -> Seq(Pane)]
  /\ due \in [Client -> [Pane -> Number]]
  /\ frames \in [Client -> Seq(Frame)]
  /\ since \in [Client -> [Pane -> Number]]
  /\ last \in [Client -> [Pane -> Number]]
  /\ broken \in [Client -> BOOLEAN]

Init ==
  /\ published = [p \in Pane |-> 0]
  /\ at = [c \in Client |-> "closed"]
  /\ pane_subs = [c \in Client |-> {}]
  /\ next = [c \in Client |-> [p \in Pane |-> 1]]
  /\ todo = [c \in Client |-> <<>>]
  /\ due = [c \in Client |-> [p \in Pane |-> 0]]
  /\ frames = [c \in Client |-> <<>>]
  /\ since = [c \in Client |-> [p \in Pane |-> 0]]
  /\ last = [c \in Client |-> [p \in Pane |-> 0]]
  /\ broken = [c \in Client |-> FALSE]

-----------------------------------------------------------------------------
(* tx.send(data), in the task of a reader, at any moment.                  *)
Publish(p) ==
  /\ published[p] < MaxPublished
  /\ published' = [published EXCEPT ![p] = @ + 1]
  /\ UNCHANGED <<at, pane_subs, next, todo, frames, since, last, broken, due>>

(* The top of the loop: drain_pane_outputs walks the receivers in the      *)
(* order of a HashMap, which is any.                                       *)
Loop(c, subs) ==
  /\ at' = [at EXCEPT ![c] = "drain"]
  /\ \E order \in SetToSeqs(subs) : todo' = [todo EXCEPT ![c] = order]
  /\ due' = [due EXCEPT ![c] = published]

(* handle_socket, with a new ConnectionState.                              *)
Open(c) ==
  /\ at[c] = "closed"
  /\ pane_subs' = [pane_subs EXCEPT ![c] = {}]
  /\ broken' = [broken EXCEPT ![c] = FALSE]
  /\ Loop(c, {})
  /\ UNCHANGED <<published, next, frames, since, last>>

-----------------------------------------------------------------------------
(* try_recv on a receiver: TryRecvError::Empty, Lagged or a value.         *)

IsEmpty(c, p) == next[c][p] > published[p]

Oldest(p) == IF published[p] > Capacity THEN published[p] - Capacity + 1 ELSE 1
IsLagged(c, p) == next[c][p] < Oldest(p)

(* Mutant of DrainLagged: a receiver that lags is passed over, and is      *)
(* still behind in the next pass.                                          *)
SkipLagged(c) ==
  /\ at[c] = "drain" /\ todo[c] # <<>>
  /\ IsLagged(c, Head(todo[c]))
  /\ todo' = [todo EXCEPT ![c] = Tail(@)]
  /\ UNCHANGED <<published, at, pane_subs, next, frames, since, last, broken, due>>

(* Mutant of DrainLagged: a lag ends the drain of the pane like any other  *)
(* error of try_recv.                                                      *)
StopAtLag(c) ==
  /\ at[c] = "drain" /\ todo[c] # <<>>
  /\ LET p == Head(todo[c])
     IN  /\ IsLagged(c, p)
         /\ next' = [next EXCEPT ![c][p] = Oldest(p)]
  /\ todo' = [todo EXCEPT ![c] = Tail(@)]
  /\ UNCHANGED <<published, at, pane_subs, due, frames, since, last, broken>>

(* Mutant of DrainLagged: the receiver is moved to the newest output.      *)
JumpToNewest(c) ==
  /\ at[c] = "drain" /\ todo[c] # <<>>
  /\ LET p == Head(todo[c])
     IN  /\ ~IsEmpty(c, p) /\ next[c][p] < published[p]
         /\ next' = [next EXCEPT ![c][p] = published[p]]
  /\ UNCHANGED <<published, at, pane_subs, todo, frames, since, last, broken, due>>

(* The receiver moves to the oldest output the channel still has.          *)
DrainLagged(c) ==
  /\ at[c] = "drain" /\ todo[c] # <<>>
  /\ LET p == Head(todo[c])
     IN  /\ IsLagged(c, p)
         /\ next' = [next EXCEPT ![c][p] = Oldest(p)]
  /\ UNCHANGED <<published, at, pane_subs, todo, frames, since, last, broken, due>>

DrainOutput(c) ==
  /\ at[c] = "drain" /\ todo[c] # <<>>
  /\ LET p == Head(todo[c])
     IN  /\ ~IsEmpty(c, p) /\ ~IsLagged(c, p)
         /\ frames' = [frames EXCEPT ![c] = Append(@, [pane |-> p, n |-> next[c][p]])]
         /\ next' = [next EXCEPT ![c][p] = @ + 1]
  /\ UNCHANGED <<published, at, pane_subs, todo, since, last, broken, due>>

DrainEmpty(c) ==
  /\ at[c] = "drain" /\ todo[c] # <<>>
  /\ IsEmpty(c, Head(todo[c]))
  /\ todo' = [todo EXCEPT ![c] = Tail(@)]
  /\ UNCHANGED <<published, at, pane_subs, next, frames, since, last, broken, due>>

DrainDone(c) ==
  /\ at[c] = "drain" /\ todo[c] = <<>>
  /\ at' = [at EXCEPT ![c] = "send"]
  /\ UNCHANGED <<published, pane_subs, next, todo, frames, since, last, broken, due>>

(* tx.send(frame).await waits for a client that does not read; on a lost   *)
(* connection the error is ignored and the frame is gone.                  *)
SendFrame(c) ==
  /\ at[c] = "send" /\ frames[c] # <<>>
  /\ LET f == Head(frames[c])
     IN  last' = IF broken[c] THEN last ELSE [last EXCEPT ![c][f.pane] = f.n]
  /\ frames' = [frames EXCEPT ![c] = Tail(@)]
  /\ UNCHANGED <<published, at, pane_subs, next, todo, due, since, broken>>

(* Mutant of SendDone: one frame is sent in a pass, the others later.      *)
SendSome(c) ==
  /\ at[c] = "send"
  /\ at' = [at EXCEPT ![c] = "select"]
  /\ UNCHANGED <<published, pane_subs, next, todo, frames, since, last, broken, due>>

(* The messages of background tasks follow; they are not about panes.      *)
SendDone(c) ==
  /\ at[c] = "send" /\ frames[c] = <<>>
  /\ at' = [at EXCEPT ![c] = "select"]
  /\ UNCHANGED <<published, pane_subs, next, todo, frames, since, last, broken, due>>

-----------------------------------------------------------------------------
(* One message of the client, or a tick.                                   *)

Tick(c) ==
  /\ at[c] = "select"
  /\ Loop(c, pane_subs[c])
  /\ UNCHANGED <<published, pane_subs, next, frames, since, last, broken>>

(* Subscribe: a fresh receiver, also for a pane that already has one.  It  *)
(* yields what is sent from now on.                                        *)
Subscribe(c, p) ==
  /\ at[c] = "select" /\ ~broken[c]
  /\ pane_subs' = [pane_subs EXCEPT ![c] = @ \cup {p}]
  /\ next' = [next EXCEPT ![c][p] = published[p] + 1]
  /\ since' = [since EXCEPT ![c][p] = published[p]]
  /\ last' = [last EXCEPT ![c][p] = published[p]]
  /\ Loop(c, pane_subs[c] \cup {p})
  /\ UNCHANGED <<published, frames, broken>>

Unsubscribe(c, p) ==
  /\ at[c] = "select" /\ ~broken[c]
  /\ pane_subs' = [pane_subs EXCEPT ![c] = @ \ {p}]
  /\ Loop(c, pane_subs[c] \ {p})
  /\ UNCHANGED <<published, next, frames, since, last, broken>>

(* Any other message: the task is in its handler until it returns.         *)
Request(c) ==
  /\ at[c] = "select" /\ ~broken[c]
  /\ at' = [at EXCEPT ![c] = "request"]
  /\ UNCHANGED <<published, pane_subs, next, todo, frames, since, last, broken, due>>

RequestDone(c) ==
  /\ at[c] = "request"
  /\ Loop(c, pane_subs[c])
  /\ UNCHANGED <<published, pane_subs, next, frames, since, last, broken>>

(* The connection is lost, at any moment.                                  *)
Break(c) ==
  /\ at[c] # "closed" /\ ~broken[c]
  /\ broken' = [broken EXCEPT ![c] = TRUE]
  /\ UNCHANGED <<published, at, pane_subs, next, todo, due, frames, since, last>>

(* Close, None or an error from the socket: the receivers are dropped.     *)
Close(c) ==
  /\ at[c] = "select"
  /\ at' = [at EXCEPT ![c] = "closed"]
  /\ pane_subs' = [pane_subs EXCEPT ![c] = {}]
  /\ UNCHANGED <<published, next, todo, frames, since, last, broken, due>>

-----------------------------------------------------------------------------
Drain(c) == DrainLagged(c) \/ DrainOutput(c) \/ DrainEmpty(c) \/ DrainDone(c)

(* What the task does by itself.                                           *)
Task(c) == Drain(c) \/ SendFrame(c) \/ SendDone(c) \/ Tick(c) \/ RequestDone(c)

Next ==
  \/ \E p \in Pane : Publish(p)
  \/ \E c \in Client :
       \/ Open(c) \/ Task(c) \/ Request(c) \/ Break(c) \/ Close(c)
       \/ \E p \in Pane : Subscribe(c, p) \/ Unsubscribe(c, p)

Spec == Init /\ [][Next]_vars

(* The runtime polls every task that can make a step, requests return (see *)
(* RequestsFinish of SessionManager), and prompt clients read their        *)
(* socket.  A client that is not prompt may block its task for ever.       *)
FairSpec == Spec /\ \A c \in Prompt : WF_vars(Task(c))

-----------------------------------------------------------------------------
(* A client is only sent the output of panes it is subscribed to: nothing  *)
(* drained earlier goes out once its Unsubscribe is handled.               *)
OnlySubscribedPanes ==
  \A c \in Client : \A i \in DOMAIN frames[c] : frames[c][i].pane \in pane_subs[c]

(* A pass leaves nothing behind: when the task turns to the next message   *)
(* or tick, the newest output that each receiver could yield when the pass *)
(* began has been sent, or a later one, however far the receiver had       *)
(* fallen behind (a lag is not the end of its drain) and whatever is       *)
(* published meanwhile.                                                    *)
PassesCatchUp ==
  \A c \in Client : \A p \in pane_subs[c] :
    at[c] = "select" /\ ~broken[c] => last[c][p] >= due[c][p]

(* Liveness: what is published to a pane reaches a prompt client that is   *)
(* subscribed to it, or something later does, however far it fell behind   *)
(* and whatever the other clients do, while its connection lasts.          *)
PromptClientsCatchUp ==
  \A c \in Prompt, p \in Pane, n \in 1 .. MaxPublished :
    p \in pane_subs[c] /\ published[p] >= n
      ~> last[c][p] >= n \/ p \notin pane_subs[c] \/ broken[c]

Stream(c, p) == INSTANCE LaggedStream
  WITH published <- published[p], since <- since[c][p], last <- last[c][p]

(* Refinement: what a client is sent of a pane is a lagged stream, however *)
(* slowly it reads and whatever its own messages and the other clients do  *)
(* to the receivers (session_handler.rs:482-505).                          *)
ClientsStream ==
  /\ \A c \in Client, p \in Pane : Stream(c, p)!Init
  /\ [][\A c \in Client, p \in Pane :
          [Stream(c, p)!Next]_<<published[p], since[c][p], last[c][p]>>]_<<published, since, last>>

=============================================================================
