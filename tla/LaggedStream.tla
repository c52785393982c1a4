---------------------------- MODULE LaggedStream ----------------------------
(***************************************************************************)
(* What a subscriber of a bounded broadcast channel is promised: outputs   *)
(* in the order they were published, none twice, and none left out that    *)
(* the channel still retains: an output is retained until Capacity later   *)
(* ones are published.  Subscribing starts at the present.                 *)
(***************************************************************************)
EXTENDS Naturals

CONSTANT Capacity  (* outputs the channel retains                          *)

VARIABLES
  published,  (* number of outputs published so far                        *)
  since,      (* outputs published before the subscription                 *)
  last        (* the last output the subscriber was sent                   *)

Init == published = 0 /\ since = 0 /\ last = 0

Publish == published' = published + 1 /\ UNCHANGED <<since, last>>

Subscribe == since' = published /\ last' = published /\ UNCHANGED published

Send ==
  /\ \E n \in (last + 1) .. published :
       /\ n > last + 1 => (n - 1) + Capacity <= published
       /\ last' = n
  /\ UNCHANGED <<published, since>>

Next == Publish \/ Subscribe \/ Send

Spec == Init /\ [][Next]_<<published, since, last>>

=============================================================================
