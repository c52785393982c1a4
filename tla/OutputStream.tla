---------------------------- MODULE OutputStream ----------------------------
(***************************************************************************)
(* What one reader of a live stream promises.  Outputs are numbered as     *)
(* they are produced.  The reader starts at some moment and from then on   *)
(* passes on every output once, in the order of production, without a gap; *)
(* it may stop at any moment.                                              *)
(***************************************************************************)
EXTENDS Naturals, Sequences

VARIABLES
  produced,  (* outputs produced so far                                    *)
  first,     (* outputs produced before the reader started                 *)
  got        (* the outputs passed on                                      *)

Init == produced = 0 /\ first = 0 /\ got = <<>>

Produce == produced' = produced + 1 /\ UNCHANGED <<first, got>>

Start == got = <<>> /\ first' = produced /\ UNCHANGED <<produced, got>>

PassOn ==
  /\ first + Len(got) < produced
  /\ got' = Append(got, first + Len(got) + 1)
  /\ UNCHANGED <<produced, first>>

Next == Produce \/ Start \/ PassOn

Spec == Init /\ [][Next]_<<produced, first, got>>

=============================================================================
