--------------------------- MODULE MC_PaneFanout ---------------------------
(* Instances of PaneFanout for TLC.                                        *)
EXTENDS PaneFanout

CONSTANTS c1, c2, p1, p2

=============================================================================
