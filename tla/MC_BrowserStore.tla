--------------------------- MODULE MC_BrowserStore ---------------------------
(* An instance of BrowserStore for TLC: two sessions with one pane each.   *)
EXTENDS BrowserStore, TLC

CONSTANTS s1, s2, p1, p2, d1, d2

OnePaneEach == p1 :> s1 @@ p2 :> s2

=============================================================================
