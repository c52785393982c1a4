SPECIFICATION FairSpec

CONSTANTS
  s1 = s1
  s2 = s2
  p1 = p1
  p2 = p2
  d1 = d1
  d2 = d2
  Session = {s1, s2}
  Patient = {s1}
  Pane = {p1, p2}
  sessionOf <- OnePaneEach
  Direct = {d1, d2}
  NoSession = NoSession
  NoDirect = NoDirect
  MaxAsked = 1

INVARIANTS
  ShownOnce
  DirectHasTheTerminals
  OpenIsRegistered

PROPERTIES
  TerminalsFallBack
  WebSocketReturns
