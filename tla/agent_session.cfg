SPECIFICATION FairSpec

CONSTANTS
  q1 = q1
  p1 = p1
  z1 = z1
  z2 = z2
  Session = {q1}
  Pane = {p1}
  Size = {z1, z2}
  NoPane = NoPane
  NoSize = NoSize
  FirstAlone = TRUE
  MaxSent = 6
  MaxExits = 1

INVARIANTS
  TerminalsAreFollowed
  DimensionsAreKnown

PROPERTIES
  MessagesInOrder
  PanesAreTracked
  RedrawsArrive

CHECK_DEADLOCK FALSE
