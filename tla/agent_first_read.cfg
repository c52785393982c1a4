SPECIFICATION FairSpec

CONSTANTS
  q1 = q1
  p1 = p1
  z1 = z1
  z2 = z2
  Session = {q1}
  Pane = {p1}
  Size = {z1, z2}
  NoPane = NoPane
  NoSize = NoSize
  FirstAlone = FALSE
  MaxSent = 4
  MaxExits = 0


PROPERTIES
  PanesAreTracked

CHECK_DEADLOCK FALSE
