SPECIFICATION Spec

CONSTANTS
  MaxText = 4
  MaxRows = 4

INVARIANTS
  DecodersInvertTmux
  CutsHurtOneCharacter
  TreesHoldTheListing
  

CHECK_DEADLOCK FALSE
