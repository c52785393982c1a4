SPECIFICATION FairSpec

CONSTANTS
  EventCap = 2
  MaxOutputs = 3
  MaxOthers = 0
  MaxChunk = 6
  MaxAttach = 1
  ChannelMayClose = FALSE


PROPERTIES
  OutputsArrive

CHECK_DEADLOCK FALSE
