SPECIFICATION FairSpec

CONSTANTS
  EventCap = 1
  MaxOutputs = 2
  MaxOthers = 1
  MaxChunk = 3
  MaxAttach = 2
  ChannelMayClose = TRUE

PROPERTIES
  ReadersStream
  OutputsArriveOrBlocked

CHECK_DEADLOCK FALSE
