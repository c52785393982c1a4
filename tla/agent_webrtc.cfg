SPECIFICATION Spec
CONSTANTS
  MaxOffers = 2
  MaxIce = 2
  MaxOutputs = 2
  DcCap = 1
PROPERTIES OldChannelsAreSilent SessionsEndClean ChannelIsUsed OutputsAreShown
CHECK_DEADLOCK FALSE
