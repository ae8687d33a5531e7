SPECIFICATION FairSpec
CONSTANTS
  EpSize = 2
  MaxTrans = 4
  Banks = 2
  InSizes = {0, 1, 4, 6, 7}
  OutSizes = {2, 4}
  Word = 16
  Crossing = FALSE
  FreeStops = TRUE
CHECK_DEADLOCK FALSE
INVARIANT TypeOK
INVARIANT ChannelFollows
INVARIANT JobIsDriven
PROPERTY IsTransfer
PROPERTY TransferEnds
