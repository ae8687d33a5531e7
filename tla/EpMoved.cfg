SPECIFICATION Spec
CONSTANTS
  EpSize = 2
  MaxTrans = 4
  Banks = 2
  InSizes = {4}
  OutSizes = {4}
  Word = 16
  Crossing = FALSE
  FreeStops = TRUE
CHECK_DEADLOCK FALSE
PROPERTY AllReported
