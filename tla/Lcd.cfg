SPECIFICATION FairSpec
CONSTANTS
  PacketSize = 3
  XferSize = 6
  Banks = 1
  BltLen = 2
  AreaOff = 1
  BootLen = 2
  Word = 8
  Areas <- MCAreas
  HostKinds = {"framed", "wild"}
  DrawnBound = 6
CHECK_DEADLOCK FALSE
INVARIANT TypeOK
INVARIANT TargetIsWhatCallbackReads
INVARIANT InStep
PROPERTY StaysArmed
PROPERTY BltFinishes
