SPECIFICATION Spec
CONSTANTS
  PacketSize = 3
  XferSize = 3
  Banks = 1
  BltLen = 2
  AreaOff = 1
  BootLen = 2
  Word = 8
  Areas <- MCOnePacket
  HostKinds = {"zlp"}
  DrawnBound = 8
CHECK_DEADLOCK FALSE
INVARIANT OnlyPixelsDrawn
