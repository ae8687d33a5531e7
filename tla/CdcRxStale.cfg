SPECIFICATION Spec
CONSTANTS
  PacketSize = 2
  BufSize = 2
  Banks = 1
  ByteValues = 2
CHECK_DEADLOCK FALSE
INVARIANT ReadyMeansByte
