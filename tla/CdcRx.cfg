SPECIFICATION FairSpec
CONSTANTS
  PacketSize = 1
  BufSize = 2
  Banks = 1
  ByteValues = 2
CHECK_DEADLOCK FALSE
INVARIANT TypeOK
INVARIANT ReceptionAlive
INVARIANT ReaderAndDmaApart
PROPERTY IsFifo
PROPERTY GetcReturns
PROPERTY BytesMoveOn
