SPECIFICATION FairSpec
CONSTANTS
  PacketSize = 1
  BufSize = 2
  Banks = 1
  ZlpWait = 2
  Frames = 2
  ByteValues = 2
  MaxWrite = 2
CHECK_DEADLOCK FALSE
INVARIANT TypeOK
INVARIANT SenderAndWriterApart
PROPERTY IsFifo
PROPERTY BytesMoveOn
PROPERTY TransferCloses
PROPERTY WriteReturns
