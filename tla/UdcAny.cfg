SPECIFICATION Spec
CONSTANTS
  NumIfaces = 3
  MaxEp = 4
  EpsOf <- MCEpsOf
  Listens = {1, 3}
  Reports = {4}
  Data = 1
  TxEp = 2
  RxEp = 3
  Word = 4
INVARIANT TypeOK
INVARIANT NothingStranded
PROPERTY OthersKeepRunning
PROPERTY AcceptedIsWhole
PROPERTY NeverRefused
