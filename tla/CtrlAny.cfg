SPECIFICATION FairSpec
CONSTANTS
  CtrlSize = 2
  Requests <- MCRequests
  Liberties = {"early", "extra", "abort"}
CHECK_DEADLOCK FALSE
INVARIANT TypeOK
INVARIANT HandlersSafe
INVARIANT AnswerSent
INVARIANT CallbackOnce
INVARIANT AcceptedNotStalled
PROPERTY RequestEnds
