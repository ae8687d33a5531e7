SPECIFICATION FairSpec
CONSTANTS
  ReportSize = 3
  EpSize = 2
  SampleBound = 3
CHECK_DEADLOCK FALSE
INVARIANT TypeOK
INVARIANT ReadUnderWay
INVARIANT OngoingHasJob
INVARIANT EachOnceInOrder
PROPERTY LatestIsSeen
