CONSTANTS
  NotifLen = 1
  QueueLen = 1
  RX_BUF_SIZE = 2
  Budget <- ReadBudget
SPECIFICATION Spec
INVARIANTS TypeOK LinesWhole LineNoticed PositionFresh UpToDate EndsOnlyOvertaken
PROPERTIES MeasIdsFollow
CHECK_DEADLOCK FALSE
