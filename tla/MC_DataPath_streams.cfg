CONSTANTS
  NotifLen = 2
  QueueLen = 2
  RX_BUF_SIZE = 2
  Budget <- StreamBudget
SPECIFICATION FairSpec
PROPERTIES ImplementsStreams LineArrives
CHECK_DEADLOCK FALSE
