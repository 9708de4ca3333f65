CONSTANTS
  Embedded = {"cert"}
  Faults = 1
  Parts = 2
  FotaLen = 1
  Budget <- UpdateBudget
SPECIFICATION FairSpec
INVARIANTS TypeOK CredentialsMatch LastRequestWins DownloadsAsAsked
PROPERTIES StaysReachable RequestTried
CHECK_DEADLOCK FALSE
