SPECIFICATION QuerySpec
CONSTANTS
  MaxQueries = 2
  MaxFiles = 1
  GiveUp = 2
  MaxDownloads = 1
INVARIANT OneQueryAtATime
CHECK_DEADLOCK FALSE
