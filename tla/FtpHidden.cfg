SPECIFICATION WorkersSpec
CONSTANTS
  Threads = {uiThread, cliThread}
  MAX_LOG_NUMBER = 3
  Cut = 2
  MaxRecords = 10
  Plans <- TwoFilesOrTwice
  Size = 2
  MaxEvents = 4
  N = 4
  MaxQueue = 2
INVARIANT EndHidesBar
