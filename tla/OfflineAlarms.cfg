SPECIFICATION LossSpec
CONSTANTS
  Nvrs = {1}
  Cams = {1}
  Grace = 2
  MAX_ITEM_NUM = 3
  Dropped = 1
  MaxQueue = 1
INVARIANT OfflineClearsAlarms
