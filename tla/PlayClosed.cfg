SPECIFICATION PagesSpec
CONSTANTS
  Cameras <- TwoCameras
  Nvrs = {1}
  Cams = {1}
  Grace = 2
  MAX_ITEM_NUM = 3
  Dropped = 1
  MaxQueue = 1
  Tables <- ShortAndLong
  Unknown = 3
  Tries = 1
  MaxCloses = 1
PROPERTY ClosesOnlyAtEnd
