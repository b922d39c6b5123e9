SPECIFICATION SharedSpec
CONSTANTS
  N = 1
  MaxLogins = 2
  PtzButtons = {1}
  MaxQueries = 3
  MaxFiles = 2
  GiveUp = 2
  MaxDownloads = 1
  Producers = {t1, t2}
  Packets = {p1, p2}
  Nodes = {n1, n2, n3}
  NULL = NULL
  NoPacket = NoPacket
  Base = 4
  Xor <- XorOfTwoBits
  Heart = 0
  Report = 1
  MaxData = 1
  LenLimit = 2
  MaxSent = 2
  SerialBase = 4
  RECV_BUF_SIZE = 5
  MaxFrames = 3
  Groups = {"[PantoMoniTime]", "[PantoBackTime]"}
  Keys = {"MoniTime", "BackTime"}
  Entries <- TwoEntries
  Values = {10, 20}
  MaxLines = 2
  MaxSets = 2
INVARIANTS
  TypesOK ListWhole NoLeak FramesAsSent ShowsCurrent
  ReadsBack CacheIsSaved RowsHaveTheirPath OneChangePerThread
PROPERTIES
  ImplementsFifo EachFrameOnce
