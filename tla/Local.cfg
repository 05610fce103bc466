SPECIFICATION LocalSpec
CHECK_DEADLOCK FALSE
CONSTANTS
  LastPage = 7
  PageCounts = {1, 2, 3, 4, 5, 6, 7, 8, 9}
  ALIGN = 2
  WORDSIZE = 1
  Areas <- AreasDef
  Asked = {1, 2, 3, 6}
  Getters = {g1, g2, g3}
  NBPOOLS = 2
  Numbufs = {1, 2}
  HeapRoom = 3
  SemRoom = 1
  Markers = {m1, m2}
  Locations = {l1, l2, l3}
  MAXMARK = 2
  Unset = 0
  Callers = {c1, c2, c3}
  NPORTS = 1
  PT_MSGS = 2
  Counts = {1, 3}
  Words = {1, 2}
  MaxSeq = 3
  TtyReaders = {r1}
  TtyWriters = {w1, w2}
  Printable = {"a"}
  Control = {}
  TY_IBUFLEN = 3
  TY_OBUFLEN = 2
  TY_EBUFLEN = 4
  UART_FIFO_SIZE = 3
  ReadCounts = {1, 2}
  WriteCounts = {1, 3}
  RdClients = {d1, d2}
  DiskBlocks = {0}
  RdData = {1, 2}
  RdBufs = {b1, b2}
  RD_RETRIES = 2
  MaxExchanges = 3
  FileNames = {f1, f2}
  LfDevs = {v1, v2}
  IBlocks = 2
  DBlocks = 2
  LF_IBLEN = 1
  LF_BLKSIZ = 2
  LF_NUM_DIR_ENT = 2
  Bytes = {1}
  MaxSize = 3
INVARIANTS
  FirstFits
  HeapSound
  PoolsSound
  MarkedForGood
  PortsSound
  OutputSound
  DiskSound
  FilesSound
PROPERTIES
  PortsAreChannels
  EditsAsPromised
