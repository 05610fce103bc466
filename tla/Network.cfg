SPECIFICATION NetworkSpec
CHECK_DEADLOCK FALSE
CONSTANTS
  Resolvers = {r1, r2}
  Hosts = {h1, h2, h3}
  ARP_SIZ = 2
  ARP_RETRY = 2
  Users = {u1, u2}
  Keys = {k1, k2}
  UDP_SLOTS = 2
  UDP_QSIZ = 1
  UdpBufs = 2
  Pingers = {p1, p2}
  Remotes = {x1, x2}
  Replies = {1}
  ICMP_SLOTS = 3
  ICMP_QSIZ = 2
  Senders = {s1, s2}
  IP_OQSIZ = 2
  NetBufs = 4
  UpperRoom = 2
  RxRingSize = 6
  TxRingSize = 3
  BOUNDARY = 2
  EthWriters = {w1, w2}
  RfClients = {c1, c2}
  RfNames = {n1}
  RfDevs = {1}
  RfBytes = {1, 2}
  RfCounts = {0, 2}
  RfPositions = {1}
  RfModes = {{}, {"n"}, {"o", "r"}, {"n", "o"}}
  RF_RETRIES = 2
  MaxRfSeq = 3
  MaxRfWire = 2
  TFTP_MAXDATA = 2
  TFTP_MAXRETRIES = 2
  TFTP_BLOCKS = 8
  FileSizes = {4, 5}
  BufferLists <- BufferListsDef
  TransferPorts = {t1, t2}
  StrayPort = stray
INVARIANTS
  CacheSound
  EndpointsSound
  PingsSound
  QueueSound
  RingsSound
  RemoteFilesSound
  TransferSound
