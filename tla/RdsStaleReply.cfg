SPECIFICATION RdsSpec
CHECK_DEADLOCK FALSE
CONSTANTS
  RdClients = {d1, d2}
  DiskBlocks = {1}
  RdData = {1}
  RdBufs = {b1, b2}
  RD_RETRIES = 2
  MaxExchanges = 3
PROPERTY
  ReplyMatchesRequest
