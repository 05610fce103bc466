SPECIFICATION MCFairSpec
CONSTANTS
  NPROC = 3
  NSEM = 0
  QUANTUM = 1
  InitPrio = 1
  Syscalls = {"sleepms", "recvtime"}
  Prios = {1}
  Delays = {2}
  Waits = {0}
  Msgs = {}
  Counts = {}
  MaxCount = 0
PROPERTIES
  SleepEnds
