SPECIFICATION MCFairSpec
CONSTANTS
  NPROC = 4
  NSEM = 0
  QUANTUM = 2
  InitPrio = 1
  Syscalls = {"yield", "sleepms", "recvtime", "send", "chprio"}
  Prios = {1}
  Delays = {1, 3}
  Waits = {2}
  Msgs = {0}
  Counts = {}
  MaxCount = 0
PROPERTIES
  ReadyRuns
  SleeperWakes
