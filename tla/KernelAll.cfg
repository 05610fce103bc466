SPECIFICATION Spec
CONSTANTS
  NPROC = 3
  NSEM = 1
  QUANTUM = 1
  InitPrio = 2
  Syscalls = {"create", "resume", "suspend", "yield", "sleepms", "receive", "create-nostack", "recvtime", "recvclr", "send", "semcreate", "wait", "signal", "signaln", "semdelete", "semreset", "kill"}
  Prios = {1}
  Delays = {2}
  Waits = {1}
  Msgs = {7}
  Counts = {0, 1}
  MaxCount = 1
INVARIANTS
  TypeOK
  QueuesMatchStates
  HighestPriorityRuns
  HaltsWithLast
