SPECIFICATION MCSpec
CONSTANTS
  NPROC = 4
  NSEM = 0
  QUANTUM = 1
  InitPrio = 1
  Syscalls = {"receive", "kill"}
  Prios = {1}
  Delays = {}
  Waits = {}
  Msgs = {}
  Counts = {}
  MaxCount = 0
INVARIANTS
  HaltsOnlyWithLast
