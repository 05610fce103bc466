SPECIFICATION MixSpec
CONSTANTS
  NPROC = 4
  NSEM = 1
  QUANTUM = 1
  InitPrio = 2
  Syscalls = {"semcreate", "wait", "signal", "signaln", "semreset", "semdelete", "chprio", "receive", "recvtime", "send", "suspend", "resume", "sleepms", "kill"}
  Prios = {1}
  Delays = {1, 3}
  Waits = {2}
  Msgs = {7}
  Counts = {0, 2}
  MaxCount = 2
INVARIANTS
  SemaphoresSound
  DeferInLoops
  ReadySorted
  ReceiversSound
PROPERTIES
  NoOvertaking
  MessageKept
  OthersKeepDelay
  StateDiagram
