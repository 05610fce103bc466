CONSTANTS
  u1 = u1
  u2 = u2
  Users = {u1}
  Nobody = Nobody
  Main = Main
  T = 2
  E = 1
  NPT = 7
  NFFS = 2
  NSWAP = 2
  Vals = {a}
  Junk = Junk
  Requests <- Mixed
  Stray = FALSE
  Quota = 4
  MaxCreate = 1
  MaxSwapCount = 2
  WORD = 8
SPECIFICATION Spec
CHECK_DEADLOCK FALSE
INVARIANTS OneCopy SwapCopyFresh FrameFound ReadsBack
VIEW Relevant
