CONSTANTS
  u1 = u1
  u2 = u2
  Users = {u1, u2}
  Nobody = Nobody
  Main = Main
  T = 1
  E = 1
  NPT = 6
  NFFS = 1
  NSWAP = 2
  Vals = {a, b}
  Junk = Junk
  Requests <- Begun
  Stray = FALSE
  Quota = 1
  MaxCreate = 2
  MaxSwapCount = 2
  WORD = 8
SPECIFICATION Spec
CHECK_DEADLOCK FALSE
INVARIANTS TablesAgree TablesHoldLiving PrivateFrames ReadsBack HeapCountCovers
SYMMETRY Symmetry
VIEW Relevant
