CONSTANTS
  u1 = u1
  u2 = u2
  Users = {u1}
  Nobody = Nobody
  Main = Main
  T = 1
  E = 2
  NPT = 5
  NFFS = 4
  NSWAP = 2
  Vals = {a, b}
  Junk = Junk
  Requests <- OneOrTwo
  Stray = FALSE
  Quota = 3
  MaxCreate = 1
  MaxSwapCount = 2
  WORD = 8
SPECIFICATION Spec
CHECK_DEADLOCK FALSE
INVARIANT BlocksDisjoint
