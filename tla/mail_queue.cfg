SPECIFICATION QFairSpec
CONSTANTS
  Conns = {c1, c2}
  Jobs = {j1, j2}
  Tokens = {1, 2, 3, 4, 5, 6}
  Workers = {w1, w2}
  Users = {u1}
  NoConn = NoConn
  NoTok = 0
  ClaimLimit = 2
  MaxFaults = 2
INVARIANTS OneActiveJob LeaseExclusive
PROPERTIES JobsDrain LeasePromise
CHECK_DEADLOCK FALSE
