SPECIFICATION Spec
CONSTANTS
  Conns = {c1, c2}
  Jobs = {j1}
  Tokens = {1, 2, 3, 4, 5}
  Workers = {}
  Users = {}
  Renewers = {r1, r2}
  NoConn = NoConn
  NoTok = 0
  ClaimLimit = 2
  PageCap = 2
  MaxHistory = 0
  MaxFaults = 1
PROPERTIES WatchLeaseKept
CHECK_DEADLOCK FALSE
