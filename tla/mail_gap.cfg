SPECIFICATION Spec
CONSTANTS
  Conns = {c1}
  Jobs = {j1}
  Tokens = {1, 2, 3}
  Workers = {w1}
  Users = {}
  Renewers = {r1}
  NoConn = NoConn
  NoTok = 0
  ClaimLimit = 2
  PageCap = 2
  MaxHistory = 1
  MaxFaults = 0
INVARIANTS IncrementalComplete
CHECK_DEADLOCK FALSE
