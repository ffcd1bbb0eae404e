SPECIFICATION Spec
CONSTANTS
  Conns = {c1}
  Jobs = {j1}
  Tokens = {1, 2, 3}
  Workers = {w1}
  Users = {u1}
  Renewers = {}
  NoConn = NoConn
  NoTok = 0
  ClaimLimit = 2
  PageCap = 1
  MaxHistory = 2
  MaxFaults = 1
INVARIANTS NoSilentSkip
PROPERTIES QSpec
CHECK_DEADLOCK FALSE
