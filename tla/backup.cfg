SPECIFICATION MCSpec
CONSTANTS
  c1 = c1
  c2 = c2
  Conns = {c1, c2}
  Postings = {x1}
  Workers = {w1, w2}
  Users = {u1}
  Nobody = Nobody
  ClaimLimit = 1
  MaxTime = 1
  MaxFiles = 5
  MaxAsks = 2
  MaxFaults = 1
INVARIANTS CopyRestorable NoOrphanCredentials
PROPERTIES OnlyLatePostingsLost NoDateSkipped 
CHECK_DEADLOCK FALSE
