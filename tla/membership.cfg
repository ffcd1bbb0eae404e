SPECIFICATION Spec
CONSTANTS
  Memberships <- MCMemberships
  Events <- MCEvents
  Ids = {i1, i2}
  Handlers = {h1, h2}
  Managers = {g1, g2}
  NoEvent = NoEvent
  NoId = NoId
  MaxDocs = 1
  MaxFaults = 1
INVARIANTS EventExclusive MainAccount
PROPERTIES GrowsWithinPlan RestoreFaithful
SYMMETRY MCSymmetry
CHECK_DEADLOCK FALSE
