SPECIFICATION AppSpec
CONSTANTS
  Signals = {s1, s2, s3}
  Refused = {s3}
  Uploads = {u1, u2}
  QueueMax = 2
  BatchMax = 1
  MaxPosts = 3
  MaxLosses = 1
  k1 = k1
  k2 = k2
  k3 = k3
  Attempts = {i1, i2}
  Keys = {k1, k2, k3}
  Bad = {k3}
  Files <- MCFiles
  CategoryOf <- MCCategoryOf
  MaxDrops = 1
  MaxDeletions = 1
  Goals = {"car"}
  Named = {"car", "food"}
  Windows = {w1, w2}
  Amounts = {0, 1}
  MaxDay = 1
  GoalMax = 2
  MaxWrites = 3
  People = {"ana", "bob"}
  Reads = {r1, r2}
  PollMax = 2
  MaxSwitches = 2
  MaxOutages = 1
INVARIANTS SummaryTrue ReachedIsCompleted EventsWin SnapshotOwned
PROPERTIES NothingForgotten Delivered EditorAuthoritative AccessSettles
CHECK_DEADLOCK FALSE
