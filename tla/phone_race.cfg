SPECIFICATION PhoneSpec
CONSTANTS
  Signals = {s1, s2}
  Refused = {}
  Uploads = {u1}
  QueueMax = 2
  BatchMax = 2
  MaxPosts = 2
  MaxLosses = 0
PROPERTIES RemovedAfterAnswer
CHECK_DEADLOCK FALSE
