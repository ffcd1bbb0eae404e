SPECIFICATION Spec
CONSTANTS
  n1 = n1
  g1 = g1
  g2 = g2
  Signals = {n1, g1, g2}
  Twin <- MCTwin
  Confidence <- MCConfidence
  Ingesters = {i1}
  Reviewers = {u1}
  NoSignal = NoSignal
  Target = 2
INVARIANTS PostedOnce 
PROPERTIES DecisionStands
CHECK_DEADLOCK FALSE
