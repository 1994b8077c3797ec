SPECIFICATION FairSpec
CONSTANTS
  a = a
  b = b
  j1 = j1
  j2 = j2
  j3 = j3
  None = None
  Job = {j1, j2, j3}
  Cand = {a, b}
  CandOf <- MCCandOf
  MaxVms = 2
  MaxFailures = 0
PROPERTIES EveryCapsuleIsAnswered
CHECK_DEADLOCK FALSE
