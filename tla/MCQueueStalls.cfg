SPECIFICATION QueueSpec
CONSTANTS
  j1 = j1
  j2 = j2
  bad = bad
  Jobs = {j1}
  Malformed = {}
  Workers = {w1, w2}
  MayStall = TRUE
  MaxEnqueues = 1
  MaxFaults = 2
  MaxFailures = 4
  None = None
  Orphan = Orphan
SYMMETRY Symmetry
INVARIANTS NoJobLost DeadAfterThreeFailures
CHECK_DEADLOCK FALSE
