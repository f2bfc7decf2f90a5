SPECIFICATION FairQueueSpec
CONSTANTS
  j1 = j1
  j2 = j2
  bad = bad
  Jobs = {j1, bad}
  Malformed = {bad}
  Workers = {w1, w2}
  MayStall = FALSE
  MaxEnqueues = 2
  MaxFaults = 3
  MaxFailures = 6
  None = None
  Orphan = Orphan
INVARIANTS QueueTypeOK NoJobLost OneRunner
PROPERTY JobsSettle
CHECK_DEADLOCK FALSE
