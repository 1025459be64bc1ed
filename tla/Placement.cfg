SPECIFICATION Spec
CONSTANTS
  N = 3
  Jobs = {j1}
  None = None
  Homes = {1}
  Factors = {1, 2}
  MaxKeys = 3
  Kinds = {"crash", "leave", "evict", "fault"}
  MaxTroubles = 2
INVARIANTS TypeOK OneNodeRuns
PROPERTIES  ReplicatedJobsEnd
CHECK_DEADLOCK FALSE
