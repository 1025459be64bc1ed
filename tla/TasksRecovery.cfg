CONSTANTS
  Tasks = {t1}
  Workers = {w1, w2}
  Requests = {q1}
  Scanners = {s1}
  None = None
  MaxAttempts = 1
  MaxRetries = 0
  Concurrency = 1
  Started = {w1, w2}
  Kinds = {"silence"}
  MaxTroubles = 1
SPECIFICATION Spec
PROPERTIES RecoveryPreservesResults
CHECK_DEADLOCK FALSE
