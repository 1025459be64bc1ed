CONSTANTS
  Tasks = {t1, t2}
  Workers = {w1, w2}
  Requests = {q1, q2}
  Scanners = {s1}
  None = None
  MaxAttempts = 1
  MaxRetries = 0
  Concurrency = 1
  Started = {w1, w2}
  Kinds = {"fault"}
  MaxTroubles = 1
SPECIFICATION Spec
INVARIANTS TypeOK AcceptedKeepsRecord
PROPERTIES  ImplementsBoard
CHECK_DEADLOCK FALSE
