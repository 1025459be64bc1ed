CONSTANTS
  Tasks = {t1}
  Workers = {w1, w2}
  Requests = {q1}
  Scanners = {s1}
  None = None
  MaxAttempts = 1
  MaxRetries = 1
  Concurrency = 1
  Started = {w1, w2}
  Kinds = {"stop", "start", "silence", "reboot", "clear"}
  MaxTroubles = 2
SPECIFICATION Spec
INVARIANTS AttemptsWithinBudget 
 
CHECK_DEADLOCK FALSE
