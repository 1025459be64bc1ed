CONSTANTS
  Jobs = {j1}
  Replicas = {j1}
  Absent = Absent
  MaxRetries = 3
  PoolSize = 2
  MaxTimeouts = 2
  MaxRestarts = 1
SPECIFICATION Spec
INVARIANTS TypeOK RetriesWithinBudget ActiveHasExecutor OneExecutor
PROPERTIES FinalStaysFinal JobsSurviveRestart SettlesUnlessRestarted
