SPECIFICATION Spec
CONSTANTS
  N = 3
  Founders = {2, 3}
  K = 3
  Services = {"task", "result", "worker", "data"}
  Clients = {c1, c2}
  Items = {x, y}
  Homes = {2, 3}
  None = None
  Unsure = Unsure
  PrimaryRetries = 1
  ReplicaRetries = 1
  MaxCalls = 3
  MaxTroubles = 1
INVARIANTS TypeOK  AssignmentsKept ReplicasFollow NoTaskTwice LockDiscipline
SYMMETRY Symmetry
CHECK_DEADLOCK FALSE
