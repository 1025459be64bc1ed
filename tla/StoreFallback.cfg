SPECIFICATION Spec
CONSTANTS
  N = 3
  Founders = {1, 2, 3}
  K = 3
  Services = {"task"}
  Clients = {c1}
  Items = {x}
  Homes = {2}
  None = None
  Unsure = Unsure
  PrimaryRetries = 1
  ReplicaRetries = 1
  MaxCalls = 2
  MaxTroubles = 1
PROPERTIES ReadsFallBack
CHECK_DEADLOCK FALSE
