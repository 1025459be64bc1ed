CONSTANTS
  M = 2
  Nodes = {0, 1, 3}
  None = None
  MaxJoins = 0
  MaxCrashes = 1
  MaxLeaves = 1
  MaxFaults = 0
SPECIFICATION SpecSettled
INVARIANTS TypeOK
PROPERTIES DeadPredecessorCleared HealsOnceForgotten
