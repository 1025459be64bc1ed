CONSTANTS
  M = 2
  Nodes = {0, 1, 3}
  None = None
  MaxJoins = 2
  MaxCrashes = 0
  MaxLeaves = 0
  MaxFaults = 1
SPECIFICATION SpecBootstrap
INVARIANTS OneOrderedRing
PROPERTIES SuccessorOnlyCloser SelfHeals
