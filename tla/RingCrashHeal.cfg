CONSTANTS
  M = 3
  Nodes = {0, 3, 5}
  None = None
  MaxJoins = 0
  MaxCrashes = 1
  MaxLeaves = 0
  MaxFaults = 0
SPECIFICATION SpecSettled
PROPERTIES SelfHeals
