CONSTANTS
  M = 3
  MaxMembers = 3
  None = None
SPECIFICATION Spec
INVARIANTS TypeOK LookupCorrect VisitsEachNodeOnce
PROPERTIES HopsApproachKey LookupReturns
