SPECIFICATION Spec
CONSTANTS
  Proc = {p1, p2}
  TokenTtl = 2
  RetireHold = 4
  AdmissionHold = 3
  ActiveSlack = 1
  MaxReleaseDelay = 6
  MaxTime = 6
  MaxAssignments = 2
  MaxMembers = 1
  None = None
SYMMETRY Symmetry
INVARIANT RetirementCoversTokens
CHECK_DEADLOCK FALSE
