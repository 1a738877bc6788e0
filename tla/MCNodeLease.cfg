SPECIFICATION Spec
CONSTANTS
  Instance = {i1, i2}
  Second = 2
  LeaseTicks = 4
  MarginTicks = 2
  MaxTime = 9
  MaxInFlight = 1
  None = None
SYMMETRY Symmetry
INVARIANTS TypeOK LeaseAgreement
PROPERTY FencedForever
CHECK_DEADLOCK FALSE
