SPECIFICATION Spec
CONSTANTS
  Conn = {c1, c2}
  Subject = {s1, s2}
  Limit = 2
  MaxRequests = 3
  None = None
SYMMETRY Symmetry
INVARIANTS TypeOK CapacityExact TablesAgree NoOrphan RollbackSparesKnown Recoverable
CHECK_DEADLOCK FALSE
