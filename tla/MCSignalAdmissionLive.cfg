SPECIFICATION FairSpec
CONSTANTS
  Conn = {c1, c2}
  Subject = {s1}
  Limit = 1
  MaxRequests = 2
  None = None
PROPERTIES ClosedIsDetached PendingSettles
CHECK_DEADLOCK FALSE
