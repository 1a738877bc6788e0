SPECIFICATION FairSpec
CONSTANTS
  p1 = p1
  p2 = p2
  t1 = t1
  t2 = t2
  MaxUnsent = 1
  Unseen = Unseen
  Lost = Lost
  Participant = {p1, p2}
  Track = {t1, t2}
  Client = {p2}
  Owner <- MCOwner
INVARIANTS IndicesAgree RoutesMatch ViewCurrent
PROPERTY GoneTracksUnpublished
CHECK_DEADLOCK FALSE
