SPECIFICATION Spec
CONSTANTS
  u1 = u1  u2 = u2  c1 = c1  c2 = c2  w1 = w1  w2 = w2
  Users = {u1, u2}
  Courses = {c1, c2}
  Enrolments <- MCEnrolments
  Capacity <- MCCapacity
  Track = {c1, c2}
  Workers = {w1, w2}
  MaxRequests = 3
  None = None
SYMMETRY Symmetry
INVARIANTS
  TypeOK
  SeatsMatch
  OversoldBound
CHECK_DEADLOCK FALSE
