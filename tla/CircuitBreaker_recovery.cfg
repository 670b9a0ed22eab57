SPECIFICATION FairSpec
CONSTANTS
  Callers = {c1, c2}
  Threshold = 2
  Recovery = 1
  TTL = 3
  MaxRaised = 4
INVARIANTS
  TypeOK
  TripIsEarned
  NoSilentFailures
PROPERTIES
  Recovers
