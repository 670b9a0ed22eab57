SPECIFICATION Spec
CONSTANTS
  s1 = s1  s2 = s2  w1 = w1  w2 = w2
  monthly = monthly  yearly = yearly
  Subs = {s1, s2}
  Billed <- MCBilled
  Delay <- MCDelay
  Plans = {monthly, yearly}
  Plan <- MCPlan
  Monthly = {monthly}
  Month = 1
  Year = 2
  Workers = {w1, w2}
  MaxRows = 2
  MaxDisturbances = 1
  None = None
INVARIANTS
  TypeOK
  AccessIsBacked
PROPERTIES
  SubscriberHasAccess
