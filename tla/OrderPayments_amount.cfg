SPECIFICATION Spec
CONSTANTS
  u1 = u1  u2 = u2  math = math  art = art  half = half  full = full
  w1 = w1  w2 = w2  w3 = w3  o1 = o1  o2 = o2  o3 = o3  o4 = o4  i1 = i1  i2 = i2
  Users = {u1}
  Courses = {math}
  Codes = {half, full}
  Spellings = {1}
  Workers = {w1, w2}
  OrderIds = {o1, o2}
  IntentIds = {i1, i2}
  Fee <- MCFee
  Percent <- MCPercent
  ValidFor <- MCValidFor
  MaxTotal <- MCTwo
  MaxPerUser <- MCOne
  Endpoints = {"create", "apply", "verify"}
  LocksOutliveRequests = TRUE
  None = None
SYMMETRY Symmetry
PROPERTIES
  VerifiedAmountMatches
