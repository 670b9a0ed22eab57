SPECIFICATION Spec
CONSTANTS
  a1 = a1  a2 = a2  p1 = p1  r1 = r1  v1 = v1  v2 = v2  t1 = t1  t2 = t2
  Apps = {a1, a2}
  Programs = {p1}
  ProgramOf <- MCProgramOf
  MaxStudents <- MCMaxStudents
  Referrers = {r1}
  Staff = {v1, v2}
  TaskWorkers = {}
  Endpoints = {"review", "enroll", "aid", "specialization"}
  MaxRequests = 3
  MaxFailures = 2
  None = None
SYMMETRY Symmetry
INVARIANTS
  TypeOK
  NoUnbackedPoints
  RewardsFollowAcceptance
  CreditMatchesRewards
  StatusOnRecord
CHECK_DEADLOCK FALSE
