SPECIFICATION Spec
CONSTANTS
  a1 = a1  a2 = a2  p1 = p1  r1 = r1  v1 = v1  v2 = v2  t1 = t1  t2 = t2
  Apps = {a1, a2}
  Programs = {p1}
  ProgramOf <- MCProgramOf
  MaxStudents <- MCMaxStudents
  Referrers = {r1}
  Staff = {v1, v2}
  TaskWorkers = {t1, t2}
  Endpoints = {"enroll", "aid"}
  MaxRequests = 2
  MaxFailures = 1
  None = None
SYMMETRY Symmetry
INVARIANTS
  CountersExact
CHECK_DEADLOCK FALSE
