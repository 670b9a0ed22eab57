SPECIFICATION Spec
CONSTANTS
  c1 = c1  c2 = c2  q1 = q1  q2 = q2  w1 = w1  w2 = w2
  long = long  short = short
  Courses = {c1, c2}
  Exams = {c1}
  Questions = {q1}
  Workers = {w1, w2}
  MaxAttempts = 2
  MaxKills = 1
  Passing <- MCPassing
  Specs = {long, short}
  CoursesOf <- MCCoursesOf
  Applied = {c2}
  Joining = {long}
  MaxCertificates <- MCMaxCertificates
  None = None
SYMMETRY Symmetry
INVARIANTS
  TypeOK
  ScoreIsEarned
  OpenAttemptsBounded
  CertificatesAreEarned
  SpecializationsFollow
PROPERTIES
  OverdueCloses
  KeepsCredentials
CHECK_DEADLOCK FALSE
