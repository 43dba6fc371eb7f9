SPECIFICATION Spec
CONSTANTS
  Session = {s1, s2, s3}
  Login = {l1, l2}
  Request = {q1}
  TTL = 3
  Window = 2
  MaxAttempts = 2
  MaxSessions = 2
  MaxTime = 4
  MaxTries = 3
SYMMETRY Symmetry
INVARIANTS
  SessionCap
  StaleRequestRefused
  ThrottleHolds
PROPERTIES
  DeadSessionsStayDead
  ValidSessionsKept
