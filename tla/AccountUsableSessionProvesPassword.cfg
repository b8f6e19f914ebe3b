SPECIFICATION Spec
CONSTANTS
  Requests = {r1, r2}
  Sessions = {s1, s2, s3}
  None = None
  MaxFailures = 2
  MaxMfa = 2
  MaxVersion = 3
CHECK_DEADLOCK FALSE
INVARIANTS
  UsableSessionProvesPassword
