SPECIFICATION Spec
CONSTANTS
  Requests = {r1, r2}
  Sessions = {s1, s2}
  None = None
  MaxFailures = 1
  MaxMfa = 2
  MaxVersion = 3
SYMMETRY Symmetry
CHECK_DEADLOCK FALSE
INVARIANTS
  CountedOutIsLocked
  NoSessionBeforeApproval
  MfaGuessesBounded
PROPERTIES
  StaleSessionStaysStale
