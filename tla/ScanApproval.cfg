SPECIFICATION Spec
CONSTANTS
  Users = {alice, bob}
  Tokens = {t1}
  Requests = {q1, q2}
  Codes = {k1, k2}
  Deciders = {d1, d2}
  Collectors = {lin, win}
  Windows = {win}
  None = None
  MaxRuns = 2
  MaxPolls = 2
SYMMETRY Symmetry
INVARIANTS ApprovedByOwner GrantIsForItsRequest
CHECK_DEADLOCK FALSE
