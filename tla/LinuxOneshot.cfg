SPECIFICATION Spec
CONSTANTS
  Handlers = {h1, h2}
  Runs = {r1, r2}
  Dists = {ubuntu24, rocky9}
  Archives = {p1, p2}
  None = None
  MaxAttempts = 1
SYMMETRY Symmetry
INVARIANTS ReceiptProvesResult RunMatchesItsTables
PROPERTY CompletesUnderItsKey
CHECK_DEADLOCK FALSE
