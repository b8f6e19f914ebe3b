SPECIFICATION FairSpec
CONSTANTS
  Streams = {x1, x2}
  Cancellers = {c1}
  Nobody = Nobody
  Controls = 2
  Format = "current"
  ProviderLimit = 2
  MaxRestarts = 1
  MaxUnstored = 1
INVARIANTS OneGenerator CompletedIsRestorable
PROPERTY SlotIsFreed
CHECK_DEADLOCK FALSE
