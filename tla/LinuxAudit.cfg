SPECIFICATION FairSpec
CONSTANTS
  Runs = {r1}
  Followed = {r1}
  Starters = {s1, s2}
  Cancellers = {c1}
  None = None
  Probes = 1
  Controls = 1
  MaxBatch = 2
  MaxFaults = 1
  MaxCrashes = 1
  MaxDrops = 1
INVARIANTS EventsEndWithTheRun PageSeesEveryEventOnce OneCommandAfterCancel
PROPERTIES RunEnds PageLearnsEnd
CHECK_DEADLOCK FALSE
