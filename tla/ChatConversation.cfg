SPECIFICATION Spec
CONSTANTS
  Messages = {m1, m2, m3}
  Generations = {g1, g2, g3}
  Keys = {k1, k2}
  Labels = {l1, l2}
  Runners = {r1, r2}
  None = None
  MaxFaults = 1
SYMMETRY Symmetry
INVARIANTS AnswersMatchGenerations OneCurrentRevision StreamingHasATask
PROPERTY EventsReplay
CHECK_DEADLOCK FALSE
