SPECIFICATION FairSpec
CONSTANTS
  Workers = {w1, w2}
  Dispatchers = {p1, p2}
  Deliveries = {d1, d2, d3}
  None = None
  MaxPublish = 3
  MaxCrashes = 1
  MaxErrors = 1
CHECK_DEADLOCK FALSE
INVARIANTS
  TypeOK
  OnlyNewestRuns
  ResultMatchesHistory
  StepMatchesTables
  WorkIsNeverLost
PROPERTIES
  AttemptHistoryIsFinal
  ImplementsExactlyOnce
  DeliveredWorkCompletes
