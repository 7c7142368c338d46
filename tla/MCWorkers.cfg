CONSTANTS
  NULL = NULL
  Workers = {w1, w2}
  Checks = {}
  Notices = {n1}
  Sweep = sweep
  NotificationAttempts = 2
  ReassignmentConcurrency = 1
  NotificationConcurrency = 1
  MaxStalled = 1
  MaxCrashes = 2
SPECIFICATION FairSpec
INVARIANT TypeOK
INVARIANT StopsAreClean
INVARIANT StartsBounded
INVARIANT DuplicatesExplained
PROPERTY JobsSettle
PROPERTY SweepsKeepComing
