CONSTANTS
  NULL = NULL
  Tickets = {t1}
  Preexisting = {t1}
  Users = {1, 2, 3}
  Agents = {1, 2}
  Admins = {3}
  Requests = {r1}
  RequestKinds = {"comment", "assign", "status"}
  Workers = {w1}
  Sweeps = {s1}
  SLA = 2
  MaxAutoReassignments = 1
  SweepLimit = 1
  RequestLatency = 1
  MaxTime = 4
  MaxFaults = 1
  FailingSubscribers = {}
  Observed = {}
SPECIFICATION Spec
CHECK_DEADLOCK FALSE
INVARIANT CapRespected
INVARIANT SnapshotsSound
PROPERTY ReassignsOnlyOverdue
PROPERTY ReassignmentsSpaced
PROPERTY AutoHistoryTrue
PROPERTY PromiseSpec
