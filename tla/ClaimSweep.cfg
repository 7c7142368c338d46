CONSTANTS
  NULL = NULL
  Tickets = {t1, t2}
  Preexisting = {t1}
  Users = {1, 2}
  Agents = {1}
  Admins = {2}
  Requests = {r1}
  RequestKinds = {"create"}
  Workers = {w1}
  Sweeps = {s1}
  SLA = 1
  MaxAutoReassignments = 1
  SweepLimit = 1
  RequestLatency = 0
  MaxTime = 2
  MaxFaults = 1
  FailingSubscribers = {}
  Observed = {}
CHECK_DEADLOCK FALSE
SPECIFICATION FairSpec
PROPERTY SweepReviewsAll
