CONSTANTS
  NULL = NULL
  Tickets = {t1, t2}
  Preexisting = {t1, t2}
  Users = {1, 2}
  Agents = {1, 2}
  Admins = {}
  Requests = {r1}
  RequestKinds = {"comment"}
  Workers = {}
  Sweeps = {s1}
  SLA = 1
  MaxAutoReassignments = 2
  SweepLimit = 2
  RequestLatency = 0
  MaxTime = 2
  MaxFaults = 1
  FailingSubscribers = {}
  Observed = {}
SPECIFICATION FairSpec
CHECK_DEADLOCK FALSE
PROPERTY EveryLapseEnds
