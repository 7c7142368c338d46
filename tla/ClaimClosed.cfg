CONSTANTS
  NULL = NULL
  Tickets = {t1}
  Preexisting = {t1}
  Users = {1, 2, 3}
  Agents = {1, 2}
  Admins = {3}
  Requests = {r1, r2}
  RequestKinds = {"status"}
  Workers = {w1}
  Sweeps = {s1}
  SLA = 3
  MaxAutoReassignments = 1
  SweepLimit = 1
  RequestLatency = 1
  MaxTime = 4
  MaxFaults = 0
  FailingSubscribers = {}
  Observed = {}
CHECK_DEADLOCK FALSE
SPECIFICATION Spec
PROPERTY ClosedIsTerminal
