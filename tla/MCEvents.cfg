CONSTANTS
  NULL = NULL
  Tickets = {t1, t2}
  Preexisting = {t1}
  Users = {1, 2}
  Agents = {1}
  Admins = {2}
  Requests = {r1, r2}
  RequestKinds = {"create", "comment", "assign", "status"}
  Workers = {w1}
  Sweeps = {}
  SLA = 2
  MaxAutoReassignments = 1
  SweepLimit = 1
  RequestLatency = 1
  MaxTime = 3
  MaxFaults = 1
  FailingSubscribers = {"scheduler", "notification"}
  Observed = {"notification"}
SPECIFICATION Spec
CHECK_DEADLOCK FALSE
INVARIANT TypeOK
INVARIANT ReassignmentsAnnounced
INVARIANT AnnouncementsTrue
INVARIANT ChecksCoverTickets
SYMMETRY RequestSymmetry
