CONSTANTS
  NULL = NULL
  Tickets = {t1, t2, t3}
  Users = {staff, plain}
  Plain = {plain}
  Readers = {r1}
  Statuses = {"OPEN", "RESOLVED"}
  Filters <- MCFilters
  Assigned = staff
  DefaultLimit = 2
  MaxTime = 2
  MaxChanges = 5
SPECIFICATION Spec
CHECK_DEADLOCK FALSE
INVARIANT TypeOK
INVARIANT PagesComplete
INVARIANT RepeatsExplained
INVARIANT ListedIsReadable
SYMMETRY TicketSymmetry
