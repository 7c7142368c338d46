CONSTANTS
  NULL = NULL
  Users = {root, ana}
  Founder = root
  Calls = {c1, c2, c3}
  AccessTTL = 1
  SignLatency = 1
  MaxTime = 4
  MaxChanges = 1
SPECIFICATION Spec
CHECK_DEADLOCK FALSE
INVARIANT AuthorityExpires
INVARIANT RoutesFollowTable
SYMMETRY CallSymmetry
