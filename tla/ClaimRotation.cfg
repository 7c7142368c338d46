CONSTANTS
  NULL = NULL
  Tokens = {k1, k2, k3}
  Users = {u1}
  Calls = {c1, c2, c3}
  TTL = 2
  MaxTime = 1
  MaxFaults = 0
CHECK_DEADLOCK FALSE
SPECIFICATION Spec
INVARIANT RotationLinked
