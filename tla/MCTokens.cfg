CONSTANTS
  NULL = NULL
  Tokens = {k1, k2, k3}
  Users = {u1, u2}
  Calls = {c1, c2, c3, c4}
  TTL = 2
  MaxTime = 2
  MaxFaults = 1
SPECIFICATION Spec
CHECK_DEADLOCK FALSE
INVARIANT TypeOK
INVARIANT SuccessorRetiresToken
INVARIANT RotatedBeforeRevoked
PROPERTY SessionSpec
SYMMETRY TokenSymmetry
