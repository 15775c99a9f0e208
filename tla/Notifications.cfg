CONSTANTS
  Users = {u1, u2}
  Client = u1
  Requests = {r1, r2}
  Rows = {n1, n2, n3}
  Limit = 1
  MaxTime = 1
SPECIFICATION Spec
SYMMETRY MCSymmetry
INVARIANTS MissedOnlyInTies
PROPERTIES MarkedAll
