CONSTANTS
  p1 = p1
  p2 = p2
  p3 = p3
  Emails = {e1, e2, e3}
  Identities <- MCIdentities
  Requests = {r1, r2}
  None = None
SPECIFICATION Spec
SYMMETRY MCSymmetry
INVARIANTS IInv OneAccountPerIdentity IdentityIsReal
PROPERTIES SameAccount LinkStays
