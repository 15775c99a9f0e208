CONSTANTS
  Users = {u1, u2}
  Orgs = {o1, o2}
  MemberIds = {k1, k2, k3}
  Invitations = {i1}
  Requests = {r1, r2}
  Endpoints = {"create", "invite", "accept", "expire", "revoke", "role", "remove", "delete"}
  Grantable = {"admin"}
  MaxSlug = 2
  MemberLimit = 5
  Founder = Founder
  None = None
SPECIFICATION Spec
SYMMETRY MCSymmetry
INVARIANTS UniqueSeat MembershipOrigin IInv
PROPERTY AtomicCommits
