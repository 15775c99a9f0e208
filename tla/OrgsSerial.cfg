CONSTANTS
  Users = {u1, u2}
  Orgs = {o1}
  MemberIds = {k1, k2, k3}
  Invitations = {i1, i2}
  Requests = {r1}
  Endpoints = {"create", "invite", "accept", "expire", "revoke", "role", "remove", "delete"}
  Grantable = {"member", "admin", "owner"}
  MaxSlug = 1
  MemberLimit = 5
  Founder = Founder
  None = None
SPECIFICATION Spec
SYMMETRY MCSymmetry
INVARIANTS OnePendingInvitation RedeemedIsAccepted
PROPERTIES SingleUse OwnersOnlyByOwners
