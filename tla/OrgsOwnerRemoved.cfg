CONSTANTS
  Users = {u1, u2}
  Orgs = {o1}
  MemberIds = {k1, k2}
  Invitations = {i1}
  Requests = {r1}
  Endpoints = {"create", "invite", "accept", "remove"}
  Grantable = {"member", "admin"}
  MaxSlug = 1
  MemberLimit = 5
  Founder = Founder
  None = None
SPECIFICATION Spec
PROPERTY OwnersNotRemovedByAdmins
