CONSTANTS
  o1 = o1
  o2 = o2
  c1 = c1
  c2 = c2
  c3 = c3
  p1 = p1
  Orgs = {o1, o2}
  Codes = {c1, c2, c3}
  Customers = {p1}
  OrgOf <- MCOrgOf
  PayerOf <- MCPayerOf
  Requests = {r1, r2}
  Endpoints = {"verify", "create", "cancel", "delete"}
  None = None
SPECIFICATION FairSpec
INVARIANT IInv
PROPERTIES Ledgered SubscribedStays EveryRequestEnds
