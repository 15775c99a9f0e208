CONSTANTS
  Requests = {r1}
  Codes = {c1, c2, c3}
  PlanOf <- MCThreeCodes
  Endpoints = {"verify", "cancel", "charge", "create", "disable", "failed"}
  Quirks = {}
  MaxEvents = 6
  None = None
  c1 = c1
  c2 = c2
  c3 = c3
SPECIFICATION Spec
INVARIANTS InStep CanceledIsDisabled
