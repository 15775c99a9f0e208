CONSTANTS
  Requests = {r1, r2}
  Codes = {c1, c2}
  PlanOf <- MCTwoPlans
  Endpoints = {"verify", "cancel", "create"}
  Quirks = {"reorder", "again", "replay", "bare", "lose"}
  MaxEvents = 4
  None = None
  c1 = c1
  c2 = c2
  c3 = c3
SPECIFICATION Spec
SYMMETRY MCSymmetry
INVARIANTS IInv PaidPlan MixedOnlyWithTwins
