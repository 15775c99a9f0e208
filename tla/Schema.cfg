CONSTANTS
  Workers = {w1, w2, w3}
  Rows <- MCRows
SPECIFICATION Spec
SYMMETRY MCSymmetry
INVARIANTS AtRevision SeedWhole SubscriptionsNeverStored
PROPERTIES RowsKept
