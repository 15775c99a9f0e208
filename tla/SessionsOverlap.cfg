CONSTANTS
  Requests = {r1, r2}
  Life <- MCLife
  MaxTime = 4
SPECIFICATION Spec
SYMMETRY MCSymmetry
INVARIANTS IInv PairsAreEarned
PROPERTY RevokedIsRefused
