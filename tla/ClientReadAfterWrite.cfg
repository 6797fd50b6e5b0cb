SPECIFICATION Spec

CONSTANTS
  k1 = k1
  k2 = k2
  Contents <- ShortContents
  KeyNames = {k1, k2}
  SeCounts = {1, 2}
  MaxWrites = 1
  Faults = {}

INVARIANTS
  SameContentReturned

SYMMETRY KeySymmetry
