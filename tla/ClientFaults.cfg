SPECIFICATION Spec

CONSTANTS
  k1 = k1
  k2 = k2
  Contents <- ShortContents
  KeyNames = {k1, k2}
  SeCounts = {0, 1, 2}
  MaxWrites = 2
  Faults = {"crash", "loss", "select"}

INVARIANTS
  IInv
  TypeOK
  NoMixedRead
  QuietReadReturnsContent

SYMMETRY KeySymmetry
