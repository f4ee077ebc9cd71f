SPECIFICATION Spec
CONSTANTS
  NoKey = NoKey
  NULL = NULL
  Items = {i1, i2, i3, i4}
  Numbers = {2}
  IntMax = 4
  Strings = {}
  Keys <- MCKeys
  Lower <- MCLower
SYMMETRY MCSymmetry
INVARIANTS WellFormed RoundTrip WholeOrNothing
PROPERTY KeepsDocuments
CHECK_DEADLOCK FALSE
