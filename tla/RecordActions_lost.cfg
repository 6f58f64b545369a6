SPECIFICATION Spec
CONSTANTS
  Workers = {w1, w2}
  Urls = {u1, u2}
  Pages = {u1}
  Tags = {a, b}
  TagLists <- MCTagLists
  Contents <- MCContents
  a = a
  b = b
  u1 = u1
  u2 = u2
  IntMax = 127
  MergeWrite = TRUE
  Faults = {}
  MaxCalls = 2
SYMMETRY Symmetry
INVARIANT EveryViewCounted
