SPECIFICATION FairSpec
CONSTANTS
  Parsers = {p1}
  MaxRow = 2
  Tilde = 3
  Wanted = {1, 2}
  Keywords = {a, b}
  Docs = {d1, d2}
  KwsOf <- MCKwsOf
  MaxTs = 2
  MaxMarks = 0
  MergeWrite = TRUE
  Faults = {"crash", "row_write", "scan"}
  MaxRuns = 2
  a = a
  b = b
  d1 = d1
  d2 = d2
CHECK_DEADLOCK FALSE
INVARIANTS LinksResolve TagsIndexed
PROPERTIES RunsEnd PagesKept
