SPECIFICATION BothSpec
CONSTANTS
  Workers = {w1, w2}
  Urls = {u1, u2}
  Pages = {u1}
  Tags = {a, b}
  TagLists <- MCTagLists
  Contents <- MCContents
  a = a
  b = b
  w1 = w1
  w2 = w2
  u1 = u1
  u2 = u2
  IntMax = 2
  MergeWrite = TRUE
  Faults = {"web_read", "user_read", "user_write", "crash"}
  MaxCalls = 3
INVARIANTS ConnectionsOwned
PROPERTIES InterestKept RequestsEnd RecordsEveryView
CHECK_DEADLOCK FALSE
