SPECIFICATION AllSpec
CONSTANTS
  Conns = {k1, k2}
  Sizes = {0, 2}
  ErrSizes = {1}
  Methods = {"GET", "HEAD", "PUT"}
  PageSize = 2
  Postpone = 3
  Limited = TRUE
  Faults = {"alloc", "send", "epoll"}
  MaxRequests = 2
  Parsers = {p1, p2}
SYMMETRY Symmetry
INVARIANTS LabelsFollowRows RunComplete ResponseComplete
CHECK_DEADLOCK FALSE
