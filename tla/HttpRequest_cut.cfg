CONSTANTS
  Conns = {k1}
  Sizes = {2}
  ErrSizes = {1}
  Methods = {"GET"}
  PageSize = 2
  Postpone = 3
  Limited = FALSE
  Faults = {}
  MaxRequests = 2
SPECIFICATION Spec
INVARIANT ContentDelivered
CHECK_DEADLOCK FALSE
