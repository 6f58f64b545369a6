SPECIFICATION Spec
CONSTANTS
  Events <- MCEvents
  Instances <- MCInstances
  Wrap = 22
  Start = 18
INVARIANTS TreeBalanced FiresInTime
CHECK_DEADLOCK FALSE
