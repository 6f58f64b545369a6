SPECIFICATION FairSpec
CONSTANTS
  Procs = {"a", "b", "c"}
  MaxRounds = 4
  MaxDeaths = 1
INVARIANTS MutualExclusion NoLostWakeup
PROPERTIES LockGranted
CHECK_DEADLOCK FALSE
