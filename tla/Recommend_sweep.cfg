SPECIFICATION FairSpec
CONSTANTS
  Callers = {c1, c2}
  MaxKey = 5
  Tilde = 5
  Tags <- MCTags
  KeyTag <- MCKeyTag
  TagPos <- MCTagPos
  Finds <- MCFinds
  Profiles <- MCPair
  Num = 4
  Top = 2
  Cap = 2
  MinBatch = 1
  EmptyScanFails = TRUE
  ScanFaults = FALSE
INVARIANTS SweepComplete ParallelLists
PROPERTIES EveryRowShown
