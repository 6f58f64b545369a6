SPECIFICATION FairSpec
CONSTANTS
  Configurations <- MCConfigurations
  MaxProcesses = 6
  MaxPid = 10
  Signals = {"hup", "quit", "term", "usr1", "usr2", "winch"}
INVARIANTS NoChildForgotten
PROPERTIES TerminateEnds
CHECK_DEADLOCK FALSE
