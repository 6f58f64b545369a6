SPECIFICATION FairSpec
CONSTANTS
  Workers = {1, 2}
  Sockets = {"http"}
  Connections = 2
  Share = 1
  MaxClients = 2
  Modes <- MCModes
INVARIANTS NoStaleHandler
PROPERTIES BacklogDrained
