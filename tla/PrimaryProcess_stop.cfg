SPECIFICATION FairSpec
CONSTANTS
  Clients = {"c1"}
  Signals <- MCSignals
  Modes <- MCModes
  NoOne = NoOne
INVARIANTS TypeOK MonitorJoined DiesOnlyIf
PROPERTIES ShutdownEnds
CHECK_DEADLOCK FALSE
