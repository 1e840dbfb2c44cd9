SPECIFICATION FairSpec
CONSTANTS
  Frame = 8
  Skews <- MCSkews
  Aheads <- MCAheads
  Interval = 9
  Buffer = 1
  Latency = 1
  MaxDelay = 1
  MaxUpdates = 2
INVARIANTS Simultaneous NeverFarBehind NoBacklog
PROPERTIES Ends
CHECK_DEADLOCK FALSE
