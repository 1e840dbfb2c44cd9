SPECIFICATION FairSpec
CONSTANTS
  Pipes = {p1, p2}
  Transports = {"tcp", "ptp", "local"}
  BufferSize = 2
  InitialFill = 1
  FirstCount = 2
  NextCount = 1
  MaxVblank = 2
  MaxQueue = 1
CHECK_DEADLOCK FALSE
INVARIANTS FreshAndComplete KilledOnlyByRefusal
PROPERTIES WaitsEnd
