SPECIFICATION FairSpec
CONSTANTS
  RefreshPeriod <- MCRefreshPeriod
  Tolerance = 10
  Step = 17
  Jitter = 1
  MaxIterations = 8
  Intervals <- MCIntervals
  Phys = {"COMBO", "C10", "C20"}
  Slots = 3
  Junk <- MCJunk
  MaxFaults = 2
INVARIANTS TypeOK ConvergedIsTrue CaptureWhileMapped
PROPERTIES Approaches Ends
CHECK_DEADLOCK FALSE
