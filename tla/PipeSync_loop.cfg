SPECIFICATION FairSpec
CONSTANTS
  Period = 16
  Phases <- MCAllPhases
  Drifts <- MCDrifts
  Lags <- MCCoveredLags
  Errors <- MCErrors
  Threshold = 2
  TimePeriod = 3
  Learning = 2
  OvershootNum = 1
  OvershootDen = 2
  MaxTimestamps = 8
  FirstTimestamps = 8
  MaxAge = 8
  MaxCount = 2
INVARIANTS NearestVblank LoggerOfOneSync
PROPERTIES NoHastySync NeverFurtherApart CorrectionsEnd Resyncs LearningStabilises
