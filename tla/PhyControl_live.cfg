SPECIFICATION FairSpec
CONSTANTS
  Phys = {p1}
  Helpers = {main}
  Detached = {}
  Loggers = {}
  Handlers = {"h1"}
  NoThread = NoThread
  BaseClock = 1000000
  Shift = 100
  Shift2 = 300
  LearningRate = 20
  StepThreshold = 1000
  TimeDiffs <- MCTimeDiffs
  MaxLoss = 1
  MaxLearn = 1
  TimerMayFail = FALSE
INVARIANTS RestoredAfterSync
PROPERTIES LoanSpec NoLargeJump WaitsEnd
