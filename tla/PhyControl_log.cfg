SPECIFICATION FairSpec
CONSTANTS
  Phys = {p1}
  Helpers = {main, bg}
  Detached = {}
  Loggers = {bg}
  Handlers = {"h1"}
  NoThread = NoThread
  BaseClock = 1000000
  Shift = 100
  Shift2 = 300
  LearningRate = 0
  StepThreshold = 1000
  TimeDiffs <- MCTimeDiffs
  MaxLoss = 1
  MaxLearn = 2
  TimerMayFail = FALSE
PROPERTIES EventuallyRestored
CHECK_DEADLOCK FALSE
