SPECIFICATION Spec
CONSTANTS
  Phys = {p1, p2}
  Helpers = {main}
  Detached = {}
  Loggers = {p1, main}
  Handlers = {"h1"}
  NoThread = NoThread
  BaseClock = 1000000
  Shift = 100
  Shift2 = 300
  LearningRate = 0
  StepThreshold = 1000
  TimeDiffs = {300}
  MaxLoss = 1
  MaxLearn = 2
  TimerMayFail = TRUE
CHECK_DEADLOCK FALSE
INVARIANTS TypeOK HandlerIsAwaited RestoredAtExit
