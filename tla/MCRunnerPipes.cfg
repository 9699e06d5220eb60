SPECIFICATION TimedRunnerSpec
CONSTANTS
  CheckID <- MCCheckID
  Gofmt = "gofmt"
  Limit = 2
PROPERTIES
  RunnerReturns
CHECK_DEADLOCK FALSE
