SPECIFICATION RunnerSpec
CONSTANTS
  CheckID <- MCCheckID
  Gofmt = "gofmt"
  Limit = 2
INVARIANTS
  FailIsAVerdict
CHECK_DEADLOCK FALSE
