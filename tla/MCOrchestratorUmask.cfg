SPECIFICATION OrchSpec
CONSTANTS
  CheckID <- MCCheckID
  Gofmt = "gofmt"
  Limit = 1
  Profile <- MCProfile
  Candidate <- Plain
  Path <- MCPath
  Tree <- MCTree
  Masked = TRUE
  Meddling = {}
  Touched <- MCTouched
  Lingering = {}
INVARIANTS
  ChangedMeansChanged
CHECK_DEADLOCK FALSE
