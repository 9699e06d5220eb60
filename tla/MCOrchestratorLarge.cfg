SPECIFICATION OrchSpec
CONSTANTS
  CheckID <- MCCheckID
  Gofmt = "gofmt"
  Limit = 1
  Profile <- MCProfile
  Candidate <- Large
  Path <- MCPath
  Tree <- MCTree
  Masked = FALSE
  Meddling = {}
  Touched <- MCTouched
  Lingering = {}
INVARIANTS
  InputIsNew
CHECK_DEADLOCK FALSE
