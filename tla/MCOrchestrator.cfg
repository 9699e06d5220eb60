SPECIFICATION FairOrchSpec
CONSTANTS
  CheckID <- MCCheckID
  Gofmt = "gofmt"
  Limit = 2
  Profile <- MCProfile
  Candidate <- Usual
  Path <- MCPath
  Tree <- MCTree
  Masked = FALSE
  Meddling = {"files", "walk", "run"}
  Touched <- MCTouched
  Lingering = {"go_test"}
INVARIANTS
  OrchTypeOK
  RunnerTypeOK
  VerdictEarned
  CutIsFlagged
  InputIsNew
  GreenMeansNewPasses
  WorkspacesRemoved
  ChangedMeansChanged
PROPERTIES
  OrchestratorReturns
  NoTurnTwice
CHECK_DEADLOCK FALSE
