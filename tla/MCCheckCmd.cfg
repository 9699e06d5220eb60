SPECIFICATION FairCheckSpec
CONSTANTS
  Commit <- MCCommit
  Anc <- MCAnc
  Remote <- OneRemote
  Views <- MCViews
  MaxOps = 2
  R = "lab"
  PrivateRevset <- MCPrivateRevset
  Match <- MCMatch
  EmptyDesc = {}
  Conflicted = {3}
  PolicyFile <- MCPolicyFile
  AtRoot = TRUE
  CheckID <- MCCheckID
  Gofmt = "gofmt"
  Limit = 1
  Profile <- MCProfile
  Candidate <- MCCommit
  Path <- MCPath
  Tree <- MCTree
  Masked = FALSE
  Meddling = {"files"}
  Touched <- MCPath
  Lingering = {}
INVARIANTS
  CheckTypeOK
  GreenIsAdmittedAndChecked
  NothingRunsUnadmitted
PROPERTIES
  CheckEnds
  NothingAgain
  PromiseSpec
CHECK_DEADLOCK FALSE
