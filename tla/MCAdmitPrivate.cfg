SPECIFICATION AdmitSpec
CONSTANTS
  Commit <- MCCommit
  Anc <- MCAnc
  Remote <- OneRemote
  Views <- StackViews
  MaxOps = 2
  R = "lab"
  PrivateRevset <- MCPrivateRevset
  Match <- MCMatch
  EmptyDesc <- MCEmptyDesc
  Conflicted <- MCConflicted
  PolicyFile <- MCPolicyFile
  AtRoot = TRUE
INVARIANTS
  PrivateReasonJustified
