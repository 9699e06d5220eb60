SPECIFICATION AdmitSpec
CONSTANTS
  Commit <- MCCommit
  Anc <- MCAnc
  Remote <- OneRemote
  Views <- MalformedViews
  MaxOps = 2
  R = "lab"
  PrivateRevset <- MCPrivateRevset
  Match <- MCMatch
  EmptyDesc <- MCEmptyDesc
  Conflicted <- MCConflicted
  PolicyFile <- MCPolicyFile
  AtRoot = FALSE
INVARIANTS
  AdmitSound
