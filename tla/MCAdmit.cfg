SPECIFICATION FairAdmitSpec
CONSTANTS
  Commit <- MCCommit
  Anc <- MCAnc
  Remote <- OneRemote
  Views <- MCViews
  MaxOps = 2
  R = "lab"
  PrivateRevset <- MCPrivateRevset
  Match <- MCMatch
  EmptyDesc <- MCEmptyDesc
  Conflicted <- MCConflicted
  PolicyFile <- MCPolicyFile
  AtRoot = TRUE
INVARIANTS
  AdmitTypeOK
  PlanOfOneView
  PlanCoversPublication
  AdmitSound
  NothingPrivateIsLicensed
PROPERTIES
  ContractSpec
  Terminates
  NothingTwice
