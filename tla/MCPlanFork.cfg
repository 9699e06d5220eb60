SPECIFICATION Spec
CONSTANTS
  Commit <- MCCommit
  Anc <- MCAnc
  Remote <- TwoRemotes
  Views <- TwoRemoteViews
  MaxOps = 1
  R = "lab"
INVARIANTS
  PlanCoversPublication
