SPECIFICATION LabSpec
INVARIANTS
  LabTypeOK
  EvidenceEarned
  EveryObservation
  LabsRemoved
CHECK_DEADLOCK FALSE
