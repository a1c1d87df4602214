SPECIFICATION Spec
CONSTANTS
  MaxDecodePasses = 4
  ReviewAt = 40
  HaltAt = 75
  GateMatrix <- DefaultMatrix
  TaintFloors <- DefaultTaintFloors
  BreachRoute = "REVIEW"
  UnattendedReviewHalts = TRUE
  Inputs <- DefaultInputs
  Signs <- AllSigns
CHECK_DEADLOCK FALSE
INVARIANTS
  FailureHalts
  SealedSurfaceIsFinal
  LeavingIsReviewed
  EncodingNeverAllows
  EvidenceOnlyTightens
  TaintOnlyTightens
  LateVerdictAgrees
