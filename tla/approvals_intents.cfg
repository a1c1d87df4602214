SPECIFICATION FairSpec
CONSTANTS
  c1 = c1
  c2 = c2
  c3 = c3
  c4 = c4
  i1 = i1
  i2 = i2
  Calls = {c1, c2, c4}
  Requests = {r1}
  Intents = {i1, i2}
  IntentOf <- TwoIntents
  AlwaysDenied = {}
  GateRoute <- AllReview
  UnattendedReviewHalts = TRUE
  Budget = 1
  Ceiling = 2
  Keep = 2
  GrantTTL = 1
  DenialWindow = 1
  MaxUses = 1
  NoOperator = NoOperator
  System = System
  NoGrant = NoGrant
INVARIANTS
  ApprovedBeforeRun
PROPERTIES
  ImplementsHumanGate
  EveryCallAnswered
  NothingWaitsForever
