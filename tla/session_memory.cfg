SPECIFICATION FairSpec
CONSTANTS
  c1 = c1
  c2 = c2
  c3 = c3
  p1 = p1
  p2 = p2
  t1 = t1
  d1 = d1
  d2 = d2
  Calls = {c1, c2}
  Posts = {p1, p2}
  Turns = {t1}
  NoTurn = NoTurn
  TurnOf <- TurnOfCall
  RouteAt <- RoutesOfCall
  Domains = {d1, d2}
  NoDomain = NoDomain
  DomainOf <- DomainOfCall
  BytesOf <- OneByte
  Imperative = {p1}
  TaintFloors <- DefaultTaintFloors
  BreachRoute = "REVIEW"
  UnattendedReviewHalts = FALSE
  MaxBytes = 1
  MaxDomains = 1
  MaxReviews = 1
  Earlier <- OneOld
  Hour = 1
CHECK_DEADLOCK FALSE
INVARIANTS
  TypeOK
  VerdictMatchesTaint
  BudgetBoundsDomains
PROPERTIES
  EveryCallEnds
