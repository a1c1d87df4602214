SPECIFICATION Spec
CONSTANTS
  l1 = l1
  l2 = l2
  l3 = l3
  l4 = l4
  u1 = u1
  u2 = u2
  k1 = k1
  k2 = k2
  k3 = k3
  Logins = {l1, l2, l3, l4}
  Knowing = {l1, l4}
  StepUps = {u1}
  Holding = {u1}
  Commands = {k1, k2}
  Privileged = {k1}
  Approving = {k2}
  Complete = {k1, k2}
  BearerOf <- OneSession
  MaxFailed = 2
  Lockout = 2
  SessionTTL = 1
  StepUpTTL = 1
  Drift = 1
  MaxNow = 2
SYMMETRY Alike
CHECK_DEADLOCK FALSE
INVARIANTS
  TypeOK
  StepUpIsSpent
  LockedOutStaysOut
