SPECIFICATION Spec
CONSTANTS
  c1 = c1
  c2 = c2
  k1 = k1
  h1 = h1
  h2 = h2
  v1 = v1
  Calls = {c1}
  Commands = {k1}
  Hooks = {h1}
  Verifiers = {v1}
  MaxFaults = 1
  MaxStarts = 2
  SharedState = TRUE
  Nobody = Nobody
INVARIANT AnchorIsBehind
INVARIANT CalmAlarmHasCause
