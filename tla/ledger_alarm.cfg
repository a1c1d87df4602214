SPECIFICATION Spec
CONSTANTS
  c1 = c1
  c2 = c2
  k1 = k1
  h1 = h1
  h2 = h2
  v1 = v1
  Calls = {c1}
  Commands = {}
  Hooks = {}
  Verifiers = {v1}
  MaxFaults = 0
  MaxStarts = 1
  SharedState = TRUE
  Nobody = Nobody
INVARIANT NoFalseAlarm
