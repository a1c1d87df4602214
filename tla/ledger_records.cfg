SPECIFICATION FairSpec
CONSTANTS
  c1 = c1
  c2 = c2
  k1 = k1
  h1 = h1
  h2 = h2
  v1 = v1
  Calls = {c1, c2}
  Commands = {k1}
  Hooks = {h1}
  Verifiers = {}
  MaxFaults = 1
  MaxStarts = 2
  SharedState = TRUE
  Nobody = Nobody
CHECK_DEADLOCK FALSE
INVARIANT TypeOK
INVARIANT ChainHolds
INVARIANT RecordedOnce
INVARIANT GapIsMarked
INVARIANT SpooledIsKept
INVARIANT SpooledOnce
INVARIANT SeqIsUnique
PROPERTY RecordedOrSafe
PROPERTY EveryCallFinishes
