SPECIFICATION Spec
CONSTANTS
  v1 = v1
  v2 = v2
  b1 = b1
  o1 = o1
  o2 = o2
  j1 = j1
  t0 = t0
  t1 = t1
  None = None
  Voices = {v1, v2, b1}
  Objects = {o1, o2}
  KeyOf <- MCKeyOf
  Size <- MCSize
  Cap = 1
  MaxFetches = 2
  Texts = {t0, t1}
  Blank = t0
  InitialRows <- MCRows
  MaxMutations = 2
  MaxTakes = 2
  MaxRecorders = 2
  Jobs = {j1}
  BuiltIn <- MCBuiltIn
  ObjectOf <- MCObjectOf
  Budgets <- MCBudgets
  MaxFaults = 1
INVARIANTS TypeOK CacheWithinCap PlayerObeys ResourcesReleased
PROPERTIES InputKept AudioAppears
CHECK_DEADLOCK FALSE
