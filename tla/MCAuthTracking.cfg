SPECIFICATION Spec
CONSTANTS
  None = None
  Users = {u1}
  Families = {f1, f2}
  Tokens = {t1, t2, t3}
  Procs = {p1, p2}
  Ops = {"login", "refresh", "logout", "list"}
  RefreshTTL = 2
  GraceTTL = 1
  MaxKid = 1
  MaxRevokeTries = 2
INVARIANTS
  ActiveTokenRotates
  LiveSessionsTracked
  KidRefusalIsOldKey
SYMMETRY Sym
