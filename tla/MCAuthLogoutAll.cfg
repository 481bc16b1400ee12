SPECIFICATION Spec
CONSTANTS
  None = None
  Users = {u1}
  Families = {f1, f2}
  Tokens = {t1, t2}
  Procs = {p1, p2}
  Ops = {"login", "refresh", "logoutAll"}
  RefreshTTL = 2
  GraceTTL = 1
  MaxKid = 0
  MaxRevokeTries = 2
INVARIANTS
  LogoutAllClosesOpen
SYMMETRY Sym
