SPECIFICATION Spec
CONSTANTS
  None = None
  Users = {u1}
  Families = {f1}
  Tokens = {t1, t2, t3}
  Procs = {p1, p2}
  Ops = {"login", "refresh", "logout", "logoutAll"}
  RefreshTTL = 3
  GraceTTL = 2
  MaxKid = 0
  MaxRevokeTries = 1
INVARIANTS
  TypeOK
  LedgerComplete
  ActiveOutlivesToken
  GraceProtects
  LogoutAllClosesSeen
PROPERTIES
  ImplementsLedger
SYMMETRY Sym
