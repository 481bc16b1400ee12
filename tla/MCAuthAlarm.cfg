SPECIFICATION FaultFreeSpec
CONSTANTS
  None = None
  Users = {u1}
  Families = {f1}
  Tokens = {t1, t2, t3, t4}
  Procs = {p1, p2}
  Ops = {"login", "refresh"}
  RefreshTTL = 2
  GraceTTL = 1
  MaxKid = 0
  MaxRevokeTries = 2
INVARIANTS
  RevokedStaysClosed
PROPERTIES
  RevokeBlacklistsActive
  AlarmEndsSession
