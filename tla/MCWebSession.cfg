CONSTANTS
  Tabs = {b1, b2}
  Families = {f1, f2}
  None = None
  Keep = Keep
  MaxStarts = 5
  MaxLost = 1
SPECIFICATION Spec
SYMMETRY Sym
CHECK_DEADLOCK FALSE
INVARIANTS TypeOK NoFalseAlarm LogoutHolds AccessIsRefreshed
