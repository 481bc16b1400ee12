CONSTANTS
  Tabs = {b1, b2}
  Families = {f1, f2}
  None = None
  Keep = Keep
  MaxStarts = 4
  MaxLost = 0
SPECIFICATION Spec
SYMMETRY Sym
CHECK_DEADLOCK FALSE
PROPERTY RefusalStaysLocal
