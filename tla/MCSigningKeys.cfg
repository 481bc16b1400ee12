SPECIFICATION Spec
CONSTANTS
  None = None
  Keys = {k1, k2, k3}
  Kids = {i1, i2, i3}
  Consumers = {c}
  KeyTTL = 3
  Margin = 1
  TokenTTL = 1
  CacheTTL = 1
  Retention = 2
  MaxFaults = 1
SYMMETRY Sym
INVARIANTS TypeOK SignerVerifies ConsumersKnow
CHECK_DEADLOCK FALSE
