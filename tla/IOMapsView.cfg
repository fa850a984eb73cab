CONSTANTS
  MaxAddr = 2
  m1 = m1 m2 = m2 m3 = m3
  f1 = f1
  MapIds = {m1, m2, m3}
  BankIds = {0}
  Fds = {f1}
  FdSize <- MCFdSize
  MaxTs = 3
  Sizes = {1, 2}
  Probes = {}
  MaxRefs = 3
  NoMap = NoMap
  NoSubMap = NoSubMap
  NoRef = NoRef
  NoBank = NoBank
SPECIFICATION CarefulSpec
SYMMETRY Symmetry
INVARIANTS TypeOK HighestPriority DrainMeCoversFragments
PROPERTY ImplementsView
CHECK_DEADLOCK FALSE
