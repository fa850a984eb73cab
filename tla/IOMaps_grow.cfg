CONSTANTS
  MaxAddr = 3
  m1 = m1 m2 = m2 m3 = m3
  f1 = f1
  MapIds = {m1, m2}
  BankIds = {0, 1}
  Fds = {f1}
  FdSize <- MCFdSize
  MaxTs = 2
  Sizes = {1, 3}
  Probes = {}
  MaxRefs = 3
  NoMap = NoMap
  NoSubMap = NoSubMap
  NoRef = NoRef
  NoBank = NoBank
SPECIFICATION ResizeSpec
SYMMETRY Symmetry
INVARIANTS HighestPriority
CHECK_DEADLOCK FALSE
