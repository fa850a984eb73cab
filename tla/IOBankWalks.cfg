CONSTANTS
  MaxAddr = 3
  m1 = m1 m2 = m2 m3 = m3
  MapIds = {m1, m2, m3}
  NoMap = NoMap
  NoSubMap = NoSubMap
  NoRef = NoRef
  Stamps = {0}
  Sizes = {1, 3}
  Aligns = {1, 2}
  NoPlace = NoPlace
SPECIFICATION Spec
SYMMETRY Symmetry
INVARIANTS AddWalksAgree WithdrawWalksAgree UpdateWalkAgrees DrainWalkAgrees
  WalksInTree LocateFinds
