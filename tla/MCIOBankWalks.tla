--------------------------- MODULE MCIOBankWalks ---------------------------
EXTENDS IOBankWalks, TLC
CONSTANTS m1, m2, m3
Symmetry == Permutations(MapIds)
=============================================================================
