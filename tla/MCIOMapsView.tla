--------------------------- MODULE MCIOMapsView ---------------------------
EXTENDS IOMapsView, TLC
CONSTANTS m1, m2, m3, f1
MCFdSize == [f \in Fds |-> 4]
Symmetry == Permutations(MapIds)
=============================================================================
