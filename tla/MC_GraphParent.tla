--------------------------- MODULE MC_GraphParent ---------------------------
EXTENDS GraphParent, TLC

CONSTANTS g1, g2, n1, n2, n3

MCGraphs == {g1, g2}
MCNodeIds == {n1, n2, n3}

=============================================================================
