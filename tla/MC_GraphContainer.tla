-------------------------- MODULE MC_GraphContainer --------------------------
EXTENDS GraphContainer, TLC

CONSTANTS n1, n2, n3

MCNodeIds == {n1, n2, n3}

=============================================================================
