------------------------ MODULE MC_MutableEdgeLoops -------------------------
EXTENDS MutableEdgeLoops, TLC

CONSTANTS n1, n2, n3, l1, l2, l3

MCNodeIds == {n1, n2, n3}
MCLabelIds == {l1, l2, l3}

=============================================================================
