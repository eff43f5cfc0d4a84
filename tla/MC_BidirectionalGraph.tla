----------------------- MODULE MC_BidirectionalGraph -----------------------
EXTENDS BidirectionalGraph, TLC

CONSTANTS n1, n2, n3

MCNodeIds == {n1, n2, n3}
MCNodeIds2 == {n1, n2}

=============================================================================
