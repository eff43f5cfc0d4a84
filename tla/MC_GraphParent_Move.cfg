CONSTANTS
  g1 = g1
  g2 = g2
  n1 = n1
  n2 = n2
  n3 = n3
  Graphs <- MCGraphs
  NodeIds <- MCNodeIds
  NULL = NULL

SPECIFICATION Spec

INVARIANT ParentIsOwner
