CONSTANTS
  n1 = n1
  n2 = n2
  n3 = n3
  l1 = l1
  l2 = l2
  l3 = l3
  NodeIds <- MCNodeIds
  LabelIds <- MCLabelIds
  MaxEdges = 3
  NULL = NULL

SPECIFICATION Spec

INVARIANT EntryNodeOwned
