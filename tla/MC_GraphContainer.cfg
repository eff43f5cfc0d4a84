CONSTANTS
  n1 = n1
  n2 = n2
  n3 = n3
  NodeIds <- MCNodeIds
  NULL = NULL

SPECIFICATION Spec

INVARIANT OwnedUntilRemoved
