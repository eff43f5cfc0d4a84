CONSTANTS
  n1 = n1
  n2 = n2
  n3 = n3
  NodeIds <- MCNodeIds
  LabelValues = {0, 1}
  MaxAdds = 3
  NULL = NULL

SPECIFICATION BuildSpec

INVARIANT EdgeRecordsPaired
