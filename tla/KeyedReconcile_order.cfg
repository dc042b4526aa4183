SPECIFICATION ReconcileSpec
\* The calls of a behaviour are bounded.
CHECK_DEADLOCK FALSE
CONSTANTS
  TreeKeys = {1, 2, 3, 4}
  TreeValues = {0, 1}
  NoIndex = NoIndex
  MaxTreeCalls = 3
INVARIANT
  ReconciledOrder
