SPECIFICATION Spec
CONSTANTS
  j1 = j1  j2 = j2  None = None
  Jobs = {j1, j2}
  Workers = {w1, w2}
  ParentOf <- FamilyParents
  Deferred = {j2}
  Filters <- RenderedToo
  MaxAttempts = 1
  AttemptCap = 2
  OrderCap = 3
INVARIANTS FifoHoldsEveryJob
PROPERTIES EmptyOnlyWhenNothing ImplementsLifecycle
SYMMETRY WorkerSymmetry
CHECK_DEADLOCK FALSE
