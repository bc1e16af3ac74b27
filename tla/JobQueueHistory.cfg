SPECIFICATION Spec
CONSTANTS
  j1 = j1  j2 = j2  j3 = j3  None = None
  Jobs = {j1}
  Workers = {w1, w2}
  ParentOf <- LoneParent
  Deferred = {}
  Corrupt = {}
  MaxAttempts = 2
  AttemptCap = 4
INVARIANTS NoRenderAfterDurable RetryBudgetHolds
PROPERTIES AttemptsAppendOnly
SYMMETRY WorkerSymmetry
CHECK_DEADLOCK FALSE
