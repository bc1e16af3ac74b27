SPECIFICATION FairSpec
CONSTANTS
  j1 = j1  j2 = j2  j3 = j3  None = None
  Jobs = {j1, j2, j3}
  Workers = {w1, w2}
  ParentOf <- FamilyParents
  Deferred = {j2}
  Corrupt = {j3}
  MaxAttempts = 1
  AttemptCap = 1
INVARIANTS AttemptLedgerAgrees LeaseHasHolder
PROPERTIES LiveLeaseIsExclusive CancelIsFinal ImplementsLifecycle ExpiredLeaseIsReclaimed
CHECK_DEADLOCK FALSE
