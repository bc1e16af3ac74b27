SPECIFICATION FinalizerSpec
CONSTANTS
  anchor = anchor  c1 = c1  c2 = c2  w1 = w1  w2 = w2  r1 = r1  r2 = r2
  None = None
  Jobs = {anchor, c1, c2}
  Workers = {w1, w2}
  ParentOf <- MCParentOf
  Deferred = {}
  Corrupt = {}
  MaxAttempts = 1
  AttemptCap = 1
  Parent = anchor
  Chunks <- MCChunks
  FrameRange <- MCFrameRange
  Families <- MCFamilies
  Submissions <- MCSubmissions
  Runs = {r1, r2}
  Placements <- OnOneHost
  FaultCap = 2
INVARIANT AssemblyIsWhole

CHECK_DEADLOCK FALSE
