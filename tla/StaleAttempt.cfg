SPECIFICATION ServicesSpec
CONSTANTS
  Parts = {"calls"}
  MotionJobs <- MCMotionJobs
  SweepLimit = 8
  DateRequests <- MCDateRequests
  Keys = {k1, k2}
  Media = {k2}
  CacheCalls = {c1, c2}
  L1Max = 1
  L2Max = 1
  EvictionBatch = 2
  NoFlight = NoFlight
  Addresses = {"a"}
  Uploads = {1, 2}
  Probers = {p1}
  MediaFiles <- MCMediaFiles
  PipeSize = 2
  ProbeCacheMax = 1
  MaxProbes = 2
  MaxProbeFaults = 1
  DriveJobs = {j1, j2}
  MaxDeliveries = 2
  MaxDriveFaults = 2
  LedgerSteps = 2
  Matrices <- MCMatrices
  Runtimes = {1, 2}
  MinRunsPerShape = 2
  MaxSamples = 2
  Producers = {q1, q2}
  Manifests <- MCManifests
  MaxRuns = 1
  MaxFaults = 2
  MaxStatusFailures = 2
  SemanticPlans <- MCPlans
  SubtitleCues <- MCCues
  EntityCameraKeys <- MCCameraKeys
  RecipeFrames <- MCRecipeFrames
  RecipeImages = 2
  AnimationPlans <- MCAnimationPlans
  Motions <- MCMotions
  Defaults <- MCDefaults
  Hashes <- MCHashes
  anchor = anchor  c1 = c1  c2 = c2  w1 = w1  w2 = w2  r1 = r1  r2 = r2
  None = None
  Jobs = {anchor, c1, c2}
  Workers = {w1, w2}
  ParentOf <- MCParentOf
  Deferred = {}
  Corrupt = {}
  MaxAttempts = 1
  AttemptCap = 1
  Parent = anchor
  Chunks <- MCChunks
  FrameRange <- MCFrameRange
  Families <- MCFamilies
  Submissions <- MCSubmissions
  Runs = {r1, r2}
  Placements <- OnOneHost
  FaultCap = 2
  LeaseJobs = {j1}
  Loops = {l1, l2, l3}
  Processes <- OneProcess
  TryBudget = 3
  MaxTries <- ThreeTries
  MaxCallFaults = 1
  Nobody = Nobody
INVARIANT StaleReportIsConflict
CHECK_DEADLOCK FALSE
