SPECIFICATION DaemonsSpec
CONSTANTS
  j1 = j1  None = None
  Jobs = {j1}
  Workers = {w1, w2}
  ParentOf <- LoneParent
  Deferred = {}
  Corrupt = {}
  MaxAttempts = 0
  AttemptCap = 2
  Slots = {s1, s2}
  Lanes = 1
  Opens = {a1, a2}
  Sweepers = {s1}
  Inodes = {i1, i2, i3, i4}
  NoInode = NoInode
  Replicas = {r1, r2}
  Migrations = 2
  FleetWorkers = {w1, w2}
  StaleAfter = 3
  NoAge = NoAge
  WorkerInputs <- MCWorkerInputs
  EmptyVar = EmptyVar
  Malformed = Malformed
  NoSettings = NoSettings
  BeatBound = 1
INVARIANTS WorkspaceHasItsRun ArtifactIsStored WorkspaceIsOwned ProcessesStartWell
PROPERTIES LostRenderStops LeftoverIsSwept FrozenFleetShows
CHECK_DEADLOCK FALSE
