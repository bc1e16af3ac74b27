SPECIFICATION HostSpec
CONSTANTS
  RenderCalls = {c1, c2, c3}
  LaneCount = 2
  TotalLanes = 2
  DaemonCount = 3
  StallTimeout = 2
  MaxLines = 2
  IpcCalls = {"render", "status"}
  CallKind <- MCCallKind
  CallPolicy <- MCCallPolicy
  MaxJobs = 2
  Frames = 2
  CanvasFrames = 3
  MaxItems = 3
  VerifyPool = 2
  RefLists <- MCRefLists
  Manifests <- MCManifests
  FormatOf <- MCFormatOf
  PrepPool = 2
  TrackedJobs = {ja, jb}
  MaxRenders = 2
  NoEntry = NoEntry
  LogRuns = {ra, rb}
  LogCap = 1
  MaxRecords = 2
  MaxStates = 3
  NoLog = NoLog
INVARIANTS RenderersAreAccounted RendersAreReported PublishedIsProven BatchIsSound PlanIsMaterialized
PROPERTIES StallIsReal EveryWaitEnds
CHECK_DEADLOCK FALSE
