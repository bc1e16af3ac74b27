SPECIFICATION ConnectionsSpec
CONSTANTS
  Uploads = {u1}
  Sessions = {u1}
  Session <- OwnSession
  Chunks = 3
  NoContent = NoContent
  j1 = j1  j2 = j2  p1 = p1
  Jobs = {j1, j2}
  Anchors = {j2}
  Claimers = {c1}
  Producers = {p1}
  WatchOf <- WatchFirst
  Bridge = TRUE
  ChanCap = 4
  SignalCap = 2
INVARIANTS ContentAddressed OnlyVerifiedIsStored NotifierSound
PROPERTY EveryConnectionEnds
CHECK_DEADLOCK FALSE
