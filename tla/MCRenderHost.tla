---------------------------- MODULE MCRenderHost ----------------------------
(* One instance of each component of a render host.  The components share no *)
(* state, so a behaviour runs one of them, the part, and the others stay in  *)
(* their first state.                                                        *)
EXTENDS TLC, RenderLanes, DaemonPool, RenderProcess, DaemonCalls,
        OutputGates, SegmentBatch, AssetPreparation, RenderProgress, JobLogs

VARIABLE part

hostVars == <<part, laneVars, daemonVars, procVars, ipcVars, gateVars, segVars,
              prepVars, progressVars, logVars>>

MCCallKind == ("render" :> "render") @@ ("status" :> "service")
MCCallPolicy == ("render" :> "certify") @@ ("status" :> "fast")

Ref(id, hash, path) ==
  [id |-> id, hash |-> hash, path |-> path, kind |-> IF hash = "h1" THEN "image" ELSE "video"]
RefsOf(ids) ==
  {Ref(id, h, p) : id \in ids, h \in {"h1", "h2"},
                   p \in {<<1, "png">>, <<1, "jpg">>, <<2, "png">>}}
\* Two assets with the bytes of one URL, next to an image to rename.
Twins == <<Ref(1, "h1", <<1, "png">>), Ref(2, "h2", <<1, "jpg">>), Ref(3, "h2", <<2, "png">>)>>
MCRefLists ==
  {<<a>> : a \in RefsOf({1})} \cup {<<a, b>> : a \in RefsOf({1}), b \in RefsOf({1, 2})}
    \cup {Twins}
Entry(h, p, u) == [hash |-> h, path |-> p, url |-> u]
MCManifests ==
  {<< >>, <<Entry("h1", UrlPath, FALSE)>>, <<Entry("h1", <<3, "png">>, FALSE)>>,
   <<Entry("h2", <<2, "png">>, TRUE)>>,
   <<Entry("h1", UrlPath, FALSE), Entry("h2", <<1, "png">>, FALSE)>>}
MCFormatOf == ("h1" :> "jpg") @@ ("h2" :> "")

Parts == {"lanes", "pool", "process", "calls", "gates", "segments", "assets", "progress", "logs"}

\* Only the component that runs has a choice of first states.
HostInit ==
  /\ part \in Parts
  /\ LanesInit /\ ProcInit /\ IpcInit /\ ProgressInit /\ LogsInit
  /\ PoolInit /\ (part # "pool" => serves = {} /\ \A d \in Daemons : sockFile[d] = "none")
  /\ GatesInit /\ (part # "gates" => level = "fast" /\ ~strict)
  /\ SegInit /\ (part # "segments" => windows = << >>)
  /\ PrepInit /\ (part # "assets" => /\ refs = <<Ref(1, "h1", <<1, "jpg">>)>>
                                     /\ manifest = << >> /\ cached = {}
                                     /\ prepFiles = << >>)
  /\ (refs = Twins => manifest = <<Entry("h2", <<2, "png">>, TRUE)>>)
  /\ (Len(manifest) = 2 => Len(refs) = 1 /\ prepFiles = << >>)

LanesRun ==
  /\ part = "lanes" /\ LanesNext
  /\ UNCHANGED <<part, daemonVars, procVars, ipcVars, gateVars, segVars, prepVars, progressVars, logVars>>
PoolRuns ==
  /\ part = "pool" /\ PoolNext
  /\ UNCHANGED <<part, laneVars, procVars, ipcVars, gateVars, segVars, prepVars, progressVars, logVars>>
ProcessRuns ==
  /\ part = "process" /\ ProcNext
  /\ UNCHANGED <<part, laneVars, daemonVars, ipcVars, gateVars, segVars, prepVars, progressVars, logVars>>
CallsRun ==
  /\ part = "calls" /\ IpcNext
  /\ UNCHANGED <<part, laneVars, daemonVars, procVars, gateVars, segVars, prepVars, progressVars, logVars>>
GatesRun ==
  /\ part = "gates" /\ GatesNext
  /\ UNCHANGED <<part, laneVars, daemonVars, procVars, ipcVars, segVars, prepVars, progressVars, logVars>>
SegmentsRun ==
  /\ part = "segments" /\ SegNext
  /\ UNCHANGED <<part, laneVars, daemonVars, procVars, ipcVars, gateVars, prepVars, progressVars, logVars>>
AssetsRun ==
  /\ part = "assets" /\ PrepNext
  /\ UNCHANGED <<part, laneVars, daemonVars, procVars, ipcVars, gateVars, segVars, progressVars, logVars>>
ProgressRuns ==
  /\ part = "progress" /\ ProgressNext
  /\ UNCHANGED <<part, laneVars, daemonVars, procVars, ipcVars, gateVars, segVars, prepVars, logVars>>
LogsRun ==
  /\ part = "logs" /\ LogsNext
  /\ UNCHANGED <<part, laneVars, daemonVars, procVars, ipcVars, gateVars, segVars, prepVars, progressVars>>

HostNext ==
  \/ LanesRun \/ PoolRuns \/ ProcessRuns \/ CallsRun \/ GatesRun
  \/ SegmentsRun \/ AssetsRun \/ ProgressRuns \/ LogsRun

\* The fairness of each component, for the one that runs: the goroutines of a call,
\* of a pool or of a preparation go on; callers and daemons owe nothing, so a render
\* that is in a daemon need not come back.
HostFairness ==
  /\ \A c \in RenderCalls : WF_laneVars(LanesRun /\ CallStep(c))
  /\ \A c \in IpcCalls : WF_ipcVars(CallsRun /\ IpcFair(c))
  /\ WF_hostVars(\/ PoolRuns /\ PoolStep
                 \/ ProcessRuns /\ ProcFair
                 \/ SegmentsRun /\ BatchStep
                 \/ AssetsRun /\ PrepStep)

HostSpec == HostInit /\ [][HostNext]_hostVars /\ HostFairness

\* The load a lane shows is the renders it holds, and no daemon outlives the pool
\* that started it.
RenderersAreAccounted == LoadIsExact /\ NoDaemonLeftBehind

\* Every milestone a renderer wrote before it ended was read, a render the worker
\* counts as done happened, the position shown is that of an entry that was live while it
\* was looked for, and the log of a run that had its job for itself is whole.
RendersAreReported ==
  NoMilestoneLost /\ CreditedRenderHappened /\ ShownIsLive /\ LogIsWhole

Waiting ==
  \/ part = "lanes" /\ \E c \in RenderCalls : ~At(c, "done") /\ ~HeldUp(c)
  \/ part = "pool" /\ pool \in {"starting", "stopping"}
  \/ part = "process" /\ child # "none" /\ outcome = "none"
  \/ part = "calls" /\ \E c \in IpcCalls : CallKind[c] = "service" /\ InCall(c)
  \/ part = "segments" /\ batch = "verifying"
  \/ part = "assets" /\ prep \notin {"ready", "failed"}

\* Nothing but a daemon's render keeps the render host waiting: every call of the lanes
\* comes into a daemon or behind a lane full of calls that are, and returns when they do;
\* a child that falls silent is killed, a daemon that hangs holds
\* neither a service call nor the start or stop of its pool, and no pool of
\* verifications or downloads waits for itself.
EveryWaitEnds == Waiting ~> ~Waiting
=============================================================================
