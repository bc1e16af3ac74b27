# Formal model of the render queue, the render workers and what they are built on

This directory holds TLA+ models of RenderginGen: the queue service with its two
job stores, the render workers with their workspaces, renderer daemons, caches and
uploads, the object store, the delivery to Drive, and the compiler that turns a
semantic plan into what the renderer executes. TLC checks them on small instances;
TLAPS proves the main results for every value of the constants. `PROJECT.json`
lists the components, the runs, the source lines behind every definition, the
hazards and the theorems.

Paths below are relative to the repository; `queue/...`, `renderinggen/...` and
`objectstore/...` are below `src/` in `PROJECT.json`, and a path that starts with
`internal/` or `cmd/` is below `renderinggen/`.

## 1. Inventory

### The parts and how they interact

    producer: manifest -> batch --HTTP--> queue daemon --SQL--> PostgreSQL (or memory)
                                            ^  |  Notifier <-- LISTEN/NOTIFY bridge
                   long-poll claim, renew,  |  |
                   reports, heartbeats      |  v
                                     render worker
      prep pool:  semantic plan -> overlay compiler -> assets -> workspace
                    (policies, motions, dates)     three-level cache <-> object store
      GPU lanes:  lane choice -> renderer daemon or CLI process -> output file
                                                        \--tail upload--> object store
      post pool:  media probe -> output gates -> store -> Drive, ledger -> report
      finalizer:  family of chunks -> assembled parent

| Component | State | Operations | What is hard |
|---|---|---|---|
| PostgreSQL job store (`queue/internal/repository/postgres`) | `render_jobs`, `render_attempts`, `job_events`, `job_artifacts` | Submit, ClaimState, ClaimFinalization, Renew, SetProgress, Complete, Rendered, Fail, FailPermanently, Cancel, Retry, RequeueExpired, poisoning of undecodable rows | late and duplicate reports, expiry racing completion, tables that must agree |
| In-memory job store (`.../memory`) | job map, FIFO list and its index | the same | ClaimState works in two lock sections on a snapshot |
| Service, Notifier, long polls (`queue/internal/service`) | FIFO of wake channels, `present` index | Notify, Broadcast, Park, Forget, WaitAndClaim, WaitState | lost wakes, channels closed twice, abandoned waiters |
| Queue HTTP server and client (`queue/internal/server`, `queue/client`) | requests under way, retry counters | submit, read, wait, claim, transitions | an answer that is lost after the commit; which status a failure gets |
| Queue daemon (`queue/cmd/queued`, `queue/internal/migrate`, `model/liveness.go`) | migrations, heartbeats, gauges | start, migrate, serve, drain, sweep, heartbeat, prune | replicas that start together; death between two migrations; a fleet that falls silent |
| Batches (`internal/batch`) | ids and idempotency keys | expand, SubmitAll, wait | replays and edits of a manifest |
| Worker pipeline and lease (`cmd/renderinggen`, `internal/processor`) | runs between pools, lease renewal per stage | claim, prepare, render, store, publish, report, renew | nobody renews between two stages; answers get lost; crashes |
| Workspaces (`internal/workspace`) | directories, lock files, process registry, lease markers | New, Cleanup, CleanupStale | two processes and two attempts on one directory |
| Asset preparation (`internal/overlay/asset_registry.go`, `processor/prepare_assets.go`) | references, manifest, files | merge, materialize on a pool, rename, validate | two references of one path or one hash |
| Renderer clients (`internal/chronon`) | lanes and loads, daemons and sockets, child process and its pipes | Render, StartDaemonPool, Shutdown, watch | compare-and-swap of the choice; daemons that hang; silence against slowness |
| Output gates, segment batches (`internal/processor`) | receipts, cumulative counters, segment files | gate, verify, render again, assemble | a counter that is not this job's; a retry beside its siblings |
| Media probe (`internal/media`) | probe cache, pipe of the packet scan | Probe, scan, certify | a scan cut short looks like a short file |
| Tail upload (`processor/tail_upload.go`, `storage/growing_file.go`, `staging_client.go`) | the reader's flags, the goroutine, one HTTP request | Start, Read, Finish, Wait, Abort, StoreStaged | the file grows, and may be replaced, while it is uploaded |
| Storage client (`internal/storage`) | L1 map, L2 files and index, flights | Get, LocalPath, install, evict, census | large I/O outside the lock; shared fetches |
| Object store (`objectstore/internal`) | staging files, objects by SHA-256 | Put, StagingWrite, StagingFinalize, StagingAbort, audit | power loss between write, rename and fsync |
| Parent finalization (`processor/finalization.go`) | family of chunk jobs, one staging file per host | trigger, claim, validate, assemble, complete | family read versus late children; the claim is not renewed |
| Drive publication, artifact ledger (`internal/drive`, `internal/artifactdb`) | folders and files, SQLite rows and schema version | find or create, upload, verify, open, upgrade | lost answers, concurrent creation, an upgrade that stopped half-way |
| VRAM calibration (`internal/vramprobe`) | samples, phases, reports | run, suite, sample | a sampler beside concurrent renders |
| Overlay compiler (`internal/overlay`, `internal/processor`) | asset registry, canvas, layers, camera controllers | the passes of `compileSemanticDecoded` | windows in frames; one owner per camera; passes that share state |
| Animation policies and groups (`internal/overlay`) | motions of the items | policies, groups, admission | passes that rewrite the same items |
| Motion lowering (`internal/overlay/motion*.go`, `text_spec.go`) | keyframes of a layer | retime, sweep, exit, clamp | every clamp may leave two keys on one frame |
| Date animations (`internal/dateanim`, `cmd/date-animation`) | approved plans | extract, select, cut or rebuild, validate | a schedule cut for fewer years |
| Worker process (`cmd/renderinggen/main.go`, `internal/config`, `internal/health`) | settings, goroutines, health server, heartbeat failures | load, overlay, default, validate, start, register, beat, stop | settings laid over each other before they are judged; goroutines that run before the start is over |
| Job logs (`internal/workerlog`) | registry of job states, their files | BindJob, AttachJobLog, emit, CloseJobLog, PruneJobLogs | one registry entry for overlapping runs of a job |
| Render progress (`internal/chronon/progress.go`, `internal/progresspush`) | map of entries, latest entry | Observe, Forget, Current, PushOnce | map and latest are written and read without a common lock |
| Metrics, schema validation, architecture checks, map features; infrastructure | none that protocols depend on | | not modelled |

### What makes each part correct

* **Job store**: `render_jobs` and `render_attempts` never disagree; a job in
  progress has exactly one holder and a lease the sweeper can see; a durable
  artifact is never rendered again; `max_attempts` bounds automatic retries; a
  cancel is final; an expired job is reclaimed.
* **Queue service**: no wake channel is closed twice or forgotten while somebody is
  parked on it; a wait ends when there is something to see, whatever signals are
  lost; what a producer is told about its submission is true; the rows a report
  writes come from one render; replicas start, migrate and stop without loss.
* **Workers**: the queue never records an artifact the object store does not hold; two
  runs never share a workspace; a worker stops rendering what it has lost; a
  directory a dead worker left is swept and a live one never is.
* **Render host**: loads are exact, no daemon outlives its pool, a render is aborted
  for silence only when there was silence, what is published was proven, a batch of
  segments is the whole clip, and nothing the host waits for keeps it waiting.
* **Worker process**: settings that cannot work stop it before it registers, those it accepts hold for
  everything that runs on them; the position it shows is that of a live render; a run finds its
  whole log in its file.
* **Storage and upload**: bytes are only ever seen under their own hash; the artifact
  reported is the file the gates verified; an acknowledged object survives a power
  loss; the disk budget holds against the real directory.
* **Delivery**: a delivered job has its bytes on Drive once, and only if it asked.
* **Plan compilation**: every layer lies in its window, every path has one content, the
  camera has one owner, every keyframe is one the renderer accepts, every motion has
  one owner, every year is shown when its turn comes.

The hazards behind these properties are listed, each at its line, in `PROJECT.json`.

## 2. Modules

| Module | Models | Extends / composes |
|---|---|---|
| `JobQueue` | the PostgreSQL store behind the service | |
| `JobLifecycle` | what any job store promises (abstract specification) | |
| `MemQueue` | the in-memory store | refines `JobLifecycle` |
| `LongPoll` | Notifier, LISTEN bridge, `WaitAndClaim`, `WaitState` of one replica | |
| `QueueApi` | manifest, batch, `POST /jobs`, idempotent submission in both stores, the producer's wait | |
| `LeaseCalls` | claim, renew and report over HTTP, and the rows they write in four tables | |
| `QueueDaemon` | start, migrations and drain of replicas; heartbeats, liveness and gauges | |
| `WorkerPipeline` | a fleet of workers on top of `JobQueue` | extends `JobQueue`; its queue steps are `JobQueue`'s actions |
| `ParentFinalization` | finalizer runs of several hosts | extends `JobQueue`, as above |
| `WorkspaceFiles` | one job's directory, lock file, registry and marker, at the level of inodes | |
| `AssetPreparation` | registry, merge, materialization and final check of a plan's files | |
| `RenderLanes`, `DaemonPool`, `RenderProcess`, `DaemonCalls` | lane choice; daemons; the CLI child and its watchdog; calls over the socket | |
| `RenderProgress`, `JobLogs`, `WorkerDaemon` | position of the renders; log files of a job; settings, start and end of the worker process | |
| `OutputGates`, `SegmentBatch`, `MediaProbe` | what stands between a render and its publication | |
| `TailUpload` | render lane, growing-file reader, staging client and the store's handlers | |
| `StorageCache`, `ObjectStore` | the worker's three-level cache; the verified PUT with power losses | |
| `Delivery` | Drive publication and the artifact ledger | |
| `VramProbe` | the calibration suite | |
| `PlanCompile`, `AnimationOwners`, `MotionLowering`, `DatePlan` | from a semantic plan to layers, keyframes and clips | |
| `JobQueueProofs`, `MemQueueProofs`, `QueueCallsProofs`, `ConnectionsProofs`, `DaemonsProofs`, `RenderHostProofs`, `ServicesProofs`, `AnimationProofs` | theorems | extend the module they are about, or the one that puts several side by side |
| `MCJobQueue`, `MCMemQueue`, `MCConnections`, `MCDaemons`, `MCRenderHost`, `MCServices`; `MCParentFinalization`, `MCAnimationOwners` | values of the constants for TLC | extend what they instantiate |

Components that share no state are checked in one run: `MCConnections`, `MCDaemons`,
`MCRenderHost` and `MCServices` have a variable `part` that says which component a
behaviour is about, and the others stay in their first state. The state space is the
sum of the parts', not their product, and fairness is conditioned on the part.

In several modules a definition stands right above another with the same parameters
and is used nowhere (`GivesUpOneLate` above `ShouldFailPermanently`). It is a *slip*:
a plausible wrong version of the code. Putting it in the place of the right one
makes TLC report the property that `PROJECT.json` names under "mutants"; this is how
the properties were tested themselves.

### The queue

**JobQueue.** One row of `render_jobs` per job (`state`, `currentWorker`, `lease`, `attemptCount`,
`artifact`, `progress`, `due`) and a sequence of rows of `render_attempts` per job
(`attempts`). Each operation of the repository is a transaction over rows locked with
`FOR UPDATE` or guarded by its `WHERE`, hence one action; a report whose condition fails changes
nothing and is a stuttering step. Callers are arbitrary: any worker may send any
report at any time, which covers late, duplicate and reordered requests and crashes
of either side between two calls. Time is abstracted to what SQL conditions can tell
apart: a lease is none, live or expired (`LeaseElapses`), a job is due or not
(`NotBeforePasses`). Whether a claim has to render or only to publish is decided by
`HandsOver` from `artifact_id` and recorded in the attempt (`handed`). `Corrupt` jobs
have a row that does not decode: a claim or a read that meets one fails it
(`PoisonCorruptClaim`, `PoisonCorruptRead`). `retried` and `everCancelled` are history
variables. Complete and Rendered always set an artifact because
`Service.validateArtifact` refuses a report without a storage key.

**JobLifecycle.** A job is absent, queued, working, completed, failed or cancelled; it has a holder
exactly while it is worked on; starts are counted; a stored artifact is kept. Only a
job with tries left goes back in line by itself. `PhaseOf`, `HolderOf` in `JobQueue` and
`MemQueue` are the refinement mappings, `ImplementsLifecycle` the property.

**MemQueue.** The FIFO is a sequence of elements that carry whether `orderIdx` points to them (a
job cancelled while pending leaves its element behind, and a retried one is appended
again). `ClaimState` is two actions, `Snapshot` under the read lock and `ClaimFirst` or
`ClaimNothing` under the write lock, with everything else possible in between. The
sweep takes all expired jobs in the order of a Go map, which is any order; what a list operation leaves of the
FIFO is written in closed form, as a function of the positions that stay.

**LongPoll.** A request is a claimer (`WaitAndClaim`) or a producer (`WaitState`); wake channels are
numbers that are reused once nobody refers to them. A transition commits before its
handler signals, so `owed`, `owedAll` and `bridged` count signals still on their way and the
waits run in between. The LISTEN session may break (`ListenBreaks`) and lose what was
on its way. Every wait re-polls on a timer. `Forget` cuts the channel out of the queue (`Without`), as `notify.go` does
when a request returns before its wake.

**QueueApi.** A producer expands a manifest (`Expand`: the bases first, then the languages bound to
them), submits one wave after the other, job by job, classifies the answers, then waits for each. On the server, a submission looks up the key, inserts, and
looks up again when it lost the race; the rows of both stores and their key maps are
state. A fault is a database call that fails, a commit whose answer is lost, or an HTTP
answer that never arrives; `MaxFaults` bounds them.

**LeaseCalls.** Loops of a worker process claim and report over HTTP. The server's transaction
moves the row, closes the attempt, appends an event and upserts the artifact with its metrics;
a render is named by the attempt that made it, so that `LedgerIsOneRender` can say that storage
key, link, metrics and telemetry belong together. `Processes` are the ways in which the loops are spread over worker
processes, whose loops share one id; the run has both, one process and one loop per process. Since the store compares
ids only, a report of an attempt that is over is accepted if a loop of the same process holds the job (run
`stale_attempt`). Jobs that took such a Rendered or Complete are remembered (`mixed`, set where `IsMistaken`);
what is said of one render excepts them, what is said of events and publication does not.

**QueueDaemon.** Two independent parts. Boot: choice of the storage, advisory lock, one
transaction per migration, death at any step, restart, serving, drain and exit code.
Fleet: heartbeats as ages, the verdict of `model/liveness.go`, the pruning of old rows and the
gauges, which only the sweep tick refreshes.

### The workers

**WorkerPipeline.** A run is one claimed job in one process. The stages follow `worker_pools.go`: prep
pool, GPU lanes (at most `Lanes` renders at a time), post pool, or directly
publication when the claim carries an artifact. Renewal runs only inside the stages
under `withLeaseVoid`; a refusal or exhausted retries cancel the stage's context
(`lost`). Reports are accepted, refused, lost, or accepted with the answer lost. Crash
ends every run of a worker and frees its locks (the kernel drops them). Every change
of the queue is an action of `JobQueue`.

**WorkspaceFiles.** A name and the inode it refers to are kept apart: mkdir, open, flock, the
check that the locked inode still has the name, unlink, the marker and its refresh, and the
sweeper's look, lock, check and removal are steps of their own.

**ParentFinalization.** Runs on several hosts are triggered by a chunk's end or by the recovery
loop, several on one host included (`Placements`), read the family, claim the parent, assemble into the staging file of their host, verify,
store and complete. The claim's answer carries no lease, so there is no renewal. `Submissions`
are the orders in which a producer may add the chunks.

**AssetPreparation.** References come from the plan, entries from the manifest. The registry lists its assets in the order of their
paths, which are not spelled here: any order may be theirs. The merged list keeps a gap for every compiled asset that was
already there. A pool resolves and installs the entries, a misnamed image is renamed after its bytes, and the final check reads the
files; an earlier attempt may have left its renamed images in the workspace.

**WorkerDaemon.** The settings are a record; the overlay of the environment, the defaults of the profile and of
everything else, and `validate` are operators, and `LoadSettings` applies them in the code's order. `mainAt` is
where `main` stands: logging and pruning, renderer, stores, finalizer, catalog, health, registration,
service. Each step that may end in `log.Fatalf` does so or goes on. The health server binds, and the
recovery loop, the heartbeat and the pools run, while `main` is wherever it is; a signal may come at any step.

**JobLogs.** Runs of one job id bind the registry's state, attach their files to it (the lookup and the
append are two steps, since the file is opened between them), write through their handle or through
the id, and close everything the state has. `met` records which runs overlapped.

**RenderProgress.** Both output goroutines of a render observe: they take the entry of the job, write the position
under its lock, and store it as the latest, in three steps. Forget deletes from the map and then retires the latest entry, once both
goroutines have ended; a render that fails is not forgotten, as in the code. `Current` loads the latest entry, asks the map for
its *job*, and else visits the jobs one by one, each in a step of its own, before it takes the position; which of two entries the
scan prefers is left open. Entries of one job are told apart by the number of the render, and two history variables
of a call keep the entries that were live during it and those that stayed all the time.

### The render host

**RenderLanes** has every atomic load and the compare-and-swap of the least-loaded choice, and the
semaphore of a lane. **DaemonPool** adopts sockets, starts daemons, waits for them and stops them.
**RenderProcess** has the child, two pipes with their scanners, the watchdog that samples the time
of the last line, and the verdict; instants are ages in sampling periods. **DaemonCalls** has
dial, frame, reply and deadline. In all of them the renderer is external and may answer, hang or die.

**OutputGates** runs jobs one after the other on a warm daemon whose counters are cumulative, with
the receipt, its identity, the composition check and the software fallback. **SegmentBatch** cuts a canvas into windows, verifies
the files on a bounded pool and renders a failed one once more. **MediaProbe** has the packet scan over
a pipe, cut short or not, and the cache of verdicts keyed by path, size and time.
**VramProbe** has the sampler goroutine, the phases and the suite.

### Storage and delivery

**TailUpload.** Four parties interleave: the lane that owns the job (`RunGPU`, `FinalizeJob`,
`storeArtifact`), the upload goroutine (`StoreStaged` reading a `GrowingFileReader`), the
store's handlers, and the network. A content is a record that says whose output it
is, which file it was read from, how many chunks, and whether it was corrupted; its
hash is itself. The GPU render and the software fallback write different inodes. The
pooled worker runs the GPU stage under a context of its own and the serial path under
the caller's; `scoped` chooses per upload. That a completed render has written all its
chunks and one that fails recoverably has not is an assumption about the external renderer.

**StorageCache.** Bytes are good (somebody compared them with their key), rotten, or unproven (nobody looked), and
every object has size 1. `streaming` is whether the backend can stream, as the one behind HTTP does; the byte path of
`Get` is for one that cannot (`storage.Memory`, for tests and local use) and takes whatever the store has. Only
`InstallReader` compares a digest: what `Get` fetched, what comes back from the heap and what PutFile reads a
second time is installed as it is. Lookup, fetch, install, eviction, both single flights and the census of an earlier
process's files are separate steps; objects may be lost or rot, files vanish, calls may be cancelled. **ObjectStore** keeps what a reader sees apart from what
survives a power loss.

**Delivery.** Drive creates a folder or file whenever it is asked to, lists in any order, loses
answers and garbles uploads. The ledger opens a database at any schema version and may stop at
any step of an upgrade.

### From a plan to keyframes

**PlanCompile.** One action per pass, one step per item; every pass may refuse. Windows are
computed in frames with the code's rounding from milliseconds or microseconds at any rational
frame rate. A layer is its owner, its content and its window.

**AnimationOwners.** The policy pass, the group pass and the admission rewrite the items in place;
a stable draw is a hash of the key the code builds (target, group and subgroup for a policy; group and role for a
group), and the hash is arbitrary (`draw`).

**MotionLowering.** A keyframe is a frame and the name of its value. Retiming, coalescing, exit
tracks, phrase envelope, per-unit sweeps and camera routing are operators; one action lowers one job.

**DatePlan.** The approved four-year plans of the styles, cut to the years found or rebuilt around
them, and the validation that follows; opacities are per cent.

## 3. Runs

| Run | Instance | Distinct states | What it shows |
|---|---|---|---|
| `job_queue_history` | 1 job, 2 workers, MaxAttempts 2, up to 4 attempts, worker symmetry | 7 416 | `NoRenderAfterDurable`, `RetryBudgetHolds`, `AttemptsAppendOnly` |
| `job_queue_family` | anchor, its deferred chunk, an undecodable job, 2 workers, 1 attempt each | 49 270 | `AttemptLedgerAgrees`, `LeaseHasHolder`, `LiveLeaseIsExclusive`, `CancelIsFinal`, `ImplementsLifecycle`, `ExpiredLeaseIsReclaimed` |
| `mem_queue_family` | anchor and deferred chunk, 2 workers, MaxAttempts 1, up to 2 attempts, worker symmetry | 1 015 508 | `FifoHoldsEveryJob`, `EmptyOnlyWhenNothing`, `ImplementsLifecycle` |
| `connections` | 1 claimer, 1 producer, 2 jobs of which one is an anchor, LISTEN bridge; 1 upload of 3 chunks | 224 758 | `NotifierSound`, `ContentAddressed`, `OnlyVerifiedIsStored`, `EveryConnectionEnds` |
| `daemons` | 1 job, 2 workers with 2 runs and 1 lane each; 2 attempts and a sweeper on one workspace; 2 replicas, 2 migrations; a worker process started from each of the settings of `MCWorkerInputs`; a fleet of 2 workers | 162 546 | `WorkspaceHasItsRun`, `ArtifactIsStored`, `LostRenderStops`; `WorkspaceIsOwned`, `LeftoverIsSwept`; `ProcessesStartWell`; `FrozenFleetShows` |
| `render_host` | 3 renders on 2 lanes, 3 daemons, a renderer that writes 2 lines, 2 calls, 2 jobs through the gates, up to 3 segments of 3 frames, up to 3 asset references; 2 jobs with 2 renders each on one tracker; 2 runs that log to one job id | 656 754 | `RenderersAreAccounted`, `RendersAreReported`, `StallIsReal`, `PublishedIsProven`, `BatchIsSound`, `PlanIsMaterialized`, `EveryWaitEnds` |
| `services` | see `MCServices` | 852 323 | `StorageIsHonest`, `DiskWithinBudget`; `MeasurementsAreReal`; `DeliveryIsSound`; `SubmissionIsHonest`; `LedgerIsSound`; `ParentIsWholeFamily`, `FamilyIsFinalized`; `AnimationHasOneOwner`; `PlanIsRenderable` |
| `tail_upload_scope` | violation | | returning from the GPU stage fails a committed stream |
| `parent_one_host` | violation | | two finalizer runs of one host share the staging file |
| `edited_plan` | violation | | an edited plan is not a new job |
| `shared_choice` | violation | | the policy of a group gives two motions |
| `stale_attempt` | violation | | a stale report of the same process is accepted |

### Why the bounds are enough

* **`AttemptCap`, `MaxAttempts`.** The history run allows twice `MaxAttempts`, so a job is
  given up, retried by an operator and claimed again, also after a Rendered report.
  In the family run one attempt each suffices: its properties relate a claim to a
  finalization, a poisoned read, a cancel and a sweep of three different rows.
* **Two workers** are the owner and the late one; a third would be a second late one.
  Job rows share no column, only the parent relation, which needs an anchor and a chunk.
* **`ChanCap`, `SignalCap`.** A channel is in use while it is queued or a request holds
  it; with `ChanCap` 4 both waiters and abandoned entries coexist. Two signals
  of a kind under way are enough for a wake that overtakes another.
* **`OrderCap` 3** leaves room for both jobs and a stale element.
* **`Slots`, `Lanes`.** Two runs of one worker on the same job are what a re-claim by the
  same host looks like; one lane makes the handoff to the GPU block.
* **`Inodes` 4** lets a directory or a lock file be unlinked while two users still have it
  open and a fourth be created.
* **`Chunks` 3** (upload) has an empty, a partial and a complete file, and a read that falls
  between two appends. Uploads with sessions of their own share no variable except
  the objects, so one upload is the interesting instance; the theorems cover any number.
* **Three renders on two lanes** make one wait and one lose its compare-and-swap;
  `StallTimeout` 2 sampling periods separates silence from a pause.
* **`Migrations` 2** has a state between two; `StaleAfter` 3 gives each verdict of the
  liveness an age of its own.
* **Caches of one object**, two keys and two calls evict what another call was just given.
* **`MaxFaults`, `MaxDriveFaults`, `MaxProbeFaults`, `MaxCallFaults`, `FaultCap`** bound lost answers and failing
  calls: two in a row where the code retries, one otherwise.
* **`MCTries`** gives two loops of two processes three attempts, so that a late report meets its successor's successor, and two
  loops of one process two: one attempt that is over and the one that took its place. **`MCPlacements`** has the runs on hosts of
  their own for every family and on one host for the plain one, since an audio track or a bad chunk changes nothing about a path.
* **`MaxRenders` 2, `TrackedJobs` 2** let a job be forgotten and tracked again, between the loads of one reader too, while another is observed. **`LogRuns` 2,
  `LogCap` 1, `MaxRecords` 2, `MaxStates` 3**: two runs overlap or follow each other, a file is filled and cut, and a late record makes
  a third state. **`MCWorkerInputs`** varies one or two settings at a time around a file that works: every number missing,
  zero and negative, every profile with every transport, bad words, blank and repeated sockets, and the
  environment set, empty, malformed and under its legacy name.
* **Compilation.** Nothing interleaves, so what counts is the variety of the inputs: plans of up to two
  items out of 28 at two frame rates, among them 5/2, where every window is rounded; motions on layers
  from one frame on, shorter than the authored entrance; all sequences of up to three of five words.

Deadlock is not checked: in every part the system may stop, because every job is finished, every call
has returned or the bound is reached. That it does not stop too early is what the liveness properties say.

### Fairness

* `SweepFairness`: the ticker of `queue/cmd/queued/main.go` runs the sweep for the life
  of the process. Nothing else of the queue is fair: workers may crash.
* `PollFairness`: the re-poll timers of both waits keep firing while a request is
  parked. No signal has to arrive.
* `UploadFairness`: the stages of the lane run to their end, the upload goroutine keeps
  polling, the store's handlers complete. Nothing is assumed of cancellation.
* `LeaseFairness`: the renewal ticker runs during a stage and the renderer obeys its
  context. No render has to end by itself. This holds of the CLI transport; a render over the
  daemon's socket ignores the cancellation.
* `WsFairness`: an attempt inside New or Cleanup goes on, time passes, and the sweeper comes back (strongly fair,
  since the lock it needs may be taken and released in between).
* `HostFairness`: the goroutines of a call, a pool or a preparation go on. Nothing is assumed of daemons and child processes:
  in particular not that the render a lane has handed to a daemon returns, because `IPCClient.Render` has no deadline and, once connected, does not
  look at its context (`ipc.go:115-119`, `:341-396`). `EveryCallReturns` therefore says that a call returns or is held up (`HeldUp`): its own
  render is with the daemon, or it waits for a lane whose token is with one that is.
* The fleet's tick, the steps of a finalizer run, the elapsing of its lease and the sweep.

## 4. Findings

Each is a run that ends in a violation; quotations are in `PROJECT.json`.

1. **The tail upload ends with the GPU stage** (`internal/processor/gpu_run.go:87`,
   `cmd/renderinggen/lease.go:55`). The stage's context is cancelled when it
   returns, before Finish; every pooled render falls back to hash-then-PUT.
   Run `tail_upload_scope`.
2. **Two assemblies of one host write one file** (`internal/processor/finalization.go:128`). The
   finalization claim carries no lease, so it is never renewed; after it expired, the recovery loop
   of the same worker assembles to the same path, and the first run completes the parent with a partial file.
   Run `parent_one_host`. `ParentIsWholeFamily` says the rest: the family and its order are right
   even then, and a completed assembly is whole unless two runs of one host met at the path.
3. **An edited plan is not a new job** (`internal/batch/batch.go:116`). Its key is new, its id is not:
   PostgreSQL answers 500 for ever, the in-memory store 409, which counts as existing.
   Run `edited_plan`.
4. **A group policy does not share its choice** (`internal/overlay/animation_policy.go:195`). The subgroup of the
   item stays in the hashed key. Run `shared_choice`.
5. **A stale report of the same process is accepted** (`queue/internal/repository/postgres/finalize.go:56`).
   Transitions are fenced by worker id, not by attempt, and every loop of a process uses one id.
   Run `stale_attempt`. `LedgerIsSound` says what is left: the job is published if completed and its events tell its row,
   and a job that no such report reached has one render.

### Observations met while modelling (no run of their own)

*Queue.*
* `Service.Complete` signals nobody (`service.go:255`), although `wait_routes.go:32` and `notify.go:13` list it;
  with the in-memory store, or while LISTEN is down, a producer learns of it at its next re-poll.
* `WaitState` does not Forget its channel (`wait.go:76`), although `notify.go:84` requires it; the
  abandoned entry takes a later single wake. `SubmitBatch` sends one wake for n jobs (`service.go:96`).
* A read through `PoisonCorruptRead` changes state. Re-claims of a rendered job are not bounded by
  `max_attempts`. Progress of a previous worker stays visible after a re-claim. A child that
  failed permanently leaves its parent pending for ever. `ClaimFinalization` takes a
  running parent from its live holder, which is why `LiveLeaseIsExclusive` exempts it.
* A claim whose operation times out answers 204, as if the queue were empty; a claim whose artifact cannot be
  read answers 500 with the job leased. Any storage failure of renew is a 409 and aborts the
  render. Malformed telemetry makes every report a 409 and uses up the retry budget. A bad chunk
  or job type is a 500. The fallback of the metrics query runs inside an aborted transaction.
* A keyed replay is answered 200 and lands in Submitted, although the doc of Result says Existing; an uncertain
  commit is reported as not created, so nobody is woken. A multilingual base submitted together with its language
  children would become an anchor nobody claims.
* The sweeper skips the gauges when RequeueExpired fails (`queued/main.go`, about line 157), although `service/workers.go`
  says they are reset; ReadyWorkerIDs counts draining workers; the "best-effort" prune aborts the heartbeat's transaction.
* *In-memory store.* The sweep leaves `LeaseUntil` set (`:596`, unlike `:477`); a claim returns a pointer
  to the stored job, which is encoded after the lock is released (`:164`); a claim from
  a stale snapshot may not take the head of the FIFO (`:300`).

*Workers.*
* The Rendered fallback after an expired lease is refused just as Complete was (`report.go:95`, `:109`).
  A crash, or the loss of both reports, after the store phase makes the next
  claim render again. A re-claim by a host whose old run still holds the
  workspace lock fails and costs an attempt. A lane that shuts down drops
  its outcome without cleaning the workspace. A full `doneCh` blocks a lane while nobody renews.
* *Workspaces.* A re-claim that meets Cleanup or the sweep between mkdir and lock fails without need. The sweep treats the
  `parents` staging directory as a workspace (`main.go:282`; `SweepRemovesParents`).
* *Parents.* Chunks submitted one by one may be assembled before the last is there (the run
  submits a family in one piece). A finalization that failed after its claim waits for the sweep,
  and as no attempt is counted it is repeated for ever; two hosts may do so in turns.
* *Logs.* CloseJobLog closes every file of a job id, also those of an overlapping run, which is why `LogIsWhole` is about runs that met
  no other; an AttachJobLog that looked its state up before the close leaves its file open on a forgotten state; a late record of the
  renewal makes a registry entry nobody removes; the size cap counts from each open ("The cap keeps it bounded", `workerlog_joblog.go:33`);
  different job ids may share a file name (`safeJobFileName`).
* *Configuration.* A cache budget of 0 becomes the default, although `config.go:567` says 0 is unbounded. The comment at `config.go:340` lets
  a GPU profile opt out with `mode: cli` and names a test that does not exist; `validate` refuses it (`:504`). Negative lane and worker counts become defaults,
  while negative timings are refused. A `socket_path` of blanks passes `validate` and stops the start at SpreadAcrossSockets. The marker's time to live only has to exceed its refresh, so one missed refresh may expire it.
* *Start.* The worker registers "now that all dependencies and health checks are up and verified" (`main.go:339`), but the health server binds in
  a goroutine: a port that is taken ends the process after it has registered, and perhaps claimed. The recovery loop runs before the catalog is
  checked and the worker registered, and may finalize a parent that early. SetQueueStatus writes a field the server's goroutine may be reading.

*Render host.*
* The claim of `socket_spread.go:90-101` about the least-loaded lane holds of the scan, not of the swap. A killed
  daemon leaves its socket file, which the next StartDaemonPool refuses. A render over the socket ignores its
  context. A child's descendant may keep the pipes open. The counters of the native gate are cumulative.
* A render that fails is not forgotten by the ProgressTracker (`gpu_run.go:274` is reached on success only): `/progress` and the pusher keep
  showing it until another render is observed, although `progress.go:91` says Forget is called when a job leaves the lane, and a retry on the same worker keeps the old baseline of the frame rate.
* `Current` asks the map for the id of the job it loaded, not for the entry (`progress.go:158-163`): if that job is forgotten and observed again in
  between, the position of its earlier render is shown once more, although Forget is said to stop that (`progress.go:91-93`). A scan may show 0 of 0 frames
  for an entry whose first Observe has not come to its lock. The newest entry that `progress.go:155-157` promises is the newest of the stamps as they were read one after the other.
* MaterializePaths returns nil with assets missing when its context ends,
  contrary to `pipeline.go:262`. One URL under two ids fails the plan, because only the path of the last id
  is materialized; if an earlier attempt left a renamed image at the other path, the plan passes with these bytes instead. Two layers that share
  a misnamed image fail the plan too, or the second one gets another image that was renamed to the name.
* The merge moves the entry of a URL to its canonical path without asking `byPath` (`asset_merge.go:51-57`), so two contents may get one path and
  the last install wins, although `asset_registry.go:17-19` excludes it and both branches of `appendAssetRef` refuse it.
* A failed GOP scan is cached as "not certifiable" (`probe.go:43-45` says failures are not cached); `cmd.Wait` may close the
  pipe before it is read. The frame count of the plan is used where the file has none.
* The report path of a calibration run carries no shape label, so shapes overwrite each other; a sample is tagged
  with the phase after its reading, and the first tick of a single probe may still carry the idle tag; an unreadable device is a zero sample.
* A certified GOP is one whose key frames are uniform up to the last; the length of the last one is not
  looked at (`closedGOPPositionsCadence`, `gop_probe.go:188`), and `Uniform` says no more. The identity of the devices is compared within each run only.

*Storage and delivery.*
* The random suffix of a session id is cut off for long job ids. With a shared
  session TLC finds `ContentAddressed` violated (2 uploads, `Chunks` 1): one
  handler renames its pending file between the comparison and the rename of the other.
  The theorems therefore assume sessions of their own. The client does
  not abort a session whose PUT answer was lost; pending bytes stay behind. The reader
  never re-opens its file, so after a software fallback it may tail the removed
  GPU output; `storeArtifact` then notices the size and fails the job. A digest mismatch found after
  Wait is found after the bytes were installed under their own address.
* `storage.go:263` promises "a verified local L2 path", but a hit is not looked at, and with a backend that does not stream nothing ever is:
  `Get` warms both caches with what it fetched (`storage.go:134-144`), and LocalPath installs it again (`:325-333`). `PutFile` reads its source a second time
  and does not hash the copy (`storage.go:354`, `l2.go:340-366`), so a source that changes after the upload is cached under the old
  key. `CacheIsGenuine` is therefore about streaming backends and excepts that copy.
* The byte path of the disk cache indexes a file without adding it to the total (`l2.go:117-146`), so
  `DiskWithinBudget` is about streaming backends. Followers of a shared fetch inherit the leader's cancellation. A hit of
  LocalPath does not refresh the access time. `--verify-all` reports uploads under way as leftovers.
* A failed folder lookup on Drive is taken for "not found" and creates a second folder (`drive.go:435-439` says otherwise), and of two folders the first of
  an unordered list is used, so a retry may upload a second copy. The token file is written outside
  its lock. publishAndVerify compares id and size only.

*Compilation.*
* Windows: a child layer may pass its item's window by one frame or have none; segments of a chain are checked against
  the chain's duration; caption times are not validated; cues are not clamped to the canvas; a watermark keeps the seeded
  duration; sequence cameras may have keys past their end.
* Every camera sequence with captions is refused by the processor (`entity_image_geometry.go:79`), because all names start together at the centre.
* Duplicate item ids: the last one wins. A chain takes a sound effect at chain level. Segment assets are not registered. Kinds given only by a
  template are not chains. Effects of video, shape and map items are ignored. Assetless image overlays are left out of the package.
* An item twice in one group under two roles has its window overwritten. Of an important phrase with a metric's template, which both roles accept, so is the motion,
  although `animation_group_compile.go:9-12` says two owners of one property are rejected. A default pool may draw a retired motion, which refuses the plan.
* An exit of one frame, or a phrase of two, leaves two keys on the last frame, which the renderer rejects by the
  code's own comment; a staggered entrance of one frame divides by zero in the selector sweep and the plan cannot be encoded. `KeysIncrease` excepts the exit of one frame and says so.
* A rolling year whose century goes backwards shows the wrong prefix, because `uniquePrefixes` sorts, although `materialize.go:485-488` says such
  a sequence is rejected; `DatesAreShown` leaves this case out.

## 5. Proofs

All theorems are proved for every value of the constants that satisfies the named
`ASSUME`s; those are evaluated by TLC in every run.

**JobQueueProofs.** None of the invariants is inductive alone: that the sweep closes the right
attempt needs the ledger, that a claim opens the next number needs
`attemptCount` to be the length of the history, that a durable artifact is not
rendered again needs the artifact of every rendered attempt to be recorded. The
inductive invariant is `IInv == TypeOK /\ \A j : RowInv(j)`, where `RowInv` is the
conjunction of `RowLedger`, `RowLease`, `RowArtifact`, `RowBudget` and `RowCancel`. An operation
touches one row, so `RowStep` has one case per action about that row, and the lemma
`Untouched` frames the others; `FinishedFacts`, `CreatedFacts` and `ClosedRow` say once what
closing and opening an attempt do to the history. From `InductiveInvariant` follow `TypeCorrect`, `LedgerCorrect`,
`LeaseCorrect`, `DurableCorrect` and `BudgetCorrect`. The action properties `CancelCorrect`, `AppendOnlyCorrect` and `ExclusiveCorrect` add
what one step can do to the rows (`AttemptsStep`, `RowsStep`) and to the holder (`HolderStep`) of a job.

`LifecycleCorrect`, at the end of the module, is the refinement: every step of the store is, for every job, an
arc of the abstract life cycle or leaves that job alone (`Arc`, `JobArcs`), from `IInv`.

**MemQueueProofs.** A row does not show its place in the FIFO, so `JobInv` ties the state of a job to the list
elements it has: a claimable job has one live element, every other one none that `orderIdx` points to. That a job
which is not claimable has none is what makes the next PushBack leave it there once. From `FifoInvariant` follow
`FifoCorrect`, `EmptyCorrect` (what a claim that found nothing saw under the write lock) and `MemLifecycleCorrect`:
both stores implement the same life cycle.

**QueueCallsProofs.** *Submission* (`ApiInv`): the rows and key maps agree, and each producer's tally is of rows that are there (`SoundAt`),
which gives `SubmissionCorrect`. *Reports.* No part of `LedgerIsSound` is inductive. `LedgerInv` says of each loop what its call may carry and
of each job which of its rows exist; `EventsInv` says by position which event every attempt has left. Both give `EventsCorrect`.
`FencedInv` says of every job but the mixed ones whose render its rows are, and of every call under way that it carries the render of the
attempt its loop claimed: a report that is accepted either is of the running attempt, or `IsMistaken` and makes the job a mixed
one, because two loops of one process cannot be told apart by the id but by the attempt they claimed.
`LedgerSoundCorrect` has no hypothesis about the ids: it holds of one process with all the loops as of one process per loop.

**ConnectionsProofs.** *Long polls.* `PollInv` has two halves: the queue holds distinct open channels and `present` mirrors
it (`QueueInv`), and a channel has one reader, parked on it only while a wake can still come or has come
(`ReadersInv`). That Forget of one request leaves the others' channels needs both. `NotifierCorrect` follows.
*Upload.* `UInv == TypeOK /\ (\A u : UploadInv(u)) /\ ObjectsInv`, with `UploadInv`
split into what the session's files hold at each stage of the handler (`SessionInv`),
what the reader has delivered (`ReaderInv`), what the lane may be waiting for (`LaneInv`)
and what is installed (`InstalledInv`). A step of one upload leaves the others' part alone
(`FrameStep`, `FrameInv`) if sessions are not shared, and an object is only replaced by
itself (`ObjectsStep`). All results have the hypothesis `OwnSessions` (`Session` is injective).
They are `ContentAddressedCorrect`, `StoredCorrectly`, `RejectedCorrectly` and `StreamCorrect`, and their
conjunction for the store phase, `OnlyVerifiedCorrect`.

**DaemonsProofs.** *Fleet*, on top of `JobQueueProofs`. `FleetUsesQueue`: every behaviour of the fleet is a behaviour of
`JobQueue`, because a step of a worker is one of its actions or leaves its rows alone.
`FleetLedgerCorrect` and `FleetDurableCorrect` carry the store's theorems over. `StoredCorrect` and
`WorkspaceCorrect` need their own invariants: a run past the store phase has its bytes
stored (`StoredStep`), and locks and stages agree (`LockStep`). *Workspaces* (`WsInv`): who holds the lock of which inode, and whether the lock name still refers to it, step
by step; `OwnedCorrect` follows for any number of attempts, sweepers and inodes. *Replicas* (`BootInv`): the schema is a prefix of the
migrations, one replica at a time is inside the advisory lock, and a replica that serves has seen the last one. *Worker
process* (`WorkerInv`): `SettingsAreSound` goes through the overlay, the defaults and `validate` as the code applies
them. `StartsCorrect` puts replicas and workers side by side.

**RenderHostProofs.** One section per component, and one for the host that runs any of them. Counters are proved exact with the
renders between their increments and their stores (`CountersExact`); the pool owns what it started and has not
asked to stop (`Tracked`); the clock of the watchdog is no older than the youngest line (`ClockIsYoungest`), which is why
`StallCorrect` is about the whole window; a credited render had its reply (`RepliesAreEarned`); what passed the gates has
collected each proof on the way (`ProofsSoFar`); in a segment batch every accepted file is the render of its own
window, and the windows of the whole clip do not overlap (`SegInv`); the tracker's map and latest entry are related at every step
between the two writes (`LatestMeans`), and what a reader has in hand was live during its call, while the jobs its scan has still to visit
include those of the entries that stayed (`ReaderMeans`); a run that met no other has all its records in its file (`AloneMeans`).
*Files of a plan* (`PrepInv`): what the merge leaves (`Merged`), what each asset of the pool has come to (`AssetSettled`), and, while the layers are
normalized one after the other, which files are there and under which names (`Normalized`). That every layer has its own bytes (`BytesInPlace`)
holds of a clean merge (`MergeIsClean`) only: the merge moves the entry of a URL without asking whether the path is taken, and then the
last install wins. It also needs that no misnamed image is shared by two layers (`MisnamedIsShared`): once one layer has renamed the file, another
image may take the name. `MaterializedCorrect` says both, and that a merge is not clean because of moved entries alone.

**ServicesProofs.** Again a section each.
*Cache* (`CacheInv`): a key in flight has one leader, and followers point to a call that downloads their key (`FlightInv`); of a streaming backend
what a call has in hand, the files and the heap were compared with their key, or are the copy of PutFile, which never gets to the heap (`CachedInv`, `HeapInv`). *Disk budget* (`BudgetInv`): the index
has no key twice, its length is the accounted size and after the census it names every file but the stuck ones; an eviction takes a batch off it or all there is, so that after an install the index is within the budget or smaller by all but one of a batch (`DiskCorrect`).
*Object store* (`StoreInv`): what is acknowledged is right where readers look and where a power loss leaves it; an upload is ahead of its own promises at every step.
*Drive and ledger* (`DeliveryInv`): unless a lookup failed there is one folder, because its creator holds the mutex and has seen none;
the schema stamp counts the columns there are. *Probe* (`MediaInv`): what the scan has counted is true of the packets it has read, wherever it stopped.
*Calibration* (`CalibrationInv`): of the appended samples at most the last is not counted yet. *Parents* (`FamilyInv`), on top of `JobQueue`: what a run has read of
its family stays true until it completes, because chunks are submitted together and a done chunk stays done; and what lies at the path of a host is the run's own and as whole as
its stage says, or was begun while another run of the host was there. `FamilyCorrect` has no hypothesis about the hosts.

**AnimationProofs.** `OwnerCorrect`: in a plan that is accepted every motion is the producer's, a policy's or that of the one
group that claimed the item, for any documents, pools, motions and hashes. `AnimationHasOneOwner` speaks of the last state only; `AnimInv`
says what each pass has established so far: the policies read so far are the rules of their selectors, two of which never meet
(`PolicyInv`); an item already passed keeps its window and its producer's motion and has its policy's (`Treated` in `ItemsInv`); the assignments
are those of the members claimed so far, one each and in their order, which some function from assignments to members shows, and each
member claimed was nobody else's (`ClaimsTo` in `ClaimsInv`, `Unowned`); and after `d` assignments an item shows the window and the motion of the last
one that names it (`Applied` in `AssignInv`). The last of several is what counts because one group may list an item twice, hence
`DecidesWindow` and `DecidesMotion` in the property. The motion of a group's role is found where the code counts it off the
pool (`NthExists`), by the cardinalities of the pool's prefixes.

**Assumptions.** What the named assumptions ask beyond types: no value of the model that stands for "none" is a real
one (`ConstantsAssumption`, `ContentAssumption`, `CacheAssumption`, `DaemonAssumption`, `DeliveryAssumption`, `PipelineAssumption`,
`ProgressAssumption`, `LogsAssumption`, `PrepAssumption`); there is always an inode that no user has (`InodeAssumption`; the kernel gives a new file one that
nobody has open); a parent is not its own chunk, its chunks are submitted in one piece, and every run belongs to some worker (`FamilyAssumption`); a manifest is a
sequence of entries, bases before languages, and jobs of one key are refused alike (`ManifestAssumption`; keys are
digests of the job); references and manifest entries name contents the model knows (`PrepAssumption`); `EvictionBatch` is a number (`CacheAssumption`); `MinRunsPerShape` is positive and a shape repeats a natural number of times (`ProbeAssumption`); the inputs of a worker process have the
types the decoder enforces, and a setting the environment gives is not empty (`WorkerAssumption`; `config.go` ignores empty variables); a plan has the shapes the decoder
enforces, only texts have a template or kind with a motion target of its own, and draws are natural numbers (`AnimationAssumption`).
Each is evaluated by TLC in the run that instantiates its module.

**Only model-checked.** Liveness under fairness (`ExpiredLeaseIsReclaimed`, `EveryConnectionEnds`, `LostRenderStops`,
`LeftoverIsSwept`, `FrozenFleetShows`, `EveryWaitEnds`, `FamilyIsFinalized`) is out of the prover's reach. What the
folds of `PlanCompile`, `MotionLowering` and `DatePlan` compute for every input (`PlanIsRenderable`) would need induction
over data, which is out of reach as well.

## 6. What is not modelled, and the plan

Left out of modelled parts: priorities, listings and telemetry columns of the queue; KeepWorkspace,
metrics, build identity, the bridge from the standard logger, and most of the CPU-only jobs of the workers; range reads of the object store;
command lines, parsing of ffprobe's and the renderer's output; OAuth; the arithmetic of the capacity
recommendation; styles, colours, shapes, text layout and map geometry, which are floating-point data that no property tells apart.
`KeepWorkspace` is a switch for inspection: with it the post pool keeps directory and lock of a finished job (`worker_pools.go:285-288`), so
what `WorkspaceHasItsRun` says of the end of a run is about the default, in which it is off.
Not modelled at all, with the reason, are the components marked so in `PROJECT.json`.

Next steps:

1. **Proofs**: those parts of `PlanIsRenderable` that need no induction.
2. **Composition**: `LeaseCalls` on the rows of `JobQueue`, and `WorkspaceFiles` under the runs of `WorkerPipeline`.
3. **Modelling**: styles and map geometry, once a property is about them.
