--------------------------- MODULE WorkerPipeline ---------------------------
(***************************************************************************)
(* The render workers on top of the queue of JobQueue: the claim pipeline  *)
(* of cmd/renderinggen (prep pool, GPU lanes, post pool), the renewal of   *)
(* the queue lease around each stage (lease.go) and the terminal reports   *)
(* of internal/processor (report.go).                                      *)
(*                                                                         *)
(* A run is one claimed job on its way through one worker process; a       *)
(* worker has several at a time.  Each stage that renews the lease does so *)
(* under a context of its own, which is cancelled when the renewal is      *)
(* refused or gives up; between two stages nobody renews.                  *)
(*                                                                         *)
(* Reports travel over HTTP: a report is accepted, or refused because the  *)
(* worker no longer owns the row, or lost, or accepted while its answer is *)
(* lost.  The worker cannot tell the last three apart.                     *)
(***************************************************************************)
EXTENDS JobQueue, FiniteSets

CONSTANTS
  Slots,  \* bound of the model: runs a worker has at a time
  Lanes   \* GPU lanes of a worker

ASSUME PipelineAssumption ==
  /\ None \notin Workers \X Slots
  /\ Lanes \in Nat

VARIABLES
  stage,    \* where each run is
  job,      \* the job of each run, or None
  attempt,  \* the attempt number the claim answered with, 0 when idle
  lost,     \* the context of the run's stage is cancelled
  lock,     \* per worker and job the run that holds the workspace lock
  stored    \* jobs whose rendered bytes are in the object store

queueRows    == vars
pipeline     == <<stage, job, attempt, lost, lock, stored>>
pipelineVars == <<queueRows, pipeline>>

Runs == Workers \X Slots
WorkerOf(r) == r[1]

(* Stages under withLeaseVoid *)
RenewingStages == {"publishing", "closing", "claimed", "preparing", "waiting",
                   "rendering", "storing", "uploading"}
(* Stages of a run that has opened its workspace and not yet cleaned it *)
WorkspaceStages == {"preparing", "waiting", "rendering", "rendered", "storing",
                    "uploading"}
(* Terminal reports; a run that still has a workspace keeps it meanwhile *)
ReportStages == {"completing", "fallback", "givingback", "failing", "rejecting"}
Stages == {"idle", "cleaning"} \cup RenewingStages \cup WorkspaceStages
            \cup ReportStages

-----------------------------------------------------------------------------
(* Helpers *)

HoldsLock(r) == job[r] # None /\ lock[WorkerOf(r)][job[r]] = r

(* The run goes to stage st under a fresh context. *)
Goto(r, st) ==
  /\ stage' = [stage EXCEPT ![r] = st]
  /\ lost' = [lost EXCEPT ![r] = FALSE]

Idle(r) ==
  /\ Goto(r, "idle")
  /\ job' = [job EXCEPT ![r] = None]
  /\ attempt' = [attempt EXCEPT ![r] = 0]

(* Workspace.Cleanup; without a workspace it does nothing *)
Unlock(r) ==
  lock' = [lock EXCEPT ![WorkerOf(r)] =
             [j \in Jobs |-> IF @[j] = r THEN None ELSE @[j]]]

PipelineInit ==
  /\ Init
  /\ stage = [r \in Runs |-> "idle"]
  /\ job = [r \in Runs |-> None]
  /\ attempt = [r \in Runs |-> 0]
  /\ lost = [r \in Runs |-> FALSE]
  /\ lock = [w \in Workers |-> [j \in Jobs |-> None]]
  /\ stored = {}

-----------------------------------------------------------------------------
(* The prep pool *)

(* A claim that carries an artifact is a publication retry. *)
FirstStage(j) == IF HandsOver(j) THEN "publishing" ELSE "claimed"

Claim(r, j) ==
  /\ stage[r] = "idle"
  /\ ClaimState(j, WorkerOf(r))
  /\ stage' = [stage EXCEPT ![r] = FirstStage(j)]
  /\ job' = [job EXCEPT ![r] = j]
  /\ attempt' = [attempt EXCEPT ![r] = AttemptNumber(j)]
  /\ UNCHANGED <<lost, lock, stored>>

(* The claim commits and its answer never arrives. *)
ClaimAnswerLost(j, w) == ClaimState(j, w) /\ UNCHANGED pipeline

(* PrepareJob up to workspace.New, which fails when another run of this      *)
(* host still holds the workspace of the job.                                *)
OpenWorkspace(r) ==
  LET w == WorkerOf(r)
  IN  /\ stage[r] = "claimed"
      /\ lock[w][job[r]] = None
      /\ lock' = [lock EXCEPT ![w][job[r]] = r]
      /\ stage' = [stage EXCEPT ![r] = "preparing"]
      /\ UNCHANGED <<queueRows, job, attempt, lost, stored>>

(* PrepareJob cleans the workspace it owns before it returns the error; the  *)
(* error is reported unless it is the cancelled context.                     *)
PrepareFails(r) ==
  /\ stage[r] \in {"claimed", "preparing"}
  /\ Unlock(r)
  /\ \E st \in {"failing", "rejecting"} : Goto(r, st)
  /\ UNCHANGED <<queueRows, job, attempt, stored>>

Prepared(r) ==
  /\ stage[r] = "preparing"
  /\ stage' = [stage EXCEPT ![r] = "waiting"]
  /\ UNCHANGED <<queueRows, job, attempt, lost, lock, stored>>

(* The lease is lost before a lane is free: no report, the workspace goes. *)
AbortKeepsWorkspace(r) ==
  /\ stage[r] \in {"claimed", "preparing", "waiting"} /\ lost[r]
  /\ Idle(r)
  /\ UNCHANGED <<queueRows, lock, stored>>
AbortPrep(r) ==
  /\ stage[r] \in {"claimed", "preparing", "waiting"} /\ lost[r]
  /\ Unlock(r)
  /\ Idle(r)
  /\ UNCHANGED <<queueRows, stored>>

-----------------------------------------------------------------------------
(* The GPU lanes *)

(* The rendezvous with a free lane; the lane renews under its own context,   *)
(* whatever became of the one the job waited under.                          *)
HandOff(r) ==
  /\ stage[r] = "waiting"
  /\ Cardinality({q \in Runs : WorkerOf(q) = WorkerOf(r)
                                 /\ stage[q] = "rendering"}) < Lanes
  /\ Goto(r, "rendering")
  /\ UNCHANGED <<queueRows, job, attempt, lock, stored>>

RenderDone(r) ==
  /\ stage[r] = "rendering"
  /\ Goto(r, "rendered")
  /\ UNCHANGED <<queueRows, job, attempt, lock, stored>>

(* The renderer fails, or is stopped by the cancelled context: the outcome   *)
(* goes to the post pool, which reports it.                                  *)
RenderFails(r) ==
  /\ stage[r] = "rendering"
  /\ Goto(r, "failing")
  /\ UNCHANGED <<queueRows, job, attempt, lock, stored>>

-----------------------------------------------------------------------------
(* The post pool *)

StartPost(r) ==
  /\ stage[r] = "rendered"
  /\ Goto(r, "storing")
  /\ UNCHANGED <<queueRows, job, attempt, lock, stored>>

(* FinalizeJob: the bytes are in the object store and the artifact names them *)
Store(r) ==
  /\ stage[r] = "storing"
  /\ stored' = stored \cup {job[r]}
  /\ stage' = [stage EXCEPT ![r] = "uploading"]
  /\ UNCHANGED <<queueRows, job, attempt, lost, lock>>

(* An error of FinalizeJob comes without an artifact, even when the upload   *)
(* had succeeded before a later check.                                       *)
StoreFailureKeepsArtifact(r) ==
  /\ stage[r] = "storing"
  /\ Goto(r, "givingback")
  /\ UNCHANGED <<queueRows, job, attempt, lock, stored>>
StoreFails(r) ==
  /\ stage[r] = "storing"
  /\ stored' \in {stored, stored \cup {job[r]}}
  /\ \E st \in {"failing", "rejecting"} : Goto(r, st)
  /\ UNCHANGED <<queueRows, job, attempt, lock>>

(* Publish; the publication retry completes the job under the same lease *)
PublishDone(r) ==
  /\ \/ stage[r] = "publishing" /\ stage' = [stage EXCEPT ![r] = "closing"]
                                /\ UNCHANGED lost
     \/ stage[r] = "uploading" /\ Goto(r, "completing")
  /\ UNCHANGED <<queueRows, job, attempt, lock, stored>>

(* The bytes are durable: the job is given back for publication only, unless *)
(* the error is permanent (no Drive capability).                             *)
PublishFails(r) ==
  /\ stage[r] \in {"publishing", "uploading"}
  /\ \E st \in {"givingback", "rejecting"} : Goto(r, st)
  /\ UNCHANGED <<queueRows, job, attempt, lock, stored>>

-----------------------------------------------------------------------------
(* Terminal reports *)

(* Complete succeeds; or it is accepted and the answer lost, or it is        *)
(* refused or lost, and the run falls back to Rendered.                      *)
AfterCompleteError(r) == IF stage[r] = "closing" THEN "givingback" ELSE "fallback"

CompleteAccepted(r) ==
  /\ stage[r] \in {"completing", "closing"}
  /\ Complete(job[r], WorkerOf(r))
  /\ \E st \in {"cleaning", AfterCompleteError(r)} : Goto(r, st)
  /\ UNCHANGED <<job, attempt, lock, stored>>

CompleteError(r) ==
  /\ stage[r] \in {"completing", "closing"}
  /\ Goto(r, AfterCompleteError(r))
  /\ UNCHANGED <<queueRows, job, attempt, lock, stored>>

ReportAccepted(r) ==
  /\ \/ stage[r] \in {"fallback", "givingback"} /\ Rendered(job[r], WorkerOf(r))
     \/ stage[r] = "failing" /\ Fail(job[r], WorkerOf(r))
     \/ stage[r] = "rejecting" /\ FailPermanently(job[r], WorkerOf(r))
  /\ Goto(r, "cleaning")
  /\ UNCHANGED <<job, attempt, lock, stored>>

(* refused or lost: logged and dropped *)
ReportDropped(r) ==
  /\ stage[r] \in ReportStages \ {"completing"}
  /\ Goto(r, "cleaning")
  /\ UNCHANGED <<queueRows, job, attempt, lock, stored>>

Cleanup(r) ==
  /\ stage[r] = "cleaning"
  /\ Unlock(r)
  /\ Idle(r)
  /\ UNCHANGED <<queueRows, stored>>

-----------------------------------------------------------------------------
(* The lease *)

RenewLease(r) ==
  /\ stage[r] \in RenewingStages /\ ~lost[r]
  /\ Renew(job[r], WorkerOf(r))
  /\ UNCHANGED pipeline

LoseContext(r) ==
  /\ stage[r] \in RenewingStages /\ ~lost[r]
  /\ lost' = [lost EXCEPT ![r] = TRUE]
  /\ UNCHANGED <<queueRows, stage, job, attempt, lock, stored>>

(* renewWithRetry: the queue reports a conflict *)
RetriesConflict(r) ==
  /\ stage[r] \in RenewingStages /\ ~lost[r]
  /\ ~Owns(job[r], WorkerOf(r), HeldStates)
  /\ UNCHANGED pipelineVars
RenewRefused(r) == LoseContext(r) /\ ~Owns(job[r], WorkerOf(r), HeldStates)

(* renewWithRetry: every retry failed although the lease may still be held *)
RenewExhausted(r) == LoseContext(r)

(* A render whose context is cancelled ends. *)
AbortRender(r) == lost[r] /\ RenderFails(r)

-----------------------------------------------------------------------------
(* The process of a worker dies or shuts down: its runs are gone, the kernel *)
(* drops its workspace locks.                                                *)
Crash(w) ==
  /\ \E r \in Runs : WorkerOf(r) = w /\ stage[r] # "idle"
  /\ stage' = [r \in Runs |-> IF WorkerOf(r) = w THEN "idle" ELSE stage[r]]
  /\ job' = [r \in Runs |-> IF WorkerOf(r) = w THEN None ELSE job[r]]
  /\ attempt' = [r \in Runs |-> IF WorkerOf(r) = w THEN 0 ELSE attempt[r]]
  /\ lost' = [r \in Runs |-> IF WorkerOf(r) = w THEN FALSE ELSE lost[r]]
  /\ lock' = [lock EXCEPT ![w] = [j \in Jobs |-> None]]
  /\ UNCHANGED <<queueRows, stored>>

(* Producers, the clock and the sweeper of the queue *)
QueueStep ==
  /\ \/ \E j \in Jobs : Submit(j) \/ Cancel(j) \/ Retry(j) \/ LeaseElapses(j)
     \/ \E S \in SUBSET Jobs : RequeueExpired(S)
  /\ UNCHANGED pipeline

PrepStep(r) ==
  \/ \E j \in Jobs : Claim(r, j)
  \/ OpenWorkspace(r) \/ Prepared(r) \/ PrepareFails(r) \/ AbortPrep(r)
GpuStep(r) == HandOff(r) \/ RenderDone(r) \/ RenderFails(r)
PostStep(r) ==
  StartPost(r) \/ Store(r) \/ StoreFails(r) \/ PublishDone(r) \/ PublishFails(r)
ReportStep(r) ==
  \/ CompleteAccepted(r) \/ CompleteError(r) \/ ReportAccepted(r)
  \/ ReportDropped(r) \/ Cleanup(r)
LeaseStep(r) == RenewLease(r) \/ RenewRefused(r) \/ RenewExhausted(r)

PipelineNext ==
  \/ \E r \in Runs : \/ PrepStep(r) \/ GpuStep(r) \/ PostStep(r)
                     \/ ReportStep(r) \/ LeaseStep(r)
  \/ \E j \in Jobs, w \in Workers : ClaimAnswerLost(j, w)
  \/ \E w \in Workers : Crash(w)
  \/ QueueStep

PipelineSpec == PipelineInit /\ [][PipelineNext]_pipelineVars

(* The renewal ticker keeps running during a stage and the renderer obeys    *)
(* its context.  No render has to end by itself.                             *)
LeaseFairness ==
  \A r \in Runs : WF_pipelineVars(RenewRefused(r))
                    /\ WF_pipelineVars(AbortRender(r))

PipelineFairSpec == PipelineSpec /\ LeaseFairness

-----------------------------------------------------------------------------
(* Properties *)

(* A workspace lock belongs to a run that works on that job, and a run with  *)
(* an open workspace holds its lock: two attempts of a job never share a     *)
(* directory on one host, and no aborted run leaves a lock behind that would *)
(* fail every later attempt there.                                           *)
WorkspaceHasItsRun ==
  /\ \A w \in Workers, j \in Jobs : lock[w][j] # None =>
       LET r == lock[w][j]
       IN  /\ r \in Runs /\ WorkerOf(r) = w /\ job[r] = j
           /\ stage[r] \in WorkspaceStages \cup ReportStages \cup {"cleaning"}
  /\ \A r \in Runs : stage[r] \in WorkspaceStages => HoldsLock(r)

(* What the queue records as an artifact is in the object store, however     *)
(* stages, reports and crashes of several attempts interleave.               *)
ArtifactIsStored == \A j \in Jobs : artifact[j] => j \in stored

(* A worker does not go on rendering what it no longer owns: after a cancel, *)
(* an expiry or a takeover the render ends, even one that would never end by *)
(* itself ("aborts instead of double-processing", lease.go).                 *)
LostRenderStops ==
  \A r \in Runs :
    LET Stray == /\ stage[r] = "rendering"
                 /\ ~Owns(job[r], WorkerOf(r), HeldStates)
    IN  Stray ~> ~Stray
=============================================================================
