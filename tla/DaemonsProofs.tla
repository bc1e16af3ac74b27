----------------------------- MODULE DaemonsProofs -----------------------------
(***************************************************************************)
(* Proofs about the processes that never end, for any number of replicas,  *)
(* migrations, workspaces, workers and inputs: the fleet uses the queue    *)
(* only through its operations and stores what it records, the workspaces  *)
(* of a worker are owned by one run at a time, the queue daemons migrate   *)
(* one after the other and serve nothing before the last migration, and a  *)
(* worker process runs on the settings it was given.                       *)
(***************************************************************************)
EXTENDS MCDaemons, JobQueueProofs, FiniteSetTheorems

-----------------------------------------------------------------------------
(* The fleet and the queue: every step of the fleet is a step of the queue or *)
(* leaves it alone, so what JobQueueProofs shows of the queue holds under the *)
(* workers that really call it; and the stages in which a run may report an   *)
(* artifact are reached only through Store or through a claim that was handed *)
(* a recorded one.                                                            *)

(* What one step of the fleet does to the queue *)
QueueMove ==
  \/ \E j \in Jobs, w \in Workers :
       \/ ClaimState(j, w) \/ Complete(j, w) \/ Rendered(j, w) \/ Fail(j, w)
       \/ FailPermanently(j, w) \/ Renew(j, w)
  \/ \E j \in Jobs : Submit(j) \/ Cancel(j) \/ Retry(j) \/ LeaseElapses(j)
  \/ \E S \in SUBSET Jobs : RequeueExpired(S)

(* A run that is not idle has a job. *)
RunsTyped ==
  /\ stage \in [Runs -> Stages]
  /\ job \in [Runs -> Jobs \cup {None}]
  /\ \A r \in Runs : stage[r] # "idle" => job[r] \in Jobs

-----------------------------------------------------------------------------
(* The queue only moves by its own operations. *)
LEMMA MoveIsNext == QueueMove => Next
BY DEF QueueMove, Next

(* A run that ends leaves the others as they are. *)
LEMMA IdleTyped ==
  ASSUME RunsTyped, NEW r \in Runs, Idle(r)
  PROVE  RunsTyped'
BY DEF RunsTyped, Idle, Goto, Stages

(* Every action keeps a job under every run that is not idle. *)
LEMMA RunsTypedStep == RunsTyped /\ [PipelineNext]_pipelineVars => RunsTyped'
<1> SUFFICES ASSUME RunsTyped, [PipelineNext]_pipelineVars PROVE RunsTyped'
  OBVIOUS
<1> USE DEF RunsTyped
<1>1. CASE UNCHANGED pipelineVars
  BY <1>1 DEF pipelineVars, pipeline
<1>2. ASSUME NEW r \in Runs, PrepStep(r) PROVE RunsTyped'
  <2>1. ASSUME NEW j \in Jobs, Claim(r, j) PROVE RunsTyped'
    BY <2>1 DEF Claim, FirstStage, Stages, RenewingStages
  <2>2. CASE OpenWorkspace(r) \/ Prepared(r)
    BY <2>2 DEF OpenWorkspace, Prepared, Stages, RenewingStages
  <2>3. CASE PrepareFails(r)
    BY <2>3 DEF PrepareFails, Goto, Stages, ReportStages
  <2>4. CASE AbortPrep(r)
    BY <2>4, IdleTyped DEF AbortPrep
  <2>5. QED
    BY <1>2, <2>1, <2>2, <2>3, <2>4 DEF PrepStep
<1>3. ASSUME NEW r \in Runs, GpuStep(r) PROVE RunsTyped'
  BY <1>3 DEF GpuStep, HandOff, RenderDone, RenderFails, Goto, Stages,
              RenewingStages, WorkspaceStages, ReportStages
<1>4. ASSUME NEW r \in Runs, PostStep(r) PROVE RunsTyped'
  BY <1>4 DEF PostStep, StartPost, Store, StoreFails, PublishDone,
              PublishFails, Goto, Stages, RenewingStages, ReportStages
<1>5. ASSUME NEW r \in Runs, ReportStep(r) PROVE RunsTyped'
  <2>1. CASE Cleanup(r)
    BY <2>1, IdleTyped DEF Cleanup
  <2>2. CASE CompleteAccepted(r) \/ CompleteError(r)
    BY <2>2 DEF CompleteAccepted, CompleteError, AfterCompleteError, Goto,
                Stages, ReportStages
  <2>3. CASE ReportAccepted(r) \/ ReportDropped(r)
    BY <2>3 DEF ReportAccepted, ReportDropped, Goto, Stages, ReportStages
  <2>4. QED
    BY <1>5, <2>1, <2>2, <2>3 DEF ReportStep
<1>6. ASSUME NEW r \in Runs, LeaseStep(r) PROVE RunsTyped'
  BY <1>6 DEF LeaseStep, RenewLease, RenewRefused, RenewExhausted, LoseContext,
              pipeline
<1>7. CASE \/ \E j \in Jobs, w \in Workers : ClaimAnswerLost(j, w)
           \/ QueueStep
  BY <1>7 DEF ClaimAnswerLost, QueueStep, pipeline
<1>8. ASSUME NEW w \in Workers, Crash(w) PROVE RunsTyped'
  BY <1>8 DEF Crash, Stages
<1>9. QED
  BY <1>1, <1>2, <1>3, <1>4, <1>5, <1>6, <1>7, <1>8 DEF PipelineNext

(* The runs are typed in every reachable state. *)
LEMMA RunsTypedInvariant == PipelineSpec => []RunsTyped
<1>1. PipelineInit => RunsTyped
  BY DEF PipelineInit, RunsTyped, Stages
<1>2. QED
  BY <1>1, RunsTypedStep, PTL DEF PipelineSpec

-----------------------------------------------------------------------------
(* Each step of the fleet moves the queue by one operation or not at all. *)
LEMMA StepMovesQueue ==
  RunsTyped /\ [PipelineNext]_pipelineVars => QueueMove \/ UNCHANGED vars
<1> SUFFICES ASSUME RunsTyped, [PipelineNext]_pipelineVars
             PROVE  QueueMove \/ UNCHANGED vars
  OBVIOUS
<1>1. CASE UNCHANGED pipelineVars
  BY <1>1 DEF pipelineVars, queueRows
<1>2. ASSUME NEW r \in Runs, PrepStep(r) PROVE QueueMove \/ UNCHANGED vars
  BY <1>2 DEF PrepStep, Claim, OpenWorkspace, Prepared, PrepareFails,
              AbortPrep, QueueMove, queueRows, Runs, WorkerOf
<1>3. ASSUME NEW r \in Runs, GpuStep(r) \/ PostStep(r)
      PROVE  QueueMove \/ UNCHANGED vars
  BY <1>3 DEF GpuStep, HandOff, RenderDone, RenderFails, PostStep, StartPost,
              Store, StoreFails, PublishDone, PublishFails, queueRows
<1>4. ASSUME NEW r \in Runs, ReportStep(r) PROVE QueueMove \/ UNCHANGED vars
  <2>1. WorkerOf(r) \in Workers
    BY DEF Runs, WorkerOf
  <2>2. stage[r] # "idle" => job[r] \in Jobs
    BY DEF RunsTyped
  <2>3. CASE CompleteError(r) \/ ReportDropped(r) \/ Cleanup(r)
    BY <2>3 DEF CompleteError, ReportDropped, Cleanup, queueRows
  <2>4. CASE CompleteAccepted(r) \/ ReportAccepted(r)
    BY <2>1, <2>2, <2>4 DEF CompleteAccepted, ReportAccepted, QueueMove
  <2>5. QED
    BY <1>4, <2>3, <2>4 DEF ReportStep
<1>5. ASSUME NEW r \in Runs, LeaseStep(r) PROVE QueueMove \/ UNCHANGED vars
  <2>1. WorkerOf(r) \in Workers
    BY DEF Runs, WorkerOf
  <2>2. stage[r] # "idle" => job[r] \in Jobs
    BY DEF RunsTyped
  <2>3. QED
    BY <1>5, <2>1, <2>2 DEF LeaseStep, RenewLease, RenewRefused,
       RenewExhausted, LoseContext, QueueMove, RenewingStages, queueRows
<1>6. ASSUME NEW j \in Jobs, NEW w \in Workers, ClaimAnswerLost(j, w)
      PROVE  QueueMove \/ UNCHANGED vars
  BY <1>6 DEF ClaimAnswerLost, QueueMove
<1>7. CASE QueueStep
  BY <1>7 DEF QueueStep, QueueMove
<1>8. ASSUME NEW w \in Workers, Crash(w) PROVE QueueMove \/ UNCHANGED vars
  BY <1>8 DEF Crash, queueRows
<1>9. QED
  BY <1>1, <1>2, <1>3, <1>4, <1>5, <1>6, <1>7, <1>8 DEF PipelineNext

(* The fleet implements the queue: pools, lanes, crashes and lost answers    *)
(* make no step the store's own specification does not allow.                *)
THEOREM FleetUsesQueue == PipelineSpec => Spec
<1>1. PipelineInit => Init
  BY DEF PipelineInit
<1>2. RunsTyped /\ [PipelineNext]_pipelineVars => [Next]_vars
  BY StepMovesQueue, MoveIsNext
<1>3. QED
  BY <1>1, <1>2, RunsTypedInvariant, PTL DEF PipelineSpec, Spec

(* Under the real workers, the rows and the attempts of the queue agree. *)
THEOREM FleetLedgerCorrect == PipelineSpec => []AttemptLedgerAgrees
BY FleetUsesQueue, LedgerCorrect, PTL

(* Under the real workers, no attempt after a rendered one renders again. *)
THEOREM FleetDurableCorrect == PipelineSpec => []NoRenderAfterDurable
BY FleetUsesQueue, DurableCorrect, PTL

-----------------------------------------------------------------------------
(* The stages in which a run holds a durable artifact *)
DurableStages == {"publishing", "closing", "uploading", "completing",
                  "fallback", "givingback"}

(* ArtifactIsStored is not inductive by itself: a report makes the queue     *)
(* record the artifact, so the runs that may report one are bound too.       *)
StoredInv ==
  /\ ArtifactIsStored
  /\ \A r \in Runs : stage[r] \in DurableStages => job[r] \in stored

(* The operations of the queue that record no artifact. *)
LEMMA ArtifactKept ==
  ASSUME NEW j \in Jobs, NEW w \in Workers,
         \/ ClaimState(j, w) \/ Fail(j, w) \/ FailPermanently(j, w)
         \/ Renew(j, w) \/ Submit(j) \/ Cancel(j) \/ Retry(j)
         \/ LeaseElapses(j)
  PROVE  artifact' = artifact
BY DEF ClaimState, Fail, FailPermanently, Renew, Submit, Cancel, Retry,
       LeaseElapses

(* A report with an artifact records it for its own job only. *)
LEMMA ArtifactRecorded ==
  ASSUME TypeOK, NEW j \in Jobs, NEW w \in Workers,
         Complete(j, w) \/ Rendered(j, w)
  PROVE  \A k \in Jobs : artifact'[k] => artifact[k] \/ k = j
BY DEF Complete, Rendered, TypeOK

(* Every action keeps the artifacts and the runs that carry one stored. *)
LEMMA StoredStep ==
  TypeOK /\ RunsTyped /\ StoredInv /\ [PipelineNext]_pipelineVars => StoredInv'
<1> SUFFICES ASSUME TypeOK, RunsTyped, StoredInv, [PipelineNext]_pipelineVars
             PROVE  StoredInv'
  OBVIOUS
<1> USE DEF StoredInv, ArtifactIsStored, DurableStages
<1>a. ASSUME UNCHANGED vars PROVE artifact' = artifact
  BY <1>a DEF vars
<1>b. \A r \in Runs : WorkerOf(r) \in Workers
  BY DEF Runs, WorkerOf
<1>c. \A r \in Runs : stage[r] # "idle" => job[r] \in Jobs
  BY DEF RunsTyped
<1>d. stage \in [Runs -> Stages] /\ job \in [Runs -> Jobs \cup {None}]
  BY DEF RunsTyped
<1>1. CASE UNCHANGED pipelineVars
  BY <1>1, <1>a DEF pipelineVars, pipeline, queueRows
<1>2. ASSUME NEW r \in Runs, PrepStep(r) PROVE StoredInv'
  <2>1. ASSUME NEW j \in Jobs, Claim(r, j) PROVE StoredInv'
    <3>1. artifact' = artifact /\ stored' = stored
      BY <1>b, <2>1, ArtifactKept DEF Claim
    <3>2. FirstStage(j) \in DurableStages => j \in stored
      BY DEF FirstStage, HandsOver
    <3>3. QED
      BY <1>d, <2>1, <3>1, <3>2 DEF Claim
  <2>2. CASE OpenWorkspace(r) \/ Prepared(r)
    BY <1>a, <1>d, <2>2 DEF OpenWorkspace, Prepared, queueRows
  <2>3. CASE PrepareFails(r) \/ AbortPrep(r)
    BY <1>a, <1>d, <2>3 DEF PrepareFails, AbortPrep, Idle, Goto, queueRows
  <2>4. QED
    BY <1>2, <2>1, <2>2, <2>3 DEF PrepStep
<1>3. ASSUME NEW r \in Runs, GpuStep(r) PROVE StoredInv'
  BY <1>3, <1>a, <1>d DEF GpuStep, HandOff, RenderDone, RenderFails, Goto,
                          queueRows
<1>4. ASSUME NEW r \in Runs, PostStep(r) PROVE StoredInv'
  <2>1. CASE StartPost(r) \/ Store(r) \/ StoreFails(r)
    BY <1>a, <1>d, <2>1 DEF StartPost, Store, StoreFails, Goto, queueRows
  <2>2. CASE PublishDone(r) \/ PublishFails(r)
    BY <1>a, <1>d, <2>2 DEF PublishDone, PublishFails, Goto, queueRows
  <2>3. QED
    BY <1>4, <2>1, <2>2 DEF PostStep
<1>5. ASSUME NEW r \in Runs, ReportStep(r) PROVE StoredInv'
  <2>1. CASE CompleteError(r) \/ ReportDropped(r) \/ Cleanup(r)
    BY <1>a, <1>d, <2>1 DEF CompleteError, AfterCompleteError, ReportDropped,
                            Cleanup, Idle, Goto, queueRows
  <2>2. CASE CompleteAccepted(r)
    <3>1. \A k \in Jobs : artifact'[k] => artifact[k] \/ k = job[r]
      BY <1>b, <1>c, <2>2, ArtifactRecorded DEF CompleteAccepted
    <3>2. QED
      BY <1>d, <2>2, <3>1 DEF CompleteAccepted, AfterCompleteError, Goto
  <2>3. CASE ReportAccepted(r)
    <3>1. \A k \in Jobs : artifact'[k] =>
            \/ artifact[k]
            \/ k = job[r] /\ stage[r] \in {"fallback", "givingback"}
      <4>1. WorkerOf(r) \in Workers /\ job[r] \in Jobs
        BY <1>b, <1>c, <2>3 DEF ReportAccepted
      <4>2. CASE stage[r] \in {"fallback", "givingback"}
        BY <2>3, <4>1, <4>2, ArtifactRecorded DEF ReportAccepted
      <4>3. CASE stage[r] \in {"failing", "rejecting"}
        <5>1. Fail(job[r], WorkerOf(r)) \/ FailPermanently(job[r], WorkerOf(r))
          BY <2>3, <4>3 DEF ReportAccepted
        <5>2. artifact' = artifact
          BY <5>1 DEF Fail, FailPermanently
        <5>3. QED
          BY <5>2
      <4>4. QED
        BY <2>3, <4>2, <4>3 DEF ReportAccepted
    <3>2. QED
      BY <1>d, <2>3, <3>1 DEF ReportAccepted, Goto
  <2>4. QED
    BY <1>5, <2>1, <2>2, <2>3 DEF ReportStep
<1>6. ASSUME NEW r \in Runs, LeaseStep(r) PROVE StoredInv'
  <2>1. artifact' = artifact
    BY <1>a, <1>b, <1>c, <1>6, ArtifactKept DEF LeaseStep, RenewLease,
       RenewRefused, RenewExhausted, LoseContext, RenewingStages, queueRows
  <2>2. QED
    BY <1>6, <2>1 DEF LeaseStep, RenewLease, RenewRefused, RenewExhausted,
                      LoseContext, pipeline
<1>7. ASSUME NEW j \in Jobs, NEW w \in Workers, ClaimAnswerLost(j, w)
      PROVE  StoredInv'
  BY <1>7, ArtifactKept DEF ClaimAnswerLost, pipeline
<1>8. CASE QueueStep
  <2>1. artifact' = artifact
    BY <1>8 DEF QueueStep, Submit, Cancel, Retry, LeaseElapses, RequeueExpired
  <2>2. QED
    BY <1>8, <2>1 DEF QueueStep, pipeline
<1>9. ASSUME NEW w \in Workers, Crash(w) PROVE StoredInv'
  BY <1>9, <1>a DEF Crash, queueRows
<1>10. QED
  BY <1>1, <1>2, <1>3, <1>4, <1>5, <1>6, <1>7, <1>8, <1>9 DEF PipelineNext

(* Whatever the queue records as an artifact is in the object store, for any *)
(* number of workers, runs, lanes and jobs: no order of stages, reports,     *)
(* lost answers and crashes announces bytes that were never stored.          *)
THEOREM StoredCorrect == PipelineSpec => []ArtifactIsStored
<1>1. PipelineInit => StoredInv
  BY DEF PipelineInit, Init, StoredInv, ArtifactIsStored, DurableStages
<1>2. PipelineSpec => []TypeOK
  BY FleetUsesQueue, TypeCorrect, PTL
<1>3. StoredInv => ArtifactIsStored
  BY DEF StoredInv
<1>4. QED
  BY <1>1, <1>2, <1>3, StoredStep, RunsTypedInvariant, PTL DEF PipelineSpec

-----------------------------------------------------------------------------
(* The workspace locks, typed *)
LockTyped == lock \in [Workers -> [Jobs -> Runs \cup {None}]]

LockInv == LockTyped /\ WorkspaceHasItsRun

LockStages == WorkspaceStages \cup ReportStages \cup {"cleaning"}

(* A run that moves within the stages that may hold a lock, and stays out of *)
(* the workspace stages unless it was in them, disturbs no lock.             *)
LEMMA MoveKeepsLocks ==
  ASSUME RunsTyped, LockInv, NEW r \in Runs, NEW st \in Stages,
         stage' = [stage EXCEPT ![r] = st], job' = job, lock' = lock,
         stage[r] \in LockStages => st \in LockStages,
         st \in WorkspaceStages => stage[r] \in WorkspaceStages
  PROVE  LockInv'
<1> USE DEF LockInv, LockTyped, WorkspaceHasItsRun, HoldsLock, LockStages,
            RunsTyped
<1>1. \A q \in Runs : stage'[q] = IF q = r THEN st ELSE stage[q]
  OBVIOUS
<1>2. ASSUME NEW w \in Workers, NEW j \in Jobs, lock[w][j] # None
      PROVE  LET q == lock[w][j]
             IN  /\ q \in Runs /\ WorkerOf(q) = w /\ job[q] = j
                 /\ stage'[q] \in LockStages
  BY <1>1, <1>2
<1>3. ASSUME NEW q \in Runs, stage'[q] \in WorkspaceStages
      PROVE  HoldsLock(q)
  BY <1>1, <1>3
<1>4. QED
  BY <1>2, <1>3

(* A run that gives its workspace up leaves the locks of the others. *)
LEMMA UnlockKeepsLocks ==
  ASSUME RunsTyped, LockInv, NEW r \in Runs, NEW st \in Stages, Unlock(r),
         stage' = [stage EXCEPT ![r] = st],
         \A q \in Runs : q # r => job'[q] = job[q],
         st \notin WorkspaceStages
  PROVE  LockInv'
<1> USE DEF LockInv, LockTyped, WorkspaceHasItsRun, HoldsLock, LockStages,
            RunsTyped
<1>1. \A q \in Runs : stage'[q] = IF q = r THEN st ELSE stage[q]
  OBVIOUS
<1>2. \A w \in Workers, j \in Jobs :
        lock'[w][j] = IF lock[w][j] = r THEN None ELSE lock[w][j]
  <2>1. ASSUME NEW w \in Workers, NEW j \in Jobs, lock[w][j] = r
        PROVE  w = WorkerOf(r)
    <3>1. r # None
      BY PipelineAssumption DEF Runs
    <3>2. QED
      BY <2>1, <3>1
  <2>2. WorkerOf(r) \in Workers
    BY DEF Runs, WorkerOf
  <2>3. QED
    BY <2>1, <2>2 DEF Unlock
<1>3. LockTyped'
  <2>1. [j \in Jobs |-> IF lock[WorkerOf(r)][j] = r THEN None ELSE lock[WorkerOf(r)][j]] \in [Jobs -> Runs \cup {None}]
    BY DEF Runs, WorkerOf
  <2>2. QED
    BY <2>1 DEF Unlock
<1>4. ASSUME NEW w \in Workers, NEW j \in Jobs, lock'[w][j] # None
      PROVE  LET q == lock'[w][j]
             IN  /\ q \in Runs /\ WorkerOf(q) = w /\ job'[q] = j
                 /\ stage'[q] \in LockStages
  BY <1>1, <1>2, <1>4
<1>5. ASSUME NEW q \in Runs, stage'[q] \in WorkspaceStages
      PROVE  HoldsLock(q)'
  <2>1. q # r /\ HoldsLock(q) /\ job'[q] = job[q]
    BY <1>1, <1>5
  <2>2. WorkerOf(q) \in Workers /\ job[q] \in Jobs
    BY <2>1 DEF Runs, WorkerOf
  <2>3. QED
    BY <1>2, <2>1, <2>2
<1>6. QED
  BY <1>3, <1>4, <1>5

(* Every action keeps each lock with the run that works under it. *)
LEMMA LockStep ==
  RunsTyped /\ LockInv /\ [PipelineNext]_pipelineVars => LockInv'
<1> SUFFICES ASSUME RunsTyped, LockInv, [PipelineNext]_pipelineVars
             PROVE  LockInv'
  OBVIOUS
<1> USE DEF LockStages, WorkspaceStages, ReportStages, RenewingStages, Stages
<1>a. stage \in [Runs -> Stages] /\ job \in [Runs -> Jobs \cup {None}]
  BY DEF RunsTyped
<1>b. \A r \in Runs : WorkerOf(r) \in Workers
  BY DEF Runs, WorkerOf
<1>1. CASE UNCHANGED pipeline
  BY <1>1 DEF pipeline, LockInv, LockTyped, WorkspaceHasItsRun, HoldsLock
<1>2. ASSUME NEW r \in Runs, PrepStep(r) PROVE LockInv'
  <2>1. ASSUME NEW j \in Jobs, Claim(r, j) PROVE LockInv'
    <3>1. /\ stage[r] = "idle" /\ lock' = lock
          /\ \A q \in Runs : q # r => job'[q] = job[q] /\ stage'[q] = stage[q]
          /\ stage'[r] \in {"publishing", "claimed"}
      BY <1>a, <2>1 DEF Claim, FirstStage
    <3>2. \A w \in Workers, k \in Jobs : lock[w][k] # r
      BY <3>1, PipelineAssumption
         DEF LockInv, WorkspaceHasItsRun, Runs
    <3>3. QED
      BY <3>1, <3>2 DEF LockInv, LockTyped, WorkspaceHasItsRun, HoldsLock
  <2>2. CASE OpenWorkspace(r)
    <3> DEFINE w == WorkerOf(r)
               j == job[r]
    <3>1. /\ stage[r] = "claimed" /\ j \in Jobs /\ w \in Workers
          /\ lock[w][j] = None /\ job' = job
          /\ stage' = [stage EXCEPT ![r] = "preparing"]
          /\ lock' = [lock EXCEPT ![w][j] = r]
      BY <1>b, <2>2 DEF OpenWorkspace, RunsTyped
    <3>2. \A v \in Workers, k \in Jobs :
            lock'[v][k] = IF v = w /\ k = j THEN r ELSE lock[v][k]
      BY <3>1 DEF LockInv, LockTyped
    <3>3. \A q \in Runs : stage'[q] = IF q = r THEN "preparing" ELSE stage[q]
      BY <1>a, <3>1
    <3>4. LockTyped'
      BY <3>1 DEF LockInv, LockTyped
    <3>5. ASSUME NEW v \in Workers, NEW k \in Jobs, lock'[v][k] # None
          PROVE  LET q == lock'[v][k]
                 IN  /\ q \in Runs /\ WorkerOf(q) = v /\ job'[q] = k
                     /\ stage'[q] \in LockStages
      BY <3>1, <3>2, <3>3, <3>5 DEF LockInv, WorkspaceHasItsRun
    <3>6. ASSUME NEW q \in Runs, stage'[q] \in WorkspaceStages
          PROVE  HoldsLock(q)'
      <4>1. CASE q = r
        BY <3>1, <3>2, <4>1, ConstantsAssumption DEF HoldsLock
      <4>2. CASE q # r
        <5>1. HoldsLock(q) /\ job[q] \in Jobs /\ WorkerOf(q) \in Workers
          BY <1>a, <1>b, <3>3, <3>6, <4>2
             DEF LockInv, WorkspaceHasItsRun, HoldsLock
        <5>2. q # None
          BY PipelineAssumption DEF Runs
        <5>3. QED
          BY <3>1, <3>2, <5>1, <5>2 DEF HoldsLock
      <4>3. QED
        BY <4>1, <4>2
    <3>7. QED
      BY <3>4, <3>5, <3>6 DEF LockInv, WorkspaceHasItsRun
  <2>3. CASE Prepared(r)
    BY <2>3, MoveKeepsLocks DEF Prepared
  <2>4. CASE PrepareFails(r)
    BY <2>4, UnlockKeepsLocks DEF PrepareFails, Goto
  <2>5. CASE AbortPrep(r)
    BY <1>a, <2>5, UnlockKeepsLocks DEF AbortPrep, Idle, Goto
  <2>6. QED
    BY <1>2, <2>1, <2>2, <2>3, <2>4, <2>5 DEF PrepStep
<1>3. ASSUME NEW r \in Runs, GpuStep(r) PROVE LockInv'
  BY <1>3, MoveKeepsLocks DEF GpuStep, HandOff, RenderDone, RenderFails, Goto
<1>4. ASSUME NEW r \in Runs, PostStep(r) PROVE LockInv'
  <2>1. CASE StartPost(r) \/ Store(r)
    BY <2>1, MoveKeepsLocks DEF StartPost, Store, Goto
  <2>2. CASE StoreFails(r) \/ PublishFails(r)
    BY <2>2, MoveKeepsLocks DEF StoreFails, PublishFails, Goto
  <2>3. CASE PublishDone(r)
    BY <2>3, MoveKeepsLocks DEF PublishDone, Goto
  <2>4. QED
    BY <1>4, <2>1, <2>2, <2>3 DEF PostStep
<1>5. ASSUME NEW r \in Runs, ReportStep(r) PROVE LockInv'
  <2>1. CASE Cleanup(r)
    BY <1>a, <2>1, UnlockKeepsLocks DEF Cleanup, Idle, Goto
  <2>2. CASE CompleteAccepted(r) \/ CompleteError(r)
    BY <2>2, MoveKeepsLocks DEF CompleteAccepted, CompleteError,
                                AfterCompleteError, Goto
  <2>3. CASE ReportAccepted(r) \/ ReportDropped(r)
    BY <2>3, MoveKeepsLocks DEF ReportAccepted, ReportDropped, Goto
  <2>4. QED
    BY <1>5, <2>1, <2>2, <2>3 DEF ReportStep
<1>6. ASSUME NEW r \in Runs, LeaseStep(r) PROVE LockInv'
  BY <1>6 DEF LeaseStep, RenewLease, RenewRefused, RenewExhausted, LoseContext,
              pipeline, LockInv, LockTyped, WorkspaceHasItsRun, HoldsLock
<1>7. ASSUME NEW w \in Workers, Crash(w) PROVE LockInv'
  <2>1. /\ \A q \in Runs : WorkerOf(q) # w =>
             stage'[q] = stage[q] /\ job'[q] = job[q]
        /\ \A q \in Runs : WorkerOf(q) = w => stage'[q] = "idle"
        /\ lock' = [lock EXCEPT ![w] = [j \in Jobs |-> None]]
    BY <1>7 DEF Crash
  <2>2. \A v \in Workers, j \in Jobs :
          lock'[v][j] = IF v = w THEN None ELSE lock[v][j]
    BY <2>1 DEF LockInv, LockTyped
  <2>3. LockTyped'
    BY <2>1 DEF LockInv, LockTyped
  <2>4. ASSUME NEW v \in Workers, NEW j \in Jobs, lock'[v][j] # None
        PROVE  LET q == lock'[v][j]
               IN  /\ q \in Runs /\ WorkerOf(q) = v /\ job'[q] = j
                   /\ stage'[q] \in LockStages
    BY <2>1, <2>2, <2>4 DEF LockInv, WorkspaceHasItsRun
  <2>5. ASSUME NEW q \in Runs, stage'[q] \in WorkspaceStages
        PROVE  HoldsLock(q)'
    <3>1. WorkerOf(q) # w /\ HoldsLock(q) /\ job[q] \in Jobs
      BY <1>a, <2>1, <2>5 DEF LockInv, WorkspaceHasItsRun, HoldsLock
    <3>2. QED
      BY <1>b, <2>1, <2>2, <3>1 DEF HoldsLock
  <2>6. QED
    BY <2>3, <2>4, <2>5 DEF LockInv, WorkspaceHasItsRun
<1>8. QED
  BY <1>1, <1>2, <1>3, <1>4, <1>5, <1>6, <1>7
     DEF PipelineNext, ClaimAnswerLost, QueueStep, pipelineVars

(* A workspace lock always belongs to a run at work on that job, and a run   *)
(* with an open workspace holds it: for any fleet, two attempts never share  *)
(* a job directory on one host and no abort, failure or crash leaks a lock.  *)
THEOREM WorkspaceCorrect == PipelineSpec => []WorkspaceHasItsRun
<1>1. PipelineInit => LockInv
  BY DEF PipelineInit, LockInv, LockTyped, WorkspaceHasItsRun, WorkspaceStages
<1>2. LockInv => WorkspaceHasItsRun
  BY DEF LockInv
<1>3. QED
  BY <1>1, <1>2, LockStep, RunsTypedInvariant, PTL DEF PipelineSpec


-----------------------------------------------------------------------------
(* The workspace files *)

(* The steps at which a user has a lock file open and locked, and those of   *)
(* them at which that file is still the one the lock name refers to.         *)
Holding == {"locked", "refused", "open", "emptied", "removed", "stuck", "checking", "doomed", "cleared"}
AtName == Holding \ {"removed"}

WsTyped ==
  /\ jobDir \in Inodes \cup {NoInode} /\ lockEntry \in Inodes \cup {NoInode}
  /\ step \in [Users -> OpenSteps \cup SweepSteps]
  /\ root \in [Users -> Inodes \cup {NoInode}]
  /\ lockFile \in [Users -> Inodes \cup {NoInode}]

(* Who holds which lock: the flocks are those of the users that hold one, no *)
(* two hold the same, and one that has not unlinked its entry holds the      *)
(* file at the lock name.  So at most one user is at the name.               *)
LocksInv ==
  /\ \A i \in flocked : i # NoInode /\ \E u \in Users : lockFile[u] = i
  /\ \A u \in Users : IF step[u] \in Holding THEN lockFile[u] \in flocked ELSE lockFile[u] = NoInode
  /\ \A u, v \in Users : lockFile[u] = lockFile[v] => u = v \/ lockFile[u] = NoInode
  /\ \A u \in Users : step[u] \in AtName => lockFile[u] = lockEntry

(* An open directory is the one at the job's name. *)
RootsInv == \A u \in Users : step[u] \in {"open", "stuck"} => root[u] = jobDir /\ jobDir # NoInode

WsInv == WsTyped /\ LocksInv /\ RootsInv

LEMMA NewDirExists == WsTyped => NewDir \in Inodes \/ jobDir # NoInode
<1> SUFFICES ASSUME WsTyped, jobDir = NoInode PROVE NewDir \in Inodes
  OBVIOUS
<1>1. \E i \in Inodes : \A u \in Users : i # root[u]
  BY InodeAssumption DEF WsTyped
<1>2. \E i \in Inodes : i # jobDir /\ \A u \in Users : i # root[u]
  BY <1>1, InodeAssumption
<1>3. QED
  BY <1>2, Zenon DEF NewDir

(* A lock file that has to be created is nobody's. *)
LEMMA NewLockIsFree ==
  WsTyped /\ LocksInv /\ lockEntry = NoInode => NewLock \in Inodes /\ NewLock \notin flocked
<1> SUFFICES ASSUME WsTyped, LocksInv, lockEntry = NoInode
             PROVE  NewLock \in Inodes /\ NewLock \notin flocked
  OBVIOUS
<1>1. PICK i \in Inodes : \A u \in Users : i # lockFile[u]
  BY InodeAssumption DEF WsTyped
<1>2. i # lockEntry /\ i \notin flocked
  BY <1>1, InodeAssumption DEF LocksInv
<1>3. QED
  BY <1>2, Zenon DEF NewLock

(* Two users that have not unlinked their entry are one. *)
LEMMA OneAtName ==
  ASSUME WsTyped, LocksInv, NEW u \in Users, NEW v \in Users,
         step[u] \in AtName, step[v] \in AtName
  PROVE  u = v
<1>1. lockFile[u] = lockEntry /\ lockFile[v] = lockEntry /\ lockFile[u] \in flocked
  BY DEF LocksInv, AtName
<1>2. QED
  BY <1>1 DEF LocksInv

(* What OpenedLock opens is nobody's or the file at the name. *)
LEMMA OpenedLockIsAtName ==
  ASSUME WsTyped, LocksInv
  PROVE  /\ OpenedLock \in Inodes
         /\ lockEntry # NoInode => OpenedLock = lockEntry
         /\ OpenedLock \notin flocked => \A u \in Users : step[u] \notin AtName
<1>1. CASE lockEntry = NoInode
  <2>1. \A u \in Users : step[u] \notin AtName
    BY <1>1 DEF LocksInv, AtName
  <2>2. QED
    BY <1>1, <2>1, NewLockIsFree DEF OpenedLock
<1>2. CASE lockEntry # NoInode
  BY <1>2 DEF OpenedLock, WsTyped, LocksInv, AtName
<1>3. QED
  BY <1>1, <1>2

(* Closing a lock file frees nobody else's. *)
LEMMA CloseKeeps ==
  ASSUME WsTyped, LocksInv, NEW u \in Users, CloseLock(u),
         step' = [step EXCEPT ![u] = "idle"],
         lockEntry' = lockEntry \/ (lockEntry' = NoInode /\ step[u] \in AtName)
  PROVE  LocksInv'
<1>1. \A v \in Users \ {u} : step'[v] = step[v] /\ lockFile'[v] = lockFile[v]
  BY DEF CloseLock, WsTyped
<1>2. step'[u] = "idle" /\ lockFile'[u] = NoInode
  BY DEF CloseLock, WsTyped
<1>3. \A i \in flocked' : i # NoInode /\ \E v \in Users : lockFile'[v] = i
  BY <1>1 DEF CloseLock, LocksInv
<1>4. \A v \in Users : IF step'[v] \in Holding THEN lockFile'[v] \in flocked' ELSE lockFile'[v] = NoInode
  <2>1. ASSUME NEW v \in Users, v # u, step[v] \in Holding PROVE lockFile[v] \in flocked'
    <3>1. lockFile[v] \in flocked /\ lockFile[v] # NoInode
      BY <2>1 DEF LocksInv
    <3>2. lockFile[v] # lockFile[u]
      BY <2>1, <3>1 DEF LocksInv
    <3>3. QED
      BY <3>1, <3>2 DEF CloseLock
  <2>2. ASSUME NEW v \in Users, v # u, step[v] \notin Holding PROVE lockFile'[v] = NoInode
    BY <1>1, <2>2 DEF LocksInv
  <2>3. "idle" \notin Holding
    BY DEF Holding
  <2>4. QED
    BY <1>1, <1>2, <2>1, <2>2, <2>3
<1>5. \A v, w \in Users : lockFile'[v] = lockFile'[w] => v = w \/ lockFile'[v] = NoInode
  BY <1>1, <1>2 DEF LocksInv
<1>6. ASSUME NEW v \in Users, step'[v] \in AtName PROVE lockFile'[v] = lockEntry'
  <2>1. v # u
    BY <1>2, <1>6 DEF AtName, Holding
  <2>2. step[v] \in AtName /\ lockFile'[v] = lockEntry
    BY <1>1, <1>6, <2>1 DEF LocksInv
  <2>3. step[u] \notin AtName
    BY <2>1, <2>2, OneAtName
  <2>4. QED
    BY <2>2, <2>3
<1>7. QED
  BY <1>3, <1>4, <1>5, <1>6 DEF LocksInv

(* A step of one user that neither takes nor drops a lock; the entry may go  *)
(* with the user that is at the name and leaves it.                          *)
LEMMA LocksUntouched ==
  ASSUME WsTyped, LocksInv, NEW u \in Users, NEW to,
         step' = [step EXCEPT ![u] = to], UNCHANGED <<flocked, lockFile>>,
         step[u] \in Holding <=> to \in Holding,
         to \in AtName => step[u] \in AtName,
         lockEntry' = lockEntry \/ (step[u] \in AtName /\ to \notin AtName)
  PROVE  LocksInv'
<1>1. \A v \in Users : step'[v] = IF v = u THEN to ELSE step[v]
  BY DEF WsTyped
<1>2. \A v \in Users : step'[v] \in Holding <=> step[v] \in Holding
  BY <1>1
<1>3. ASSUME NEW v \in Users, step'[v] \in AtName PROVE lockFile'[v] = lockEntry'
  <2>1. step[v] \in AtName
    BY <1>1, <1>3
  <2>2. lockEntry' = lockEntry
    BY <1>1, <1>3, <2>1, OneAtName
  <2>3. QED
    BY <2>1, <2>2 DEF LocksInv
<1>4. QED
  BY <1>2, <1>3 DEF LocksInv

(* The lock at the name is taken by a user that had none. *)
LEMMA LockTaken ==
  ASSUME WsTyped, LocksInv, NEW u \in Users, NEW to \in AtName,
         CanLock(OpenedLock), step[u] \notin Holding,
         step' = [step EXCEPT ![u] = to],
         lockEntry' = OpenedLock,
         flocked' = flocked \cup {OpenedLock},
         lockFile' = [lockFile EXCEPT ![u] = OpenedLock]
  PROVE  LocksInv'
<1> DEFINE i == OpenedLock
<1> HIDE DEF i
<1>0. OpenedLock = i
  BY DEF i
<1>1. /\ i \in Inodes /\ i \notin flocked /\ i # NoInode
      /\ \A v \in Users : step[v] \notin AtName
  BY <1>0, OpenedLockIsAtName, InodeAssumption DEF CanLock
<1>2. /\ \A v \in Users : step'[v] = IF v = u THEN to ELSE step[v]
      /\ \A v \in Users : lockFile'[v] = IF v = u THEN i ELSE lockFile[v]
  BY <1>0 DEF WsTyped
<1>3. to \in Holding
  BY DEF AtName
<1>4. lockFile[u] = NoInode
  BY DEF LocksInv
<1>5. \A f \in flocked' : f # NoInode /\ \E v \in Users : lockFile'[v] = f
  <2>1. ASSUME NEW f \in flocked PROVE f # NoInode /\ \E v \in Users : lockFile'[v] = f
    BY <1>2, <1>4, <2>1 DEF LocksInv
  <2>2. QED
    BY <1>0, <1>1, <1>2, <2>1
<1>6. \A v \in Users : IF step'[v] \in Holding THEN lockFile'[v] \in flocked' ELSE lockFile'[v] = NoInode
  BY <1>0, <1>2, <1>3 DEF LocksInv
<1>7. \A v \in Users : lockFile[v] # i
  BY <1>1 DEF LocksInv
<1>8. \A v, w \in Users : lockFile'[v] = lockFile'[w] => v = w \/ lockFile'[v] = NoInode
  BY <1>2, <1>7 DEF LocksInv
<1>9. \A v \in Users : step'[v] \in AtName => lockFile'[v] = lockEntry'
  BY <1>0, <1>1, <1>2
<1>10. QED
  BY <1>5, <1>6, <1>8, <1>9 DEF LocksInv

(* Where the job's directory stays and nobody new is open, the roots are as  *)
(* they were.                                                                *)
LEMMA RootsUntouched ==
  ASSUME WsTyped, RootsInv, NEW u \in Users, NEW to,
         step' = [step EXCEPT ![u] = to], UNCHANGED jobDir,
         \/ to \notin {"open", "stuck"}
         \/ step[u] = "open" /\ root' = root
         \/ root'[u] = jobDir /\ jobDir # NoInode,
         \A v \in Users \ {u} : root'[v] = root[v]
  PROVE  RootsInv'
BY DEF WsTyped, RootsInv

(* The job's directory goes with the user at the name: it is nobody else's. *)
LEMMA RemovedIsOwn ==
  ASSUME WsTyped, LocksInv, NEW u \in Users, NEW to,
         step[u] \in AtName, step' = [step EXCEPT ![u] = to], to \notin {"open", "stuck"}
  PROVE  RootsInv'
<1> SUFFICES ASSUME NEW v \in Users, step'[v] \in {"open", "stuck"} PROVE FALSE
  BY DEF RootsInv
<1>1. v # u /\ step[v] \in {"open", "stuck"}
  BY DEF WsTyped
<1>2. step[v] \in AtName
  BY <1>1 DEF AtName, Holding
<1>3. QED
  BY <1>1, <1>2, OneAtName

LEMMA WsTypedStep == WsTyped /\ LocksInv /\ WsNext => WsTyped'
<1> SUFFICES ASSUME WsTyped, LocksInv, WsNext PROVE WsTyped'
  OBVIOUS
<1> USE DEF WsTyped, OpenSteps, SweepSteps, Users
<1>1. OpenedLock \in Inodes
  BY OpenedLockIsAtName
<1>2. NewDir \in Inodes \/ jobDir # NoInode
  BY NewDirExists
<1>3. ASSUME NEW u \in Opens, OpenStep(u) PROVE WsTyped'
  <2>1. CASE MakeDir(u)
    BY <1>2, <2>1 DEF MakeDir, Moves
  <2>2. CASE AcquireLock(u)
    BY <1>1, <2>2 DEF AcquireLock, Moves
  <2>3. CASE PinRoot(u) \/ RemoveLock(u)
    BY <2>3 DEF PinRoot, RemoveLock, Moves, CloseLock
  <2>4. QED
    BY <1>3, <2>1, <2>2, <2>3 DEF OpenStep
<1>4. ASSUME NEW u \in Opens, WriteLease(u) \/ CleanupStep(u) \/ RemoveTreeFails(u) PROVE WsTyped'
  BY <1>4 DEF WriteLease, CleanupStep, RemoveTree, RemoveEntry, ReleaseLock, RemoveTreeFails, Moves,
              CloseLock, RemoveAll
<1>5. ASSUME NEW s \in Sweepers, SweepStep(s) \/ SweepFails(s) PROVE WsTyped'
  <2>1. CASE LockCandidate(s)
    BY <1>1, <2>1 DEF LockCandidate, Moves
  <2>2. CASE FindCandidate(s) \/ CheckMarker(s) \/ SweepTree(s) \/ SweepEntry(s) \/ SweepFails(s)
    BY <2>2 DEF FindCandidate, CheckMarker, SweepTree, SweepEntry, SweepFails, Moves, CloseLock, RemoveAll
  <2>3. QED
    BY <1>5, <2>1, <2>2 DEF SweepStep
<1>6. ASSUME NEW u \in Users, UserDies(u) PROVE WsTyped'
  BY <1>6 DEF UserDies, CloseLock
<1>7. CASE Age \/ MarkerExpires
  BY <1>7 DEF Age, MarkerExpires
<1>8. QED
  BY <1>3, <1>4, <1>5, <1>6, <1>7 DEF WsNext

(* New: the lock is taken before the root is pinned, and a directory is made *)
(* only where the name is free, so under nobody's feet.                      *)
LEMMA OpenKeeps ==
  ASSUME WsInv, NEW u \in Opens, OpenStep(u)
  PROVE  LocksInv' /\ RootsInv'
<1> USE DEF Holding, AtName
<1>0. u \in Users /\ WsTyped /\ LocksInv /\ RootsInv
  BY DEF Users, WsInv
<1>1. CASE MakeDir(u)
  <2>1. LocksInv'
    BY <1>0, <1>1, LocksUntouched DEF MakeDir, Moves
  <2>2. CASE jobDir # NoInode
    BY <1>0, <1>1, <2>1, <2>2, RootsUntouched DEF MakeDir, Moves
  <2>3. CASE jobDir = NoInode
    <3>1. \A v \in Users : step[v] \notin {"open", "stuck"}
      BY <1>0, <2>3 DEF RootsInv
    <3>2. QED
      BY <1>0, <1>1, <2>1, <3>1 DEF MakeDir, Moves, WsTyped, RootsInv
  <2>4. QED
    BY <2>2, <2>3
<1>2. CASE AcquireLock(u)
  <2>1. CASE CanLock(OpenedLock)
    BY <1>0, <1>2, <2>1, LockTaken, RootsUntouched DEF AcquireLock, Moves
  <2>2. CASE ~CanLock(OpenedLock)
    <3>1. lockEntry' = lockEntry
      BY <1>0, <1>2, <2>2, NewLockIsFree DEF AcquireLock, OpenedLock, CanLock
    <3>2. QED
      BY <1>0, <1>2, <2>2, <3>1, LocksUntouched, RootsUntouched DEF AcquireLock, Moves
  <2>3. QED
    BY <2>1, <2>2
<1>3. CASE PinRoot(u)
  <2>1. LocksInv'
    BY <1>0, <1>3, LocksUntouched DEF PinRoot, Moves
  <2>2. RootsInv'
    BY <1>0, <1>3 DEF PinRoot, Moves, WsTyped, RootsInv
  <2>3. QED
    BY <2>1, <2>2
<1>4. CASE RemoveLock(u)
  <2>1. LocksInv'
    BY <1>0, <1>4, CloseKeeps DEF RemoveLock, Moves
  <2>2. RootsInv'
    BY <1>0, <1>4 DEF RemoveLock, Moves, CloseLock, WsTyped, RootsInv
  <2>3. QED
    BY <2>1, <2>2
<1>5. QED
  BY <1>1, <1>2, <1>3, <1>4 DEF OpenStep

(* Cleanup: the tree and then the entry go while the user is at the name. *)
LEMMA CleanupKeeps ==
  ASSUME WsInv, NEW u \in Opens, CleanupStep(u) \/ RemoveTreeFails(u)
  PROVE  LocksInv' /\ RootsInv'
<1> USE DEF Holding, AtName
<1>0. u \in Users /\ WsTyped /\ LocksInv /\ RootsInv
  BY DEF Users, WsInv
<1>1. CASE RemoveTree(u)
  BY <1>0, <1>1, LocksUntouched, RemovedIsOwn DEF RemoveTree, Moves
<1>2. CASE RemoveTreeFails(u)
  BY <1>0, <1>2, LocksUntouched, RootsUntouched DEF RemoveTreeFails, Moves
<1>3. CASE RemoveEntry(u)
  BY <1>0, <1>3, LocksUntouched, RootsUntouched DEF RemoveEntry, Moves
<1>4. CASE ReleaseLock(u)
  <2>1. LocksInv'
    BY <1>0, <1>4, CloseKeeps DEF ReleaseLock, Moves
  <2>2. RootsInv'
    BY <1>0, <1>4 DEF ReleaseLock, Moves, CloseLock, WsTyped, RootsInv
  <2>3. QED
    BY <2>1, <2>2
<1>5. QED
  BY <1>1, <1>2, <1>3, <1>4 DEF CleanupStep

(* CleanupStale: a sweeper removes what it found only with the lock at the name. *)
LEMMA SweepKeeps ==
  ASSUME WsInv, NEW s \in Sweepers, SweepStep(s) \/ SweepFails(s)
  PROVE  LocksInv' /\ RootsInv'
<1> USE DEF Holding, AtName
<1>0. s \in Users /\ WsTyped /\ LocksInv /\ RootsInv
  BY DEF Users, WsInv
<1>1. CASE FindCandidate(s)
  <2>1. LocksInv'
    BY <1>0, <1>1, LocksUntouched DEF FindCandidate, Moves
  <2>2. RootsInv'
    BY <1>0, <1>1 DEF FindCandidate, Moves, WsTyped, RootsInv
  <2>3. QED
    BY <2>1, <2>2
<1>2. CASE LockCandidate(s)
  <2>1. CASE CanLock(OpenedLock)
    BY <1>0, <1>2, <2>1, LockTaken, RootsUntouched DEF LockCandidate, Moves
  <2>2. CASE ~CanLock(OpenedLock)
    <3>1. lockEntry' = lockEntry
      BY <1>0, <1>2, <2>2, NewLockIsFree DEF LockCandidate, OpenedLock, CanLock
    <3>2. LocksInv'
      BY <1>0, <1>2, <2>2, <3>1, LocksUntouched DEF LockCandidate, Moves
    <3>3. RootsInv'
      BY <1>0, <1>2, <2>2 DEF LockCandidate, Moves, WsTyped, RootsInv
    <3>4. QED
      BY <3>2, <3>3
  <2>3. QED
    BY <2>1, <2>2
<1>3. CASE CheckMarker(s)
  <2>1. CASE MarkerValid(s)
    <3>1. LocksInv'
      BY <1>0, <1>3, <2>1, CloseKeeps DEF CheckMarker, Moves
    <3>2. RootsInv'
      BY <1>0, <1>3, <2>1 DEF CheckMarker, Moves, CloseLock, WsTyped, RootsInv
    <3>3. QED
      BY <3>1, <3>2
  <2>2. CASE ~MarkerValid(s)
    BY <1>0, <1>3, <2>2, LocksUntouched, RootsUntouched DEF CheckMarker, Moves
  <2>3. QED
    BY <2>1, <2>2
<1>4. CASE SweepTree(s)
  BY <1>0, <1>4, LocksUntouched, RemovedIsOwn DEF SweepTree, Moves
<1>5. CASE SweepEntry(s) \/ SweepFails(s)
  <2>1. LocksInv'
    BY <1>0, <1>5, CloseKeeps DEF SweepEntry, SweepFails, Moves
  <2>2. RootsInv'
    BY <1>0, <1>5 DEF SweepEntry, SweepFails, Moves, CloseLock, WsTyped, RootsInv
  <2>3. QED
    BY <2>1, <2>2
<1>6. QED
  BY <1>1, <1>2, <1>3, <1>4, <1>5 DEF SweepStep

LEMMA WsInvInit == WsInit => WsInv
BY InodeAssumption DEF WsInit, WsInv, WsTyped, LocksInv, RootsInv, Holding, AtName, OpenSteps, SweepSteps

LEMMA WsInvStep == WsInv /\ [WsNext]_wsVars => WsInv'
<1> SUFFICES ASSUME WsInv, [WsNext]_wsVars PROVE WsInv'
  OBVIOUS
<1>0. WsTyped /\ LocksInv /\ RootsInv
  BY DEF WsInv
<1>1. CASE UNCHANGED wsVars
  BY <1>1 DEF wsVars, WsInv, WsTyped, LocksInv, RootsInv
<1>2. CASE WsNext
  <2>1. WsTyped'
    BY <1>0, <1>2, WsTypedStep
  <2>2. ASSUME NEW u \in Opens, WriteLease(u) PROVE LocksInv' /\ RootsInv'
    BY <1>0, <2>2 DEF WriteLease, LocksInv, RootsInv
  <2>3. ASSUME NEW u \in Users, UserDies(u) PROVE LocksInv' /\ RootsInv'
    <3>1. LocksInv'
      BY <1>0, <2>3, CloseKeeps DEF UserDies
    <3>2. RootsInv'
      BY <1>0, <2>3 DEF UserDies, CloseLock, WsTyped, RootsInv
    <3>3. QED
      BY <3>1, <3>2
  <2>4. ASSUME Age \/ MarkerExpires PROVE LocksInv' /\ RootsInv'
    BY <1>0, <2>4 DEF Age, MarkerExpires, LocksInv, RootsInv
  <2>5. LocksInv' /\ RootsInv'
    BY <1>2, <2>2, <2>3, <2>4, OpenKeeps, CleanupKeeps, SweepKeeps DEF WsNext
  <2>6. QED
    BY <2>1, <2>5 DEF WsInv
<1>3. QED
  BY <1>1, <1>2

(* The inductive invariant of the workspace files. *)
THEOREM WorkspaceInvariant == WsSpec => []WsInv
<1>1. QED
  BY WsInvInit, WsInvStep, PTL DEF WsSpec

(* An open workspace is the directory at the job's name and nobody else's,   *)
(* for any number of attempts, sweeps, crashes and failed removals on the    *)
(* host (WorkspaceIsOwned).                                                  *)
THEOREM OwnedCorrect == WsSpec => []WorkspaceIsOwned
<1>1. WsInv => WorkspaceIsOwned
  <2> SUFFICES ASSUME WsInv, NEW u \in Opens, step[u] \in {"open", "stuck"}
               PROVE  /\ root[u] = jobDir
                      /\ \A v \in Opens \ {u} : step[v] \notin {"open", "stuck", "emptied"}
    BY DEF WorkspaceIsOwned
  <2>1. WsTyped /\ LocksInv /\ RootsInv /\ u \in Users
    BY DEF WsInv, Users
  <2>2. ASSUME NEW v \in Opens, v # u, step[v] \in {"open", "stuck", "emptied"} PROVE FALSE
    BY <2>1, <2>2, OneAtName DEF AtName, Holding, Users
  <2>3. QED
    BY <2>1, <2>2 DEF RootsInv
<1>2. QED
  BY <1>1, WorkspaceInvariant, PTL
-----------------------------------------------------------------------------
(* The queue daemons *)

Lives == {"boot", "waiting", "migrating", "serving", "draining", "exited", "fatal"}
BootTyped ==
  /\ life \in [Replicas -> Lives]
  /\ store \in [Replicas -> {"none", "postgres", "memory"}]
  /\ known \in [Replicas -> SUBSET Nat]
  /\ schema \in Seq(Nat)
  /\ inflight \in [Replicas -> Nat] /\ cut \in [Replicas -> Nat] /\ code \in [Replicas -> Nat]

\* The database went through the first migrations in order, and its ledger names them.
SchemaIsPrefix ==
  /\ \A i \in 1..Len(schema) : schema[i] = i
  /\ ledger = 1..Len(schema) /\ Len(schema) <= Migrations

\* The replica that migrates holds the lock and knows the ledger as it is.
MigratorIsAlone ==
  \A r \in Replicas :
    /\ life[r] = "migrating" <=> locked = r
    /\ life[r] = "migrating" => known[r] = ledger

\* What the stages of a replica say of its storage, its exit code and its requests.
LivesMean ==
  \A r \in Replicas :
    /\ life[r] \in {"serving", "draining", "exited"} /\ store[r] = "postgres" => Len(schema) = Migrations
    /\ store[r] = "memory" => flag.backend # "postgres"
    /\ code[r] = 1 => cut[r] > 0 \/ SelectedBackend = "none"
    /\ cut[r] > 0 => life[r] = "fatal" /\ code[r] = 1

BootInv == BootTyped /\ SchemaIsPrefix /\ MigratorIsAlone /\ LivesMean

LEMMA BootInvInit == DaemonInit => BootInv
<1> SUFFICES ASSUME DaemonInit
             PROVE  BootInv
  OBVIOUS
<1>1. BootTyped /\ MigratorIsAlone /\ LivesMean
  BY DaemonAssumption DEF DaemonInit, BootTyped, Lives, MigratorIsAlone, LivesMean
<1>2. schema = << >> /\ ledger = {}
  BY DEF DaemonInit
<1> QED
  BY <1>1, <1>2, DaemonAssumption DEF BootInv, SchemaIsPrefix

LEMMA NoneCut ==
  ASSUME BootInv, NEW r \in Replicas, life[r] # "fatal"
  PROVE  cut[r] = 0
<1>1. ~(cut[r] > 0)
  BY DEF BootInv, LivesMean
<1>2. cut[r] \in Nat
  BY DEF BootInv, BootTyped
<1> QED
  BY <1>1, <1>2

LEMMA NotLocked ==
  ASSUME BootInv, NEW r \in Replicas, life[r] # "migrating"
  PROVE  locked # r
BY DEF BootInv, MigratorIsAlone

\* The migration a replica applies next is the one after the last of the schema.
LEMMA NextIsNext ==
  ASSUME BootInv, NEW r \in Replicas, life[r] = "migrating", Pending(r) # {}
  PROVE  /\ NextPending(r) = Len(schema) + 1 /\ NextPending(r) \notin ledger
         /\ Len(schema) + 1 <= Migrations
<1>1. Len(schema) \in Nat /\ Migrations \in Nat /\ Len(schema) <= Migrations
  BY DaemonAssumption DEF BootInv, BootTyped, SchemaIsPrefix
<1>2. Pending(r) = (Len(schema) + 1)..Migrations
  BY <1>1 DEF Pending, BootInv, MigratorIsAlone, SchemaIsPrefix
<1>3. Len(schema) + 1 <= Migrations
  BY <1>1, <1>2
<1>4. NextPending(r) = Len(schema) + 1
  BY <1>1, <1>2, <1>3 DEF NextPending
<1> QED
  BY <1>1, <1>3, <1>4 DEF BootInv, SchemaIsPrefix

LEMMA ApplyKeeps ==
  ASSUME BootInv, NEW r \in Replicas, ApplyOne(r)
  PROVE  BootInv'
<1> USE DEF BootInv
<1>1. PICK n : n = Len(schema) + 1
  OBVIOUS
<1>2. NextPending(r) = n /\ n \notin ledger /\ n <= Migrations /\ life[r] = "migrating"
  BY <1>1, NextIsNext DEF ApplyOne
<1>3. /\ schema' = Append(schema, n) /\ ledger' = ledger \cup {n} /\ known' = [known EXCEPT ![r] = known[r] \cup {n}]
      /\ UNCHANGED <<flag, life, store, locked, inflight, cut, code>>
  BY <1>2 DEF ApplyOne
<1>4. Len(schema) \in Nat /\ n \in Nat /\ Migrations \in Nat
  BY <1>1, DaemonAssumption DEF BootTyped
<1>5. /\ schema' \in Seq(Nat) /\ Len(schema') = n
      /\ \A i \in 1..Len(schema) : schema'[i] = schema[i]
      /\ schema'[n] = n
  BY <1>1, <1>3, <1>4 DEF BootTyped
<1>6. SchemaIsPrefix'
  <2>1. \A i \in 1..n : i = n \/ i \in 1..Len(schema)
    BY <1>1, <1>4
  <2>2. ledger' = 1..n
    BY <1>1, <1>3, <1>4 DEF SchemaIsPrefix
  <2> QED
    BY <1>2, <1>5, <2>1, <2>2 DEF SchemaIsPrefix
<1>7. BootTyped'
  <2>1. known' \in [Replicas -> SUBSET Nat]
    BY <1>3, <1>4 DEF BootTyped
  <2> QED
    BY <1>3, <1>5, <2>1 DEF BootTyped
<1>8. MigratorIsAlone'
  BY <1>2, <1>3 DEF MigratorIsAlone, BootTyped
<1>9. LivesMean'
  <2>1. Len(schema) # Migrations
    BY <1>1, <1>2, <1>4
  <2> QED
    BY <1>3, <2>1 DEF LivesMean, SelectedBackend
<1> QED
  BY <1>6, <1>7, <1>8, <1>9

\* A step that leaves the database alone and lets one replica go from one stage to another.
LEMMA ReplicaMoves ==
  ASSUME BootInv, NEW r \in Replicas, NEW to \in Lives,
         life' = [life EXCEPT ![r] = to], UNCHANGED <<flag, schema, ledger>>, BootTyped',
         locked' = IF to = "migrating" THEN r ELSE IF locked = r THEN "nobody" ELSE locked,
         to = "migrating" => locked = "nobody" /\ known'[r] = ledger,
         \A q \in Replicas : q # r => UNCHANGED <<store[q], known[q], cut[q], code[q]>>,
         to \in {"serving", "draining", "exited"} /\ store'[r] = "postgres" => Len(schema) = Migrations,
         store'[r] = "memory" => flag.backend # "postgres",
         code'[r] = 1 => cut'[r] > 0 \/ SelectedBackend = "none",
         cut'[r] > 0 => to = "fatal" /\ code'[r] = 1
  PROVE  BootInv'
<1> USE DEF BootInv
<1>1. life'[r] = to /\ \A q \in Replicas : q # r => life'[q] = life[q]
  BY DEF BootTyped
<1>2. SchemaIsPrefix' /\ SelectedBackend' = SelectedBackend
  BY DEF SchemaIsPrefix, SelectedBackend
<1>3. MigratorIsAlone'
  BY <1>1, DaemonAssumption DEF MigratorIsAlone
<1>4. LivesMean'
  BY <1>1, <1>2 DEF LivesMean
<1> QED
  BY <1>2, <1>3, <1>4

LEMMA BootInvStep == BootInv /\ [BootNext \/ FleetNext]_daemonVars => BootInv'
<1> SUFFICES ASSUME BootInv, [BootNext \/ FleetNext]_daemonVars
             PROVE  BootInv'
  OBVIOUS
<1> USE DEF BootInv
<1>1. ASSUME NEW r \in Replicas, Boot(r)
      PROVE  BootInv'
  <2>1. life[r] = "boot" /\ UNCHANGED <<flag, locked, known, schema, ledger, inflight, cut>>
    BY <1>1 DEF Boot
  <2>2. locked # r
    BY <2>1, NotLocked
  <2>3. cut[r] = 0
    BY <2>1, NoneCut
  <2>4. CASE SelectedBackend = "none"
    <3>1. /\ life' = [life EXCEPT ![r] = "fatal"] /\ code' = [code EXCEPT ![r] = 1] /\ store' = store
      BY <1>1, <2>4 DEF Boot, Exits, Becomes
    <3>2. BootTyped'
      BY <2>1, <3>1 DEF BootTyped, Lives
    <3>3. code'[r] = 1 /\ \A q \in Replicas : q # r => code'[q] = code[q]
      BY <3>1 DEF BootTyped
    <3> QED
      BY <2>1, <2>2, <2>3, <2>4, <3>1, <3>2, <3>3, ReplicaMoves DEF Lives, LivesMean
  <2>5. CASE SelectedBackend # "none"
    <3> DEFINE to == IF SelectedBackend = "postgres" THEN "waiting" ELSE "serving"
    <3>1. life' = [life EXCEPT ![r] = to] /\ code' = code /\ store' = [store EXCEPT ![r] = SelectedBackend]
      BY <1>1, <2>5 DEF Boot, Becomes
    <3>2. SelectedBackend \in {"postgres", "memory"} /\ (SelectedBackend = "memory" => flag.backend # "postgres")
      BY <2>5 DEF SelectedBackend, BootTyped
    <3>3. BootTyped'
      BY <2>1, <3>1, <3>2 DEF BootTyped, Lives
    <3>4. store'[r] = SelectedBackend /\ \A q \in Replicas : q # r => store'[q] = store[q]
      BY <3>1 DEF BootTyped
    <3>5. to \in Lives /\ to # "migrating" /\ (to = "serving" => store'[r] # "postgres") /\ to \notin {"draining", "exited"}
      BY <3>2, <3>4 DEF Lives
    <3>6. code'[r] = 1 => cut'[r] > 0 \/ SelectedBackend = "none"
      BY <2>1, <3>1 DEF LivesMean
    <3> HIDE DEF to
    <3>7. locked' = IF to = "migrating" THEN r ELSE IF locked = r THEN "nobody" ELSE locked
      BY <2>1, <2>2, <3>5
    <3>8. store'[r] = "memory" => flag.backend # "postgres"
      BY <3>2, <3>4
    <3>9. \A q \in Replicas : q # r => UNCHANGED <<store[q], known[q], cut[q], code[q]>>
      BY <2>1, <3>1, <3>4
    <3>10. ~(cut'[r] > 0)
      BY <2>1, <2>3
    <3> QED
      BY <2>1, <3>1, <3>3, <3>5, <3>6, <3>7, <3>8, <3>9, <3>10, ReplicaMoves
  <2> QED
    BY <2>4, <2>5
<1>2. ASSUME NEW r \in Replicas, Lock(r)
      PROVE  BootInv'
  <2>1. /\ life[r] = "waiting" /\ locked = "nobody" /\ locked' = r /\ known' = [known EXCEPT ![r] = ledger]
        /\ life' = [life EXCEPT ![r] = "migrating"]
        /\ UNCHANGED <<flag, store, schema, ledger, inflight, cut, code>>
    BY <1>2 DEF Lock, LockIsFree, Becomes
  <2>2. ledger \in SUBSET Nat
    BY DEF SchemaIsPrefix
  <2>3. BootTyped'
    BY <2>1, <2>2 DEF BootTyped, Lives
  <2>4. known'[r] = ledger /\ \A q \in Replicas : q # r => known'[q] = known[q]
    BY <2>1 DEF BootTyped
  <2>5. cut[r] = 0
    BY <2>1, NoneCut
  <2> QED
    BY <2>1, <2>3, <2>4, <2>5, ReplicaMoves DEF Lives, LivesMean
<1>3. ASSUME NEW r \in Replicas, Migrated(r)
      PROVE  BootInv'
  <2>1. /\ life[r] = "migrating" /\ locked' = (IF locked = r THEN "nobody" ELSE locked)
        /\ life' = [life EXCEPT ![r] = "serving"] /\ Pending(r) = {}
        /\ UNCHANGED <<flag, store, known, schema, ledger, inflight, cut, code>>
    BY <1>3 DEF Migrated, Becomes
  <2>2. Len(schema) = Migrations
    <3>1. Len(schema) \in Nat /\ Migrations \in Nat /\ Len(schema) <= Migrations
      BY DaemonAssumption DEF BootTyped, SchemaIsPrefix
    <3>2. known[r] = 1..Len(schema)
      BY <2>1 DEF MigratorIsAlone, SchemaIsPrefix
    <3>3. Migrations \notin Pending(r)
      BY <2>1
    <3> QED
      BY <3>1, <3>2, <3>3 DEF Pending
  <2>3. BootTyped'
    BY <2>1 DEF BootTyped, Lives
  <2>4. cut[r] = 0
    BY <2>1, NoneCut
  <2> QED
    BY <2>1, <2>2, <2>3, <2>4, ReplicaMoves DEF Lives, LivesMean
<1>4. ASSUME NEW r \in Replicas, StartFails(r)
      PROVE  BootInv'
  <2>1. /\ life[r] \in {"waiting", "migrating"} /\ locked' = (IF locked = r THEN "nobody" ELSE locked)
        /\ life' = [life EXCEPT ![r] = "fatal"] /\ code' = [code EXCEPT ![r] = 2]
        /\ UNCHANGED <<flag, store, known, schema, ledger, inflight, cut>>
    BY <1>4 DEF StartFails, Exits, Becomes
  <2>2. BootTyped'
    BY <2>1 DEF BootTyped, Lives
  <2>3. code'[r] = 2 /\ \A q \in Replicas : q # r => code'[q] = code[q]
    BY <2>1 DEF BootTyped
  <2>4. ~(cut'[r] > 0) /\ code'[r] # 1
    BY <2>1, <2>3, NoneCut
  <2>5. store'[r] = "memory" => flag.backend # "postgres"
    BY <2>1 DEF LivesMean
  <2>6. \A q \in Replicas : q # r => UNCHANGED <<store[q], known[q], cut[q], code[q]>>
    BY <2>1, <2>3
  <2>7. /\ locked' = IF "fatal" = "migrating" THEN r ELSE IF locked = r THEN "nobody" ELSE locked
        /\ life' = [life EXCEPT ![r] = "fatal"] /\ UNCHANGED <<flag, schema, ledger>> /\ "fatal" \in Lives
    BY <2>1 DEF Lives
  <2> QED
    BY <2>2, <2>4, <2>5, <2>6, <2>7, ReplicaMoves
<1>5. ASSUME NEW r \in Replicas, Restart(r)
      PROVE  BootInv'
  <2>1. /\ life[r] = "fatal" /\ code[r] = 2
        /\ life' = [life EXCEPT ![r] = "boot"] /\ code' = [code EXCEPT ![r] = 0] /\ known' = [known EXCEPT ![r] = {}]
        /\ UNCHANGED <<flag, store, locked, schema, ledger, inflight, cut>>
    BY <1>5 DEF Restart, Becomes
  <2>2. BootTyped'
    BY <2>1 DEF BootTyped, Lives
  <2>3. code'[r] = 0 /\ \A q \in Replicas : q # r => code'[q] = code[q] /\ known'[q] = known[q]
    BY <2>1 DEF BootTyped
  <2>4. locked # r
    BY <2>1, NotLocked
  <2>5. ~(cut'[r] > 0) /\ code'[r] # 1
    BY <2>1, <2>3 DEF LivesMean
  <2>6. store'[r] = "memory" => flag.backend # "postgres"
    BY <2>1 DEF LivesMean
  <2>7. \A q \in Replicas : q # r => UNCHANGED <<store[q], known[q], cut[q], code[q]>>
    BY <2>1, <2>3
  <2>8. /\ locked' = IF "boot" = "migrating" THEN r ELSE IF locked = r THEN "nobody" ELSE locked
        /\ life' = [life EXCEPT ![r] = "boot"] /\ UNCHANGED <<flag, schema, ledger>> /\ "boot" \in Lives
    BY <2>1, <2>4 DEF Lives
  <2> QED
    BY <2>2, <2>5, <2>6, <2>7, <2>8, ReplicaMoves
<1>6. ASSUME NEW r \in Replicas, RequestArrives(r) \/ RequestAnswered(r)
      PROVE  BootInv'
  <2>1. UNCHANGED <<flag, life, store, locked, known, schema, ledger, cut, code>>
    BY <1>6 DEF RequestArrives, RequestAnswered
  <2>2. inflight' \in [Replicas -> Nat]
    BY <1>6 DEF RequestArrives, RequestAnswered, BootTyped
  <2> QED
    BY <2>1, <2>2 DEF BootTyped, SchemaIsPrefix, MigratorIsAlone, LivesMean, SelectedBackend
<1>7. ASSUME NEW r \in Replicas, Terminated(r) \/ Drained(r)
      PROVE  BootInv'
  <2>1. /\ life[r] \in {"serving", "draining"}
        /\ UNCHANGED <<flag, store, locked, known, schema, ledger, inflight, cut>>
    BY <1>7 DEF Terminated, Drained
  <2>2. PICK to \in {"draining", "exited"} : life' = [life EXCEPT ![r] = to]
    BY <1>7 DEF Terminated, Drained, Exits, Becomes
  <2>3. code' = code \/ code' = [code EXCEPT ![r] = 0]
    BY <1>7 DEF Terminated, Drained, Exits
  <2>4. /\ code' \in [Replicas -> Nat] /\ code'[r] \in {0, code[r]}
        /\ \A q \in Replicas : q # r => code'[q] = code[q]
    <3>1. code \in [Replicas -> Nat]
      BY DEF BootTyped
    <3>2. CASE code' = code
      BY <3>1, <3>2
    <3>3. CASE code' = [code EXCEPT ![r] = 0]
      BY <3>1, <3>3
    <3> QED
      BY <2>3, <3>2, <3>3
  <2>5. life' \in [Replicas -> Lives]
    BY <2>2 DEF BootTyped, Lives
  <2>6. BootTyped'
    BY <2>1, <2>4, <2>5 DEF BootTyped
  <2>7. locked # r /\ ~(cut'[r] > 0)
    BY <2>1, NoneCut, NotLocked
  <2>8. /\ store[r] = "postgres" => Len(schema) = Migrations
        /\ store'[r] = "memory" => flag.backend # "postgres"
        /\ code'[r] = 1 => cut'[r] > 0 \/ SelectedBackend = "none"
    BY <2>1, <2>4 DEF LivesMean
  <2>9. \A q \in Replicas : q # r => UNCHANGED <<store[q], known[q], cut[q], code[q]>>
    BY <2>1, <2>4
  <2>10. /\ to \in Lives /\ to # "migrating"
         /\ locked' = IF to = "migrating" THEN r ELSE IF locked = r THEN "nobody" ELSE locked
    BY <2>1, <2>2, <2>7 DEF Lives
  <2> QED
    BY <2>1, <2>2, <2>6, <2>7, <2>8, <2>9, <2>10, ReplicaMoves
<1>8. ASSUME NEW r \in Replicas, DrainTimesOut(r)
      PROVE  BootInv'
  <2>1. /\ life[r] = "draining" /\ inflight[r] > 0
        /\ life' = [life EXCEPT ![r] = "fatal"] /\ code' = [code EXCEPT ![r] = 1]
        /\ cut' = [cut EXCEPT ![r] = inflight[r]] /\ inflight' = [inflight EXCEPT ![r] = 0]
        /\ UNCHANGED <<flag, store, locked, known, schema, ledger>>
    BY <1>8 DEF DrainTimesOut, Exits, Becomes, MissedDeadlineCode
  <2>2. BootTyped'
    BY <2>1 DEF BootTyped, Lives
  <2>3. /\ code'[r] = 1 /\ cut'[r] = inflight[r]
        /\ \A q \in Replicas : q # r => code'[q] = code[q] /\ cut'[q] = cut[q]
    BY <2>1 DEF BootTyped
  <2>4. locked # r
    BY <2>1 DEF MigratorIsAlone
  <2> QED
    BY <2>1, <2>2, <2>3, <2>4, ReplicaMoves DEF Lives, LivesMean
<1>9. CASE FleetNext \/ UNCHANGED daemonVars
  <2>1. UNCHANGED bootVars
    BY <1>9 DEF FleetNext, RegisterWorker, HeartbeatWorker, Beats, Tick, DatabaseGoes, SweepTick, ListFails, daemonVars
  <2> QED
    BY <2>1 DEF bootVars, BootTyped, SchemaIsPrefix, MigratorIsAlone, LivesMean, SelectedBackend
<1> QED
  BY <1>1, <1>2, <1>3, <1>4, <1>5, <1>6, <1>7, <1>8, <1>9, ApplyKeeps DEF BootNext

LEMMA BootFromInv == BootInv => DaemonsStartAndStopWell
<1> SUFFICES ASSUME BootInv
             PROVE  DaemonsStartAndStopWell
  OBVIOUS
<1>1. \A i \in DOMAIN schema : schema[i] = i
  BY DEF BootInv, BootTyped, SchemaIsPrefix
<1>2. \A r \in Replicas : life[r] = "exited" => cut[r] = 0
  BY NoneCut
<1> QED
  BY <1>1, <1>2 DEF BootInv, LivesMean, DaemonsStartAndStopWell

\* Replicas of the queue daemon apply every migration once and in order, whoever of them
\* dies, and serve nothing before the last one.
THEOREM BootCorrect == BootSpec => []DaemonsStartAndStopWell
<1>1. BootInv /\ [BootNext]_daemonVars => BootInv'
  BY BootInvStep
<1> QED
  BY <1>1, BootFromInv, BootInvInit, PTL DEF BootSpec

-----------------------------------------------------------------------------
(* The settings of a worker process *)

ByTheProfile == {"strict", "nativeProfiles", "report"}
NumberSettings == DOMAIN Numbers
LEMMA SettingSets ==
  /\ {"profile", "encoder", "socketPath", "level", "format"} \subseteq Words
  /\ Words = {"profile", "encoder", "encoderBackend", "preset", "pixfmt", "socketPath", "queueEndpoint",
              "storeEndpoint", "storeToken", "level", "format", "receipt", "credentials", "token", "folder",
              "mockDir", "ledger", "binary"}
  /\ DOMAIN Texts = {"id", "backend", "home", "mode", "cacheDir", "root", "addr", "driveMode", "ffprobe", "ffmpeg"}
  /\ DOMAIN PipelineNumbers = {"longPoll", "claimRetry", "beat", "degradedAfter", "sweep", "staleAfter",
                               "refresh", "ttl", "renewAttempts", "renewBackoff"}
  /\ DOMAIN LoggingNumbers = {"retention", "maxFiles"}
  /\ DOMAIN Numbers = DOMAIN PipelineNumbers \cup DOMAIN LoggingNumbers \cup {"l1Max", "l2Max", "stall"}
  /\ SettingNames = DOMAIN Texts \cup DOMAIN Numbers \cup Counts \cup PlainNumbers \cup Flags \cup Words
                      \cup {"socketPaths"}
BY DEF Words, Texts, Numbers, PipelineNumbers, LoggingNumbers, SettingNames

LEMMA NumbersArePositive == \A f \in DOMAIN Numbers : Numbers[f] \in Int /\ Numbers[f] > 0
BY DEF Numbers, PipelineNumbers, LoggingNumbers

\* Filling one setting in leaves every other one, and one that is given.
LEMMA FilledKeeps ==
  ASSUME NEW c, DOMAIN c = SettingNames, NEW f, NEW value
  PROVE  /\ DOMAIN Filled(c, f, value) = SettingNames
         /\ \A g \in SettingNames : g # f \/ c[g] # "" => Filled(c, f, value)[g] = c[g]
BY DEF Filled

\* What is given, or is no setting of the renderer, is the same in two configurations.
RendererFilled(c, d) ==
  /\ DOMAIN d = SettingNames
  /\ \A g \in SettingNames : g \notin {"backend", "encoder", "pixfmt", "mode"} \/ c[g] # "" => d[g] = c[g]

LEMMA FillsTheRenderer ==
  ASSUME NEW c, NEW d, DOMAIN c = SettingNames, RendererFilled(c, d),
         NEW f \in {"backend", "encoder", "pixfmt", "mode"}, NEW value
  PROVE  RendererFilled(c, Filled(d, f, value))
<1>1. DOMAIN d = SettingNames
  BY DEF RendererFilled
<1>2. /\ DOMAIN Filled(d, f, value) = SettingNames
      /\ \A g \in SettingNames : g # f \/ d[g] # "" => Filled(d, f, value)[g] = d[g]
  BY <1>1, FilledKeeps
<1> QED
  BY <1>2 DEF RendererFilled

\* The profile decides over its flags, and only fills in what the renderer is.
LEMMA ProfileKeeps ==
  ASSUME NEW c, DOMAIN c = SettingNames
  PROVE  /\ DOMAIN ByProfile(c) = SettingNames
         /\ \A g \in SettingNames \ ByTheProfile :
              g \notin {"backend", "encoder", "pixfmt", "mode"} \/ c[g] # "" => ByProfile(c)[g] = c[g]
<1>0. RendererFilled(c, c)
  BY DEF RendererFilled
<1>1. CASE c.profile = "gpu-vulkan-native"
  <2> DEFINE b == Filled(c, "backend", "vulkan")
             e == Filled(b, "encoder", "nvenc")
             p == Filled(e, "pixfmt", "nv12")
             m == Filled(p, "mode", "ipc")
             l == [m EXCEPT !.strict = TRUE, !.nativeProfiles = TRUE, !.report = TRUE]
  <2>1. RendererFilled(c, b)
    BY <1>0, FillsTheRenderer
  <2>2. RendererFilled(c, e)
    BY <2>1, FillsTheRenderer
  <2>3. RendererFilled(c, p)
    BY <2>2, FillsTheRenderer
  <2>4. RendererFilled(c, m)
    BY <2>3, FillsTheRenderer
  <2>5. ByProfile(c) = l
    BY <1>1 DEF ByProfile
  <2> HIDE DEF m
  <2>6. DOMAIN l = SettingNames /\ \A g \in SettingNames \ ByTheProfile : l[g] = m[g]
    BY <2>4 DEF ByTheProfile, RendererFilled
  <2> QED
    BY <2>4, <2>5, <2>6 DEF RendererFilled
<1>2. CASE c.profile = "software-cli"
  <2> DEFINE b == Filled(c, "backend", "software")
             m == Filled(b, "mode", "cli")
  <2>1. RendererFilled(c, b)
    BY <1>0, FillsTheRenderer
  <2>2. RendererFilled(c, m)
    BY <2>1, FillsTheRenderer
  <2>3. ByProfile(c) = m
    BY <1>2 DEF ByProfile
  <2> QED
    BY <2>2, <2>3 DEF RendererFilled
<1>3. CASE c.profile \notin {"gpu-vulkan-native", "software-cli"}
  BY <1>3 DEF ByProfile
<1> QED
  BY <1>1, <1>2, <1>3

\* The same for the words of the log, which a blank does not give.
WordsFilled(c, d) ==
  /\ DOMAIN d = SettingNames
  /\ \A g \in SettingNames : g \notin {"level", "format"} \/ (c[g] # "" /\ c[g] # "blank") => d[g] = c[g]

LEMMA FillsTheWords ==
  ASSUME NEW c, NEW d, WordsFilled(c, d), NEW f \in {"level", "format"}, NEW value
  PROVE  WordsFilled(c, LogWord(d, f, value))
<1>1. DOMAIN d = SettingNames
  BY DEF WordsFilled
<1>2. DOMAIN LogWord(d, f, value) = SettingNames
  BY <1>1 DEF LogWord
<1>3. ASSUME NEW g \in SettingNames, g \notin {"level", "format"} \/ (c[g] # "" /\ c[g] # "blank")
      PROVE  LogWord(d, f, value)[g] = c[g]
  <2>1. d[g] = c[g]
    BY <1>3 DEF WordsFilled
  <2> QED
    BY <1>1, <1>3, <2>1 DEF LogWord
<1> QED
  BY <1>2, <1>3 DEF WordsFilled

LEMMA LogWordsKeep ==
  ASSUME NEW c, DOMAIN c = SettingNames
  PROVE  WordsFilled(c, LogWord(LogWord(c, "level", "info"), "format", "json"))
<1>1. WordsFilled(c, c)
  BY DEF WordsFilled
<1>2. WordsFilled(c, LogWord(c, "level", "info"))
  BY <1>1, FillsTheWords
<1> QED
  BY <1>2, FillsTheWords

\* What the defaults leave: numbers that are given, counts of at least one, and words
\* that say something.
LEMMA DefaultsKeep ==
  ASSUME NEW c, DOMAIN c = SettingNames
  PROVE  LET d == WithDefaults(c) IN
         /\ \A f \in DOMAIN Numbers : d[f] = IF c[f] = 0 THEN Numbers[f] ELSE c[f]
         /\ \A f \in Counts : ~(c[f] <= 0) => d[f] = c[f]
         /\ \A f \in DOMAIN Texts \cup Words :
              c[f] # "" /\ (f \in {"level", "format"} => c[f] # "blank") => d[f] = c[f]
         /\ \A f \in PlainNumbers \cup (Flags \ ByTheProfile) : d[f] = c[f]
<1> DEFINE p == ByProfile(c)
           t == [f \in SettingNames |-> CASE f \in DOMAIN Numbers /\ p[f] = 0 -> Numbers[f]
                                         [] f \in DOMAIN Texts /\ p[f] = "" -> Texts[f]
                                         [] OTHER -> p[f]]
           s == IF t.socketPath = "" /\ t.socketPaths = << >>
                THEN [t EXCEPT !.socketPath = "default"] ELSE t
           a == LogWord(s, "level", "info")
           l == LogWord(a, "format", "json")
           d == [l EXCEPT !.workers = IF @ <= 0 THEN 3 ELSE @, !.lanes = IF @ <= 0 THEN 2 ELSE @]
<1>0. WithDefaults(c) = d
  BY DEF WithDefaults
<1>1. /\ DOMAIN p = SettingNames
      /\ \A g \in SettingNames \ ByTheProfile :
           g \notin {"backend", "encoder", "pixfmt", "mode"} \/ c[g] # "" => p[g] = c[g]
  BY ProfileKeeps
<1> HIDE DEF p
<1>2. /\ DOMAIN t = SettingNames
      /\ \A f \in DOMAIN Numbers : t[f] = IF p[f] = 0 THEN Numbers[f] ELSE p[f]
      /\ \A f \in SettingNames \ DOMAIN Numbers : p[f] # "" \/ f \notin DOMAIN Texts => t[f] = p[f]
  BY SettingSets
<1> HIDE DEF t
<1>3. DOMAIN s = SettingNames /\ \A f \in SettingNames : f # "socketPath" \/ t[f] # "" => s[f] = t[f]
  BY <1>2
<1> HIDE DEF s
<1>4. /\ DOMAIN l = SettingNames
      /\ \A f \in SettingNames : f \notin {"level", "format"} \/ (s[f] # "" /\ s[f] # "blank") => l[f] = s[f]
  <2>1. WordsFilled(s, l)
    BY <1>3, LogWordsKeep
  <2> QED
    BY <2>1 DEF WordsFilled
<1> HIDE DEF l
<1>5. /\ \A f \in SettingNames \ Counts : d[f] = l[f]
      /\ \A f \in Counts : ~(l[f] <= 0) => d[f] = l[f]
  BY <1>4, SettingSets DEF Counts
<1> HIDE DEF d
<1>6. ASSUME NEW f \in DOMAIN Numbers
      PROVE  d[f] = IF c[f] = 0 THEN Numbers[f] ELSE c[f]
  <2>1. f \in SettingNames \ Counts /\ f \notin {"level", "format", "socketPath"} \cup ByTheProfile
        /\ f \notin {"backend", "encoder", "pixfmt", "mode"}
    BY SettingSets DEF Counts, ByTheProfile
  <2>2. d[f] = t[f] /\ p[f] = c[f]
    BY <1>1, <1>3, <1>4, <1>5, <2>1
  <2> QED
    BY <1>2, <2>2
<1>7. ASSUME NEW f \in Counts, ~(c[f] <= 0)
      PROVE  d[f] = c[f]
  <2>1. f \in SettingNames \ DOMAIN Numbers /\ f \notin {"level", "format", "socketPath"} \cup ByTheProfile
        /\ f \notin {"backend", "encoder", "pixfmt", "mode"} /\ f \notin DOMAIN Texts
    BY SettingSets DEF Counts, ByTheProfile
  <2>2. l[f] = c[f]
    BY <1>1, <1>2, <1>3, <1>4, <2>1
  <2> QED
    BY <1>5, <1>7, <2>2
<1>8. ASSUME NEW f \in DOMAIN Texts \cup Words, c[f] # "", f \in {"level", "format"} => c[f] # "blank"
      PROVE  d[f] = c[f]
  <2>1. f \in SettingNames \ DOMAIN Numbers /\ f \notin Counts \cup ByTheProfile
    BY SettingSets DEF Counts, ByTheProfile
  <2>2. p[f] = c[f]
    BY <1>1, <1>8, <2>1
  <2>3. t[f] = c[f]
    BY <1>2, <1>8, <2>1, <2>2
  <2>4. s[f] = c[f]
    BY <1>3, <1>8, <2>1, <2>3
  <2>5. l[f] = c[f]
    BY <1>4, <1>8, <2>1, <2>4
  <2> QED
    BY <1>5, <2>1, <2>5
<1>9. ASSUME NEW f \in PlainNumbers \cup (Flags \ ByTheProfile)
      PROVE  d[f] = c[f]
  <2>1. f \in SettingNames \ DOMAIN Numbers /\ f \notin {"level", "format", "socketPath"} \cup ByTheProfile
        /\ f \notin {"backend", "encoder", "pixfmt", "mode"} /\ f \notin DOMAIN Texts /\ f \notin Counts
    BY SettingSets DEF Counts, ByTheProfile, PlainNumbers, Flags
  <2> QED
    BY <1>1, <1>2, <1>3, <1>4, <1>5, <2>1
<1> QED
  BY <1>0, <1>6, <1>7, <1>8, <1>9

\* What holds of the settings a worker has accepted.
Sound(i, c) ==
  /\ c # NoSettings
  /\ \A f \in SettingNames \ ByTheProfile : Says(i.env, f) => c[f] = EnvValue(i.env, f)
  /\ \A f \in DOMAIN Numbers : c[f] \in Int /\ c[f] > 0
  /\ c.ttl > c.refresh
  /\ Strict(c) => c.mode = "ipc" /\ c.encoder = "nvenc"
  /\ \A f \in DOMAIN LogWords : c[f] \in LogWords[f]
  /\ c.mode = "ipc" => Spreadable(RenderSockets(c)) \/ c.socketPath = "blank"

LEMMA ValidIsSpreadable ==
  ASSUME NEW c, SocketsAreDaemons(c), c.mode = "ipc", c.socketPath # "blank"
  PROVE  Spreadable(RenderSockets(c))
<1>1. CASE c.socketPaths # << >>
  BY <1>1 DEF RenderSockets, Spreadable, SocketsAreDaemons
<1>2. CASE c.socketPaths = << >>
  <2>1. c.socketPath \notin {"", "blank"}
    BY <1>2 DEF SocketsAreDaemons
  <2>2. RenderSockets(c) = <<c.socketPath>>
    BY <1>2, <2>1 DEF RenderSockets
  <2>3. PICK p : p = c.socketPath
    OBVIOUS
  <2>4. PICK q : q = <<p>>
    OBVIOUS
  <2>5. DOMAIN q = {1} /\ q[1] = p /\ q # << >>
    BY <2>4
  <2>6. Spreadable(q)
    BY <2>1, <2>3, <2>5 DEF Spreadable, NoBlank, IsInjective
  <2> QED
    BY <2>2, <2>3, <2>4, <2>6
<1> QED
  BY <1>1, <1>2

LEMMA LoadedIsSound ==
  ASSUME NEW i \in WorkerInputs, KnowsKeys(i.file), EnvAccepted(i.env),
         Valid(WithDefaults(Overlaid(Decoded(i.file), i.env)))
  PROVE  Sound(i, WithDefaults(Overlaid(Decoded(i.file), i.env)))
<1>1. PICK o : o = Overlaid(Decoded(i.file), i.env)
  OBVIOUS
<1>2. PICK c : c = WithDefaults(o)
  OBVIOUS
<1>3. /\ \A f \in DOMAIN Numbers \cup Counts : o[f] \in Int
      /\ \A f \in DOMAIN Texts \cup Words : EnvValue(i.env, f) # ""
      /\ c # NoSettings
  BY <1>1, <1>2, WorkerAssumption
<1>4. /\ DOMAIN o = SettingNames
      /\ \A f \in SettingNames : EnvValue(i.env, f) # EmptyVar => o[f] = EnvValue(i.env, f)
  BY <1>1 DEF Overlaid
<1>5. /\ \A f \in DOMAIN Numbers : c[f] = IF o[f] = 0 THEN Numbers[f] ELSE o[f]
      /\ \A f \in Counts : ~(o[f] <= 0) => c[f] = o[f]
      /\ \A f \in DOMAIN Texts \cup Words :
           o[f] # "" /\ (f \in {"level", "format"} => o[f] # "blank") => c[f] = o[f]
      /\ \A f \in PlainNumbers \cup (Flags \ ByTheProfile) : c[f] = o[f]
  BY <1>2, <1>4, DefaultsKeep
<1>6. Valid(c)
  BY <1>1, <1>2
<1>7. ASSUME NEW f \in SettingNames \ ByTheProfile, Says(i.env, f)
      PROVE  c[f] = EnvValue(i.env, f)
  <2>1. EnvValue(i.env, f) # EmptyVar /\ o[f] = EnvValue(i.env, f)
    BY <1>4, <1>7 DEF Says
  <2>2. CASE f \in DOMAIN Numbers
    BY <1>5, <1>7, <2>1, <2>2 DEF Says
  <2>3. CASE f \in Counts
    <3>1. o[f] \in Int /\ o[f] > 0
      BY <1>3, <1>7, <2>1, <2>3 DEF Says
    <3>2. ~(o[f] <= 0)
      BY <3>1
    <3> QED
      BY <1>5, <2>1, <2>3, <3>2
  <2>4. CASE f \in DOMAIN Texts \cup Words
    <3>1. DOMAIN LogWords = {"level", "format"}
      BY DEF LogWords
    <3>2. o[f] # "" /\ (f \in {"level", "format"} => o[f] # "blank")
      BY <1>3, <1>7, <2>1, <2>4, <3>1 DEF Says
    <3> QED
      BY <1>5, <2>1, <2>4, <3>2
  <2>5. CASE f \in PlainNumbers \cup (Flags \ ByTheProfile)
    BY <1>5, <2>1, <2>5
  <2>6. f # "socketPaths"
    BY <2>1 DEF EnvAccepted
  <2> QED
    BY <2>2, <2>3, <2>4, <2>5, <2>6, SettingSets
<1>8. ASSUME NEW f \in DOMAIN Numbers
      PROVE  c[f] \in Int /\ c[f] > 0
  <2>1. f \in DOMAIN PipelineNumbers \cup DOMAIN LoggingNumbers \cup {"l1Max", "l2Max", "stall"}
    BY SettingSets
  <2>2. c[f] >= 0
    BY <1>6, <2>1 DEF Valid, PipelineIsValid, LoggingIsValid
  <2>3. o[f] \in Int /\ Numbers[f] \in Int /\ Numbers[f] > 0
    BY <1>3, NumbersArePositive
  <2>4. CASE o[f] = 0
    BY <1>5, <2>3, <2>4
  <2>5. CASE o[f] # 0
    <3>1. c[f] = o[f]
      BY <1>5, <2>5
    <3> QED
      BY <2>2, <2>3, <2>5, <3>1
  <2> QED
    BY <2>4, <2>5
<1>9. c.ttl > c.refresh
  BY <1>6 DEF Valid, PipelineIsValid, OutlivesRefresh
<1>10. Strict(c) => c.mode = "ipc" /\ c.encoder = "nvenc"
  BY <1>6 DEF Valid, StrictIsWhole
<1>11. \A f \in DOMAIN LogWords : c[f] \in LogWords[f]
  BY <1>6 DEF Valid, LoggingIsValid
<1>12. c.mode = "ipc" => Spreadable(RenderSockets(c)) \/ c.socketPath = "blank"
  BY <1>6, ValidIsSpreadable DEF Valid
<1> QED
  BY <1>1, <1>2, <1>3, <1>7, <1>8, <1>9, <1>10, <1>11, <1>12 DEF Sound

-----------------------------------------------------------------------------
(* Its start *)

\* The settings are there from the load on, and they are sound.
SettingsAreSound ==
  /\ input \in WorkerInputs
  /\ settings # NoSettings => Sound(input, settings) /\ mainAt # "load"
  /\ settings = NoSettings =>
       mainAt \in {"load", "fatal"} /\ running = {} /\ ~listed /\ because # "chronon"

\* The pools run once the worker is listed, and over IPC with the sockets of the settings.
StartIsOrdered ==
  /\ mainAt = "serving" => listed
  /\ claimed => listed
  /\ mainAt \notin {"load", "logging", "renderer", "fatal"} /\ settings.mode = "ipc" => sockets # << >>
  /\ because # "logging"
  /\ because = "chronon" => settings.mode # "ipc" \/ settings.socketPath = "blank"

\* The logs are as they were found, until the oldest go.
LogsAreKept ==
  /\ mainAt \in {"load", "logging"} => jobLogs = input.logs
  /\ settings # NoSettings =>
       \A a \in input.logs : a <= settings.retention /\ (\A b \in input.logs : a <= b) => a \in jobLogs

WorkerInv == SettingsAreSound /\ StartIsOrdered /\ LogsAreKept

LEMMA WorkerInvInit == WorkerInit => WorkerInv
BY DEF WorkerInit, WorkerInv, SettingsAreSound, StartIsOrdered, LogsAreKept

\* The youngest log is within any number of logs that are kept.
LEMMA YoungestIsKept ==
  ASSUME SettingsAreSound, settings # NoSettings, NEW a \in input.logs,
         a <= settings.retention, \A b \in input.logs : a <= b
  PROVE  a \in Pruned(input.logs)
<1> DEFINE young == {b \in input.logs : b <= settings.retention}
<1>1. settings.maxFiles \in Int /\ settings.maxFiles > 0
  BY SettingSets DEF SettingsAreSound, Sound
<1>2. \A b \in input.logs : b \in Int
  BY WorkerAssumption DEF SettingsAreSound
<1>3. {b \in young : b < a} = {}
  BY <1>2
<1>4. Cardinality({b \in young : b < a}) = 0
  BY <1>3, FS_EmptySet
<1>5. a \in young
  OBVIOUS
<1> HIDE DEF young
<1>6. a \in {x \in young : Cardinality({b \in young : b < x}) < settings.maxFiles}
  BY <1>1, <1>4, <1>5
<1> QED
  BY <1>6 DEF Pruned, young

LEMMA WorkerInvStep == WorkerInv /\ [WorkerNext]_workerVars => WorkerInv'
<1> SUFFICES ASSUME WorkerInv, [WorkerNext]_workerVars
             PROVE  WorkerInv'
  OBVIOUS
<1> USE DEF WorkerInv
<1>1. CASE LoadSettings
  <2>1. /\ mainAt = "load"
        /\ UNCHANGED <<input, running, sockets, admin, listed, claimed, finalizes, missed, stopping, jobLogs>>
    BY <1>1 DEF LoadSettings
  <2>2. CASE mainAt' = "fatal" /\ because' = "config" /\ UNCHANGED settings
    BY <2>1, <2>2 DEF SettingsAreSound, StartIsOrdered, LogsAreKept
  <2>3. CASE mainAt' = "logging" /\ UNCHANGED because /\ Sound(input, settings')
    <3>1. settings' # NoSettings
      BY <2>3 DEF Sound
    <3>2. because # "chronon" \/ settings # NoSettings
      BY DEF SettingsAreSound
    <3>3. because # "chronon"
      BY <2>1 DEF StartIsOrdered, SettingsAreSound
    <3> QED
      BY <2>1, <2>3, <3>1, <3>3 DEF SettingsAreSound, StartIsOrdered, LogsAreKept
  <2>4. ~(KnowsKeys(input.file) /\ EnvAccepted(input.env)) => mainAt' = "fatal" /\ because' = "config" /\ UNCHANGED settings
    BY <1>1 DEF LoadSettings, Fatal
  <2>5. ASSUME KnowsKeys(input.file), EnvAccepted(input.env)
        PROVE  \/ mainAt' = "fatal" /\ because' = "config" /\ UNCHANGED settings
               \/ mainAt' = "logging" /\ UNCHANGED because /\ Sound(input, settings')
    <3>1. PICK c : c = WithDefaults(Overlaid(Decoded(input.file), input.env))
      OBVIOUS
    <3>2. IF Valid(c) THEN settings' = c /\ Then("logging") ELSE Fatal("config") /\ UNCHANGED settings
      BY <1>1, <2>5, <3>1 DEF LoadSettings
    <3>3. Valid(c) => Sound(input, c)
      BY <2>5, <3>1, LoadedIsSound DEF SettingsAreSound
    <3> QED
      BY <3>2, <3>3 DEF Then, Fatal
  <2> QED
    BY <2>2, <2>3, <2>4, <2>5
<1>2. CASE InitLogging
  <2>1. /\ mainAt = "logging" /\ settings # NoSettings
        /\ UNCHANGED <<input, settings, sockets, admin, listed, claimed, finalizes, missed, stopping>>
    BY <1>2 DEF InitLogging, SettingsAreSound
  <2>2. \A f \in DOMAIN LogWords : settings[f] \in LogWords[f]
    BY <2>1 DEF SettingsAreSound, Sound
  <2>3. mainAt' = "renderer" /\ UNCHANGED because /\ Pruned(jobLogs) \cap jobLogs \subseteq jobLogs'
    BY <1>2, <2>2 DEF InitLogging, Then
  <2>4. jobLogs = input.logs
    BY <2>1 DEF LogsAreKept
  <2>5. LogsAreKept'
    BY <2>1, <2>3, <2>4, YoungestIsKept DEF LogsAreKept
  <2> QED
    BY <2>1, <2>3, <2>5 DEF SettingsAreSound, StartIsOrdered
<1>3. CASE SelectRenderer
  <2>1. /\ mainAt = "renderer" /\ settings # NoSettings
        /\ UNCHANGED <<input, settings, running, admin, listed, claimed, finalizes, missed, stopping, jobLogs>>
    BY <1>3 DEF SelectRenderer, SettingsAreSound
  <2>2. CASE mainAt' = "fatal" /\ because' = "chronon" /\ (settings.mode # "ipc" \/ settings.socketPath = "blank")
    BY <2>1, <2>2 DEF SettingsAreSound, StartIsOrdered, LogsAreKept
  <2>3. CASE mainAt' = "stores" /\ UNCHANGED because /\ (settings.mode = "ipc" => sockets' # << >>)
    BY <2>1, <2>3 DEF SettingsAreSound, StartIsOrdered, LogsAreKept
  <2>4. settings.mode = "ipc" => Spreadable(RenderSockets(settings)) \/ settings.socketPath = "blank"
    BY <2>1 DEF SettingsAreSound, Sound
  <2> QED
    BY <1>3, <2>2, <2>3, <2>4 DEF SelectRenderer, Then, Fatal, Spreadable
<1>4. CASE OpenStores \/ CheckCatalog
  <2>1. /\ UNCHANGED <<input, settings, running, sockets, admin, listed, claimed, finalizes, missed, stopping, jobLogs>>
        /\ mainAt \in {"stores", "catalog"}
    BY <1>4 DEF OpenStores, CheckCatalog
  <2>2. \/ mainAt' = "fatal" /\ because' \in {"artifact_db", "drive", "catalog"}
        \/ mainAt' \in {"finalizer", "health"} /\ UNCHANGED because
    BY <1>4 DEF OpenStores, CheckCatalog, Then, Fatal
  <2> QED
    BY <2>1, <2>2 DEF SettingsAreSound, StartIsOrdered, LogsAreKept
<1>5. CASE StartFinalizer \/ ExposeHealth
  <2>1. /\ mainAt \in {"finalizer", "health"} /\ mainAt' \in {"catalog", "register"} /\ UNCHANGED because
        /\ UNCHANGED <<input, settings, sockets, listed, claimed, finalizes, missed, stopping, jobLogs>>
    BY <1>5 DEF StartFinalizer, ExposeHealth, Then
  <2> QED
    BY <2>1 DEF SettingsAreSound, StartIsOrdered, LogsAreKept
<1>6. CASE BindAdmin
  <2>1. /\ UNCHANGED <<input, settings, running, sockets, listed, claimed, finalizes, missed, stopping, jobLogs>>
        /\ \/ UNCHANGED <<mainAt, because>>
           \/ mainAt' = "fatal" /\ because' = "health"
    BY <1>6 DEF BindAdmin, Fatal
  <2> QED
    BY <2>1 DEF SettingsAreSound, StartIsOrdered, LogsAreKept
<1>7. CASE RegisterSelf
  <2>1. /\ mainAt = "register"
        /\ UNCHANGED <<input, settings, sockets, admin, claimed, finalizes, missed, stopping, jobLogs>>
        /\ \/ mainAt' = "fatal" /\ because' = "register" /\ UNCHANGED <<listed, running>>
           \/ mainAt' = "serving" /\ UNCHANGED because /\ listed' = TRUE
    BY <1>7 DEF RegisterSelf, Fatal, Then
  <2> QED
    BY <2>1 DEF SettingsAreSound, StartIsOrdered, LogsAreKept
<1>8. CASE PoolClaims \/ RecoveryTick \/ HeartbeatTick \/ SignalArrives \/ (\E who \in running : LoopEnds(who))
  <2>1. /\ UNCHANGED <<input, settings, mainAt, because, sockets, listed, jobLogs>>
        /\ running' \subseteq running /\ (claimed' => claimed \/ mainAt = "serving")
    BY <1>8 DEF PoolClaims, RecoveryTick, HeartbeatTick, SignalArrives, LoopEnds
  <2> QED
    BY <2>1 DEF SettingsAreSound, StartIsOrdered, LogsAreKept
<1>9. CASE PoolsReturn
  BY <1>9 DEF PoolsReturn, Then, SettingsAreSound, StartIsOrdered, LogsAreKept
<1>10. CASE UNCHANGED workerVars
  BY <1>10 DEF workerVars, SettingsAreSound, StartIsOrdered, LogsAreKept
<1> QED
  BY <1>1, <1>2, <1>3, <1>4, <1>5, <1>6, <1>7, <1>8, <1>9, <1>10 DEF WorkerNext

LEMMA WorkerFromInv == WorkerInv => WorkerStartsWell
<1> SUFFICES ASSUME WorkerInv
             PROVE  WorkerStartsWell
  OBVIOUS
<1> USE DEF WorkerInv
<1>1. ASSUME settings # NoSettings
      PROVE  Sound(input, settings)
  BY <1>1 DEF SettingsAreSound
<1>2. missed = 0 => HealthStatus = "ready"
  <2>1. listed => settings.degradedAfter \in Int /\ settings.degradedAfter > 0
    BY <1>1, SettingSets DEF SettingsAreSound, Sound
  <2> QED
    BY <2>1 DEF HealthStatus
<1>3. mainAt \notin {"load", "logging", "renderer", "fatal"} /\ Strict(settings) => sockets # << >> /\ settings.encoder = "nvenc"
  BY <1>1 DEF SettingsAreSound, StartIsOrdered, Sound
<1> QED
  BY <1>1, <1>2, <1>3 DEF WorkerStartsWell, SettingsAreSound, StartIsOrdered, LogsAreKept, Sound, ByTheProfile

\* A worker process runs on what it was configured for, and claims once it is listed.
THEOREM WorkerCorrect == WorkerSpec => []WorkerStartsWell
<1> QED
  BY WorkerInvInit, WorkerInvStep, WorkerFromInv, PTL DEF WorkerSpec
-----------------------------------------------------------------------------
(* The processes together *)

\* A step of the daemons is a step of one part, and the others stand still.
LEMMA DaemonSteps ==
  ASSUME [DaemonsNext]_allVars
  PROVE  [BootNext \/ FleetNext]_daemonVars /\ [WorkerNext]_workerVars
BY DEF DaemonsNext, PipelineRuns, WorkspacesRun, BootRuns, FleetRuns, WorkerRuns, allVars

\* The queue daemons and the workers serve only what they were set up and checked for.
THEOREM StartsCorrect == DaemonsSpec => []ProcessesStartWell
<1>1. DaemonsInit => BootInv /\ WorkerInv
  BY BootInvInit, WorkerInvInit DEF DaemonsInit
<1>2. BootInv /\ WorkerInv /\ [DaemonsNext]_allVars => (BootInv /\ WorkerInv)'
  BY DaemonSteps, BootInvStep, WorkerInvStep
<1>3. BootInv /\ WorkerInv => ProcessesStartWell
  BY BootFromInv, WorkerFromInv DEF ProcessesStartWell
<1> QED
  BY <1>1, <1>2, <1>3, PTL DEF DaemonsSpec
================================================================================
