------------------------------ MODULE JobQueue ------------------------------
(***************************************************************************)
(* The render job store of the queue service on PostgreSQL                 *)
(* (queue/internal/repository/postgres, behind queue/internal/service).    *)
(*                                                                         *)
(* One row of render_jobs per job and one row of render_attempts per       *)
(* claim.  Every operation is one transaction over locked rows, so it is   *)
(* one action.  Callers are arbitrary: any worker may send any report at   *)
(* any time (late, twice, after a crash or never); a report the SQL        *)
(* condition rejects changes nothing and is a stuttering step.             *)
(*                                                                         *)
(* A definition placed right above another with the same parameters, and   *)
(* used nowhere, is a slip: a plausible wrong version that the properties  *)
(* must tell from the right one (PROJECT.json, "mutants").                 *)
(*                                                                         *)
(* Time is abstracted to what the conditions on it can tell apart: a       *)
(* lease is live or expired, a deferred job is due or not yet due.         *)
(***************************************************************************)
EXTENDS Naturals, Sequences

CONSTANTS
  Jobs,         \* job identifiers
  Workers,      \* worker identifiers
  None,         \* SQL NULL
  ParentOf,     \* parent_job_id of each job, or None
  Deferred,     \* jobs submitted with a not_before in the future
  Corrupt,      \* jobs whose frame_range / input_manifest does not decode
  MaxAttempts,  \* render_jobs.max_attempts; 0 means no limit
  AttemptCap    \* bound of the model: no job is claimed more often than this

ASSUME ConstantsAssumption ==
  /\ None \notin Workers
  /\ None \notin Jobs
  /\ ParentOf \in [Jobs -> Jobs \cup {None}]
  /\ Deferred \subseteq Jobs
  /\ Corrupt \subseteq Jobs
  /\ MaxAttempts \in Nat
  /\ AttemptCap \in Nat

VARIABLES
  state,          \* render_jobs.state, "absent" before the INSERT
  currentWorker,  \* render_jobs.current_worker_id
  lease,          \* render_jobs.lease_until against the clock
  attemptCount,   \* render_jobs.attempt_count
  artifact,       \* render_jobs.artifact_id IS NOT NULL
  progress,       \* render_jobs.progress_worker, None when no progress is kept
  due,            \* not_before IS NULL OR not_before <= now
  attempts,       \* render_attempts of the job, indexed by attempt_number
  retried,        \* history: the job is back in the queue by an explicit Retry
  everCancelled   \* history: jobs whose producer cancelled them

history == <<retried, everCancelled>>
vars == <<state, currentWorker, lease, attemptCount, artifact, progress, due,
          attempts, history>>

-----------------------------------------------------------------------------
(* Vocabulary *)

States == {"absent", "pending", "running", "finalizing", "completed",
           "failed", "rendered", "cancelled"}

ClaimableStates == {"pending", "rendered"}
TerminalStates  == {"completed", "failed", "cancelled"}
HeldStates      == {"running", "finalizing"}

AttemptStatuses == {"running", "completed", "failed", "lease_expired",
                    "rendered", "cancelled"}

(* worker and status are columns of render_attempts; handed says whether the *)
(* claim handed the stored artifact to the worker (publication only) and     *)
(* afterRetry whether an explicit Retry preceded the claim.                  *)
AttemptRow == [worker : Workers, status : AttemptStatuses,
               handed : BOOLEAN, afterRetry : BOOLEAN]

-----------------------------------------------------------------------------
(* Helpers *)

(* An assembly anchor: a job that owns chunk children. *)
HasChildren(j) == \E c \in Jobs : ParentOf[c] = j /\ state[c] # "absent"

GivesUpOneLate(n) == MaxAttempts > 0 /\ n > MaxAttempts
ShouldFailPermanently(n) == MaxAttempts > 0 /\ n >= MaxAttempts

(* Where a job goes whose attempt failed or lost its lease. *)
AfterLostAttempt(n) == IF ShouldFailPermanently(n) THEN "failed" ELSE "pending"

(* attempt_count + 1, or one past the highest recorded attempt_number *)
AttemptNumber(j) ==
  IF Len(attempts[j]) >= attemptCount[j] + 1
  THEN Len(attempts[j]) + 1
  ELSE attemptCount[j] + 1

(* the number of the running attempt with the highest attempt_number *)
IsRunningAttempt(j, n) ==
  /\ n \in 1..Len(attempts[j])
  /\ attempts[j][n].status = "running"
  /\ \A m \in 1..Len(attempts[j]) :
       attempts[j][m].status = "running" => m <= n

(* The attempt rows of j once the running attempt, if there is one, is closed. *)
FinishesEveryAttempt(j, status) ==
  [n \in 1..Len(attempts[j]) |-> [attempts[j][n] EXCEPT !.status = status]]
FinishedAttempts(j, status) ==
  [n \in 1..Len(attempts[j]) |->
     IF IsRunningAttempt(j, n)
     THEN [attempts[j][n] EXCEPT !.status = status]
     ELSE attempts[j][n]]

(* The claim carries the stored artifact whenever artifact_id is set. *)
HandsOverOnlyFromRendered(j) == artifact[j] /\ state[j] = "rendered"
HandsOver(j) == artifact[j]

CreatedAttempts(j, w) ==
  LET row == [worker |-> w, status |-> "running",
              handed |-> HandsOver(j), afterRetry |-> retried[j]]
  IN  [n \in 1..AttemptNumber(j) |->
         IF n = AttemptNumber(j) THEN row ELSE attempts[j][n]]

(* The row condition shared by the reports of a worker. *)
Owns(j, w, S) == state[j] \in S /\ currentWorker[j] = w

ReleasesWorkerOnly(j) ==
  /\ currentWorker' = [currentWorker EXCEPT ![j] = None]
  /\ lease' = lease
ReleaseLease(j) ==
  /\ currentWorker' = [currentWorker EXCEPT ![j] = None]
  /\ lease' = [lease EXCEPT ![j] = "none"]

-----------------------------------------------------------------------------
Init ==
  /\ state = [j \in Jobs |-> "absent"]
  /\ currentWorker = [j \in Jobs |-> None]
  /\ lease = [j \in Jobs |-> "none"]
  /\ attemptCount = [j \in Jobs |-> 0]
  /\ artifact = [j \in Jobs |-> FALSE]
  /\ progress = [j \in Jobs |-> None]
  /\ due = [j \in Jobs |-> j \notin Deferred]
  /\ attempts = [j \in Jobs |-> <<>>]
  /\ retried = [j \in Jobs |-> FALSE]
  /\ everCancelled = {}

-----------------------------------------------------------------------------
(* Producer operations *)

Submit(j) ==
  /\ state[j] = "absent"
  /\ state' = [state EXCEPT ![j] = "pending"]
  /\ UNCHANGED <<currentWorker, lease, attemptCount, artifact, progress, due,
                 attempts, history>>

(* An anchor and its chunks in one transaction: all are inserted or none. *)
SubmitBatch(S) ==
  /\ S # {}
  /\ \A j \in S : state[j] = "absent"
  /\ state' = [j \in Jobs |-> IF j \in S THEN "pending" ELSE state[j]]
  /\ UNCHANGED <<currentWorker, lease, attemptCount, artifact, progress, due,
                 attempts, history>>

(* Cancelling a cancelled job is a no-op and a finished one is an error. *)
Cancel(j) ==
  /\ state[j] \notin TerminalStates \cup {"absent"}
  /\ state' = [state EXCEPT ![j] = "cancelled"]
  /\ ReleaseLease(j)
  /\ progress' = [progress EXCEPT ![j] = None]
  /\ attempts' = [attempts EXCEPT ![j] = FinishedAttempts(j, "cancelled")]
  /\ everCancelled' = everCancelled \cup {j}
  /\ UNCHANGED <<attemptCount, artifact, due, retried>>

Retry(j) ==
  /\ state[j] = "failed"
  /\ state' = [state EXCEPT ![j] = "pending"]
  /\ ReleaseLease(j)
  /\ progress' = [progress EXCEPT ![j] = None]
  /\ retried' = [retried EXCEPT ![j] = TRUE]
  /\ UNCHANGED <<attemptCount, artifact, due, attempts, everCancelled>>

-----------------------------------------------------------------------------
(* Claims *)

(* FOR UPDATE SKIP LOCKED: rows locked by concurrent transactions are        *)
(* passed over, so any eligible row may be the first unlocked one in         *)
(* queued_at order.                                                          *)
Eligible(j) ==
  /\ state[j] \in ClaimableStates
  /\ due[j]
  /\ ~HasChildren(j)

(* The JSONB columns are decoded before an attempt is created. *)
DecodesAnything(j) == TRUE
Decodes(j) == j \notin Corrupt

ClaimState(j, w) ==
  /\ Eligible(j)
  /\ Decodes(j)
  /\ AttemptNumber(j) <= AttemptCap
  /\ state' = [state EXCEPT ![j] = "running"]
  /\ currentWorker' = [currentWorker EXCEPT ![j] = w]
  /\ lease' = [lease EXCEPT ![j] = "live"]
  /\ attemptCount' = [attemptCount EXCEPT ![j] = AttemptNumber(j)]
  /\ attempts' = [attempts EXCEPT ![j] = CreatedAttempts(j, w)]
  /\ retried' = [retried EXCEPT ![j] = FALSE]
  /\ UNCHANGED <<artifact, progress, due, everCancelled>>

(* A claim that meets a corrupt row fails it instead of handing it out. *)
PoisonCorruptClaim(j) ==
  /\ Eligible(j)
  /\ j \in Corrupt
  /\ state' = [state EXCEPT ![j] = "failed"]
  /\ ReleaseLease(j)
  /\ attempts' = [attempts EXCEPT ![j] = FinishedAttempts(j, "failed")]
  /\ UNCHANGED <<attemptCount, artifact, progress, due, history>>

(* Reading a corrupt row fails it, whatever state it is in. *)
PoisonCorruptRead(j) ==
  /\ j \in Corrupt
  /\ state[j] # "absent"
  /\ state' = [state EXCEPT ![j] = "failed"]
  /\ ReleaseLease(j)
  /\ UNCHANGED <<attemptCount, artifact, progress, due, attempts, history>>

(* The finalizer of a worker takes an anchor (it only asks for one whose     *)
(* children it has read).  No attempt row and no attempt_count.  The handler *)
(* reads the row back, and that read poisons a corrupt row.                  *)
ClaimFinalization(j, w) ==
  /\ HasChildren(j)
  /\ state[j] \in {"pending", "running"}
  /\ IF j \in Corrupt
     THEN /\ state' = [state EXCEPT ![j] = "failed"]
          /\ ReleaseLease(j)
     ELSE /\ state' = [state EXCEPT ![j] = "finalizing"]
          /\ currentWorker' = [currentWorker EXCEPT ![j] = w]
          /\ lease' = [lease EXCEPT ![j] = "live"]
  /\ UNCHANGED <<attemptCount, artifact, progress, due, attempts, history>>

-----------------------------------------------------------------------------
(* Reports of the worker that holds the job *)

Complete(j, w) ==
  /\ Owns(j, w, HeldStates)
  /\ state' = [state EXCEPT ![j] = "completed"]
  /\ attempts' = [attempts EXCEPT ![j] = FinishedAttempts(j, "completed")]
  /\ artifact' = [artifact EXCEPT ![j] = TRUE]
  /\ UNCHANGED <<currentWorker, lease, attemptCount, progress, due, history>>

Rendered(j, w) ==
  /\ Owns(j, w, {"running"})
  /\ state' = [state EXCEPT ![j] = "rendered"]
  /\ ReleaseLease(j)
  /\ attempts' = [attempts EXCEPT ![j] = FinishedAttempts(j, "rendered")]
  /\ artifact' = [artifact EXCEPT ![j] = TRUE]
  /\ UNCHANGED <<attemptCount, progress, due, history>>

Fail(j, w) ==
  /\ Owns(j, w, {"running"})
  /\ state' = [state EXCEPT ![j] =
                 AfterLostAttempt(attemptCount[j])]
  /\ ReleaseLease(j)
  /\ attempts' = [attempts EXCEPT ![j] = FinishedAttempts(j, "failed")]
  /\ UNCHANGED <<attemptCount, artifact, progress, due, history>>

FailPermanently(j, w) ==
  /\ Owns(j, w, {"running"})
  /\ state' = [state EXCEPT ![j] = "failed"]
  /\ ReleaseLease(j)
  /\ attempts' = [attempts EXCEPT ![j] = FinishedAttempts(j, "failed")]
  /\ UNCHANGED <<attemptCount, artifact, progress, due, history>>

(* The lease is extended even when it has expired but was not yet swept. *)
Renew(j, w) ==
  /\ Owns(j, w, HeldStates)
  /\ lease' = [lease EXCEPT ![j] = "live"]
  /\ UNCHANGED <<state, currentWorker, attemptCount, artifact, progress, due,
                 attempts, history>>

SetProgress(j, w) ==
  /\ Owns(j, w, {"running"})
  /\ progress' = [progress EXCEPT ![j] = w]
  /\ UNCHANGED <<state, currentWorker, lease, attemptCount, artifact, due,
                 attempts, history>>

-----------------------------------------------------------------------------
(* Time and the sweeper *)

LeaseElapses(j) ==
  /\ lease[j] = "live"
  /\ lease' = [lease EXCEPT ![j] = "expired"]
  /\ UNCHANGED <<state, currentWorker, attemptCount, artifact, progress, due,
                 attempts, history>>

NotBeforePasses(j) ==
  /\ state[j] # "absent"
  /\ ~due[j]
  /\ due' = [due EXCEPT ![j] = TRUE]
  /\ UNCHANGED <<state, currentWorker, lease, attemptCount, artifact, progress,
                 attempts, history>>

SweepsRunningOnly == {"running"}
SweptStates == HeldStates

ExpiresAnyLease(j) == state[j] \in SweptStates /\ lease[j] # "none"
Expired(j) == state[j] \in SweptStates /\ lease[j] = "expired"

(* What a sweep leaves of the attempts of an expired job. *)
LeavesAttemptOpen(j) == attempts[j]
SweptAttempts(j) == FinishedAttempts(j, "lease_expired")

(* One sweep over the expired rows S it could lock. *)
RequeueExpired(S) ==
  /\ S # {}
  /\ \A j \in S : Expired(j)
  /\ state' = [j \in Jobs |-> IF j \in S THEN AfterLostAttempt(attemptCount[j])
                                         ELSE state[j]]
  /\ currentWorker' = [j \in Jobs |-> IF j \in S THEN None ELSE currentWorker[j]]
  /\ lease' = [j \in Jobs |-> IF j \in S THEN "none" ELSE lease[j]]
  /\ attempts' = [j \in Jobs |-> IF j \in S THEN SweptAttempts(j) ELSE attempts[j]]
  /\ UNCHANGED <<attemptCount, artifact, progress, due, history>>

-----------------------------------------------------------------------------
Next ==
  \/ \E j \in Jobs : Submit(j)
  \/ \E S \in SUBSET Jobs : SubmitBatch(S)
  \/ \E j \in Jobs : Cancel(j)
  \/ \E j \in Jobs : Retry(j)
  \/ \E j \in Jobs, w \in Workers : ClaimState(j, w)
  \/ \E j \in Jobs : PoisonCorruptClaim(j)
  \/ \E j \in Jobs : PoisonCorruptRead(j)
  \/ \E j \in Jobs, w \in Workers : ClaimFinalization(j, w)
  \/ \E j \in Jobs, w \in Workers : Complete(j, w)
  \/ \E j \in Jobs, w \in Workers : Rendered(j, w)
  \/ \E j \in Jobs, w \in Workers : Fail(j, w)
  \/ \E j \in Jobs, w \in Workers : FailPermanently(j, w)
  \/ \E j \in Jobs, w \in Workers : Renew(j, w)
  \/ \E j \in Jobs, w \in Workers : SetProgress(j, w)
  \/ \E j \in Jobs : LeaseElapses(j)
  \/ \E j \in Jobs : NotBeforePasses(j)
  \/ \E S \in SUBSET Jobs : RequeueExpired(S)

Spec == Init /\ [][Next]_vars

(* The sweeper runs on a ticker for the life of the process, and a row is    *)
(* locked by another transaction only while that transaction runs.           *)
SweepFairness ==
  \A j \in Jobs :
    WF_vars(\E S \in SUBSET Jobs : j \in S /\ RequeueExpired(S))

FairSpec == Spec /\ SweepFairness

-----------------------------------------------------------------------------
(* Properties *)

LeaseValues == {"none", "live", "expired"}

(* Every column keeps to its vocabulary. *)
TypeOK ==
  /\ state \in [Jobs -> States]
  /\ currentWorker \in [Jobs -> Workers \cup {None}]
  /\ lease \in [Jobs -> LeaseValues]
  /\ attemptCount \in [Jobs -> Nat]
  /\ artifact \in [Jobs -> BOOLEAN]
  /\ progress \in [Jobs -> Workers \cup {None}]
  /\ due \in [Jobs -> BOOLEAN]
  /\ attempts \in [Jobs -> Seq(AttemptRow)]
  /\ retried \in [Jobs -> BOOLEAN]
  /\ everCancelled \subseteq Jobs

(* render_attempts and render_jobs never disagree: the rows are numbered     *)
(* 1..attempt_count, only the last one can be running, a running job has a   *)
(* running attempt of the worker that holds it, and a job nobody holds has   *)
(* none.  finishAttempt silently updates no row when it finds no running     *)
(* attempt, so a slip here would go unnoticed in the code.                   *)
AttemptLedgerAgrees ==
  \A j \in Jobs :
    /\ Len(attempts[j]) = attemptCount[j]
    /\ \A n \in 1..Len(attempts[j]) :
         attempts[j][n].status = "running" =>
           n = Len(attempts[j]) /\ state[j] \in HeldStates
    /\ state[j] = "running" =>
         /\ attemptCount[j] > 0
         /\ attempts[j][attemptCount[j]].status = "running"
         /\ attempts[j][attemptCount[j]].worker = currentWorker[j]

(* A held job names its holder and has a lease the sweeper can see           *)
(* (RequeueExpired skips lease_until IS NULL), and a job back in the queue,  *)
(* failed or cancelled names nobody and holds no lease.                      *)
LeaseHasHolder ==
  \A j \in Jobs :
    /\ state[j] \in HeldStates =>
         currentWorker[j] \in Workers /\ lease[j] # "none"
    /\ state[j] \notin HeldStates \cup {"completed"} =>
         currentWorker[j] = None /\ lease[j] = "none"

(* A job whose artifact is durable is never rendered again: once an attempt  *)
(* ended as rendered, every later attempt is handed the stored artifact,     *)
(* through failures, lease expiries and explicit retries of the publication. *)
NoRenderAfterDurable ==
  \A j \in Jobs : \A n, m \in 1..Len(attempts[j]) :
    attempts[j][n].status = "rendered" /\ n < m => attempts[j][m].handed

(* max_attempts bounds the automatic retries: after an attempt numbered      *)
(* max_attempts or more has failed or lost its lease, only an explicit Retry *)
(* starts another one.                                                       *)
RetryBudgetHolds ==
  \A j \in Jobs : \A n \in 1..Len(attempts[j]) :
    /\ MaxAttempts > 0 /\ n >= MaxAttempts
    /\ attempts[j][n].status \in {"failed", "lease_expired"}
    /\ n < Len(attempts[j])
    => attempts[j][n + 1].afterRetry

(* A cancelled job never triggers a render again: whatever reads, retries,   *)
(* sweeps and claims follow, its attempts and its artifact stay as the       *)
(* cancel left them.                                                         *)
CancelIsFinal ==
  [][\A j \in everCancelled :
       attempts'[j] = attempts[j] /\ artifact'[j] = artifact[j]]_vars

(* The attempt history is append-only: a row that is closed never changes    *)
(* and no row is removed or handed to another worker.                        *)
AttemptsAppendOnly ==
  [][\A j \in Jobs :
       /\ Len(attempts'[j]) >= Len(attempts[j])
       /\ \A n \in 1..Len(attempts[j]) :
            /\ attempts'[j][n].worker = attempts[j][n].worker
            /\ attempts[j][n].status # "running" =>
                 attempts'[j][n] = attempts[j][n]]_vars

(* While a worker's lease is live, no one else becomes the holder of its     *)
(* job, unless the job is an anchor taken for finalization.                  *)
LiveLeaseIsExclusive ==
  [][\A j \in Jobs :
       /\ state[j] \in HeldStates
       /\ lease[j] = "live"
       /\ currentWorker'[j] # currentWorker[j]
       => \/ currentWorker'[j] = None /\ state'[j] \notin HeldStates
             /\ \A n \in 1..Len(attempts[j]) :
                  attempts'[j][n].status = "lease_expired" =>
                    attempts[j][n].status = "lease_expired"
          \/ HasChildren(j) /\ state[j] = "running"
               /\ state'[j] = "finalizing"]_vars

(* The row of a job as its life cycle. *)
PhaseOf(j) ==
  CASE state[j] \in ClaimableStates -> "queued"
    [] state[j] \in HeldStates -> "working"
    [] OTHER -> state[j]

HolderOf(j) == IF state[j] \in HeldStates THEN currentWorker[j] ELSE None

Lifecycle == INSTANCE JobLifecycle WITH
  phase  <- [j \in Jobs |-> PhaseOf(j)],
  holder <- [j \in Jobs |-> HolderOf(j)],
  tries  <- attemptCount,
  stored <- artifact

(* The PostgreSQL store implements the life cycle it promises: one holder    *)
(* per job in progress, no artifact lost, no way back from completed or      *)
(* cancelled, and automatic requeues only within max_attempts.               *)
ImplementsLifecycle == Lifecycle!Spec

(* A lease that expired is reclaimed by the sweeper or renewed by its        *)
(* holder, so that no crashed worker or finalizer keeps a job forever.       *)
ExpiredLeaseIsReclaimed ==
  \A j \in Jobs :
    LET Abandoned == state[j] \in HeldStates /\ lease[j] = "expired"
    IN  Abandoned ~> ~Abandoned
=============================================================================
