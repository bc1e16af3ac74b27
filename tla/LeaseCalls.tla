----------------------------- MODULE LeaseCalls -----------------------------
(* The calls a worker makes under a lease, and the ledger they write.        *)
(*                                                                           *)
(* A loop of the worker claims a job over HTTP (queue/client/worker.go), the *)
(* server runs the claim as one transaction and reads the stored artifact    *)
(* after the commit, the loop renders or only publishes, and it reports with *)
(* complete, rendered or fail, each of which is one transaction that moves   *)
(* the row, closes the attempt, records an event and persists the artifact,  *)
(* its metrics and its telemetry (postgres/finalize.go, artifacts.go).  A    *)
(* call may fail before it commits, and its answer may be lost after it; the *)
(* lease may elapse under the worker; a producer reads the job in four       *)
(* statements that no transaction joins.                                     *)
(*                                                                           *)
(* A render is named by the attempt that made it.  JobQueue has the other    *)
(* transitions of a row; a request the client gave up is finished by the     *)
(* server before the same loop sends its next one.                           *)
EXTENDS Naturals, Sequences, FiniteSets

CONSTANTS LeaseJobs,      \* job ids
          Loops,          \* the loops that claim: one job at a time each
          Processes,      \* ways the loops may be spread: functions [Loops -> worker ids]
          TryBudget,      \* max_attempts of a job
          MaxTries,       \* bound: claims of one job, for each way the loops are spread
          MaxCallFaults,  \* bound: failed calls, lost answers, deaths
          Nobody          \* NULL in current_worker_id

VARIABLES workerOf,   \* the worker id of each loop: the loops of one process share it
          leased,     \* [LeaseJobs -> the row of render_jobs]
          filed,      \* [LeaseJobs -> at most one row of render_artifacts]
          measured,   \* [LeaseJobs -> rows of processing_metrics, in order]
          traces,     \* [LeaseJobs -> rows of render_telemetry, in order]
          happened,   \* [LeaseJobs -> rows of render_events, in order, renewals left out]
          loop,       \* [Loops -> what the loop does]
          shown,      \* what the producer's GET /jobs/{id} has read
          mixed,      \* history: jobs that took a render of an attempt that was over
          callFaults

leaseVars == <<workerOf, leased, filed, measured, traces, happened, loop, shown, mixed, callFaults>>

NoRender == 0
NoArtifact == [key |-> NoRender, link |-> NoRender, metrics |-> NoRender, trace |-> NoRender]
IdleLoop == [at |-> "idle", op |-> "none", stage |-> "none", answer |-> "none", job |-> "none", attempt |-> 0,
             workspace |-> FALSE, art |-> NoArtifact, claimed |-> NoArtifact]
NothingShown == [at |-> "row", job |-> "none", state |-> "none", art |-> NoArtifact]

LeaseInit ==
  /\ workerOf \in Processes
  /\ leased = [j \in LeaseJobs |-> [state |-> "pending", holder |-> Nobody, attempt |-> 0, linked |-> FALSE, late |-> FALSE]]
  /\ filed = [j \in LeaseJobs |-> <<>>]
  /\ measured = [j \in LeaseJobs |-> <<>>] /\ traces = [j \in LeaseJobs |-> <<>>]
  /\ happened = [j \in LeaseJobs |-> <<>>]
  /\ loop = [r \in Loops |-> IdleLoop]
  /\ shown = NothingShown
  /\ mixed = {}
  /\ callFaults = 0

CallFault == callFaults < MaxCallFaults /\ callFaults' = callFaults + 1
NoCallFault == UNCHANGED callFaults
filedVars == <<filed, measured, traces>>

Newest(rows) == IF rows = <<>> THEN NoRender ELSE rows[Len(rows)]
Happens(j, type, attempt) == happened' = [happened EXCEPT ![j] = Append(@, [type |-> type, attempt |-> attempt])]

-----------------------------------------------------------------------------
(* The row.                                                                  *)

Closes(j, state) ==
  leased' = [leased EXCEPT ![j] = [@ EXCEPT !.state = state, !.holder = Nobody, !.late = FALSE]]

IgnoresTheHolder(r) == leased[loop[r].job].state = "running"
\* A transition is taken for the worker that holds the row; the attempt is not asked for.
OwnedBy(r) == leased[loop[r].job].state = "running" /\ leased[loop[r].job].holder = workerOf[r]

AfterFailure(j) == IF leased[j].attempt >= TryBudget THEN "failed" ELSE "pending"
FailureEvent(j) == IF leased[j].attempt >= TryBudget THEN "job_failed" ELSE "job_requeued"

-----------------------------------------------------------------------------
(* The claim: POST /jobs/claim/wait.                                         *)

StartClaim(r) ==
  /\ loop[r].at = "idle"
  /\ loop' = [loop EXCEPT ![r] = [IdleLoop EXCEPT !.at = "call", !.op = "claim", !.stage = "sent"]]
  /\ NoCallFault /\ UNCHANGED <<leased, filedVars, happened, shown, mixed, workerOf>>

Sent(r, op) == loop[r].at = "call" /\ loop[r].op = op /\ loop[r].stage = "sent"
Answered(r, answer) == loop' = [loop EXCEPT ![r] = [@ EXCEPT !.stage = "answered", !.answer = answer]]

Claimable(j) == leased[j].state \in {"pending", "rendered"}

\* The claim commits; the artifact of a linked row is read afterwards.
ClaimRow(r, j) ==
  /\ Sent(r, "claim") /\ Claimable(j) /\ leased[j].attempt < MaxTries[workerOf]
  /\ leased' = [leased EXCEPT ![j] = [@ EXCEPT !.state = "running", !.holder = workerOf[r],
                                               !.attempt = leased[j].attempt + 1, !.late = FALSE]]
  /\ Happens(j, "job_claimed", leased[j].attempt + 1)
  /\ loop' = [loop EXCEPT ![r] = [@ EXCEPT !.job = j, !.attempt = leased[j].attempt + 1,
                                   !.stage = IF leased[j].linked THEN "reading" ELSE "answered",
                                   !.answer = IF leased[j].linked THEN "none" ELSE "ok"]]
  /\ NoCallFault /\ UNCHANGED <<filedVars, shown, mixed, workerOf>>

\* 204: nothing to claim, or the operation's own deadline.
NothingToClaim(r) ==
  /\ Sent(r, "claim")
  /\ \/ (\A j \in LeaseJobs : ~Claimable(j)) /\ NoCallFault
     \/ CallFault
  /\ Answered(r, "empty")
  /\ UNCHANGED <<leased, filedVars, happened, shown, mixed, workerOf>>

\* getArtifact, outside the transaction: the row, the metrics and the telemetry.
StoredArtifact(j) ==
  [filed[j][1] EXCEPT !.metrics = Newest(measured[j]), !.trace = Newest(traces[j])]
ReadArtifact(r) ==
  /\ loop[r].stage = "reading"
  /\ loop' = [loop EXCEPT ![r] = [@ EXCEPT !.stage = "answered", !.answer = "ok", !.claimed = StoredArtifact(loop[r].job)]]
  /\ NoCallFault /\ UNCHANGED <<leased, filedVars, happened, shown, mixed, workerOf>>
\* The read fails after the commit: 500, and the row is leased to a worker that does not know.
ReadArtifactFails(r) ==
  /\ loop[r].stage = "reading" /\ CallFault /\ Answered(r, "error")
  /\ UNCHANGED <<leased, filedVars, happened, shown, mixed, workerOf>>

RendersAgain(r) ==
  IF loop[r].answer # "ok" THEN IdleLoop
  ELSE [loop[r] EXCEPT !.at = "prep", !.op = "none", !.stage = "none", !.answer = "none", !.claimed = NoArtifact]
\* A claim that brings an artifact is a publication only; its metrics are not sent again.
TakesUp(r) ==
  IF loop[r].answer # "ok" THEN IdleLoop
  ELSE LET base == [loop[r] EXCEPT !.op = "none", !.stage = "none", !.answer = "none"]
       IN IF loop[r].claimed = NoArtifact
          THEN [base EXCEPT !.at = "prep"]
          ELSE [base EXCEPT !.at = "upload", !.art = [loop[r].claimed EXCEPT !.metrics = NoRender]]
ConcludeClaim(r) ==
  /\ loop[r].at = "call" /\ loop[r].op = "claim" /\ loop[r].stage = "answered"
  /\ loop' = [loop EXCEPT ![r] = TakesUp(r)]
  /\ NoCallFault /\ UNCHANGED <<leased, filedVars, happened, shown, mixed, workerOf>>

-----------------------------------------------------------------------------
(* The work under the lease.                                                 *)

Sends(r, op, art) ==
  loop' = [loop EXCEPT ![r] = [@ EXCEPT !.at = "call", !.op = op, !.stage = "sent", !.answer = "none", !.art = art]]

\* A loop keeps its workspace until its report is answered; one process opens one per job.
WorkspaceIsHeld(r) ==
  \E s \in Loops \ {r} : loop[s].workspace /\ loop[s].job = loop[r].job /\ workerOf[s] = workerOf[r]

OpenWorkspace(r) ==
  /\ loop[r].at = "prep" /\ ~WorkspaceIsHeld(r)
  /\ loop' = [loop EXCEPT ![r] = [@ EXCEPT !.at = "gpu", !.workspace = TRUE]]
  /\ NoCallFault /\ UNCHANGED <<leased, filedVars, happened, shown, mixed, workerOf>>
PrepareFails(r) ==
  /\ loop[r].at = "prep" /\ (IF WorkspaceIsHeld(r) THEN NoCallFault ELSE CallFault)
  /\ Sends(r, "fail", NoArtifact)
  /\ UNCHANGED <<leased, filedVars, happened, shown, mixed, workerOf>>

\* The bytes are in the object store; the telemetry sidecar may be missing.
FinishRender(r) ==
  /\ loop[r].at = "gpu"
  /\ \E traced \in BOOLEAN :
       loop' = [loop EXCEPT ![r] = [@ EXCEPT !.at = "post",
                  !.art = [key |-> loop[r].attempt, link |-> NoRender, metrics |-> loop[r].attempt,
                           trace |-> IF traced THEN loop[r].attempt ELSE NoRender]]]
  /\ NoCallFault /\ UNCHANGED <<leased, filedVars, happened, shown, mixed, workerOf>>
RenderFails(r) ==
  /\ loop[r].at = "gpu" /\ CallFault /\ Sends(r, "fail", NoArtifact)
  /\ UNCHANGED <<leased, filedVars, happened, shown, mixed, workerOf>>

PublishArtifact(r) ==
  /\ loop[r].at \in {"post", "upload"}
  /\ Sends(r, "complete", [loop[r].art EXCEPT !.link = loop[r].art.key])
  /\ NoCallFault /\ UNCHANGED <<leased, filedVars, happened, shown, mixed, workerOf>>

\* ReportFailure: the artifact of the claim, or the one the post pool holds.
DurableArtifact(r) == IF loop[r].claimed # NoArtifact THEN loop[r].claimed ELSE loop[r].art
PublishFails(r) ==
  /\ loop[r].at \in {"post", "upload"} /\ CallFault
  /\ Sends(r, "rendered", DurableArtifact(r))
  /\ UNCHANGED <<leased, filedVars, happened, shown, mixed, workerOf>>

\* The renewal runs beside the work.  Every error of the call is a 409, and a 409 ends
\* the work: in the hand-off silently, later with a report.
Aborts(r) ==
  CASE loop[r].at = "prep" -> loop' = [loop EXCEPT ![r] = IdleLoop]
    [] loop[r].at = "gpu" -> Sends(r, "fail", NoArtifact)
    [] OTHER -> Sends(r, "rendered", DurableArtifact(r))
Working(r) == loop[r].at \in {"prep", "gpu", "post", "upload"}
RenewLease(r) ==
  /\ Working(r) /\ OwnedBy(r) /\ leased[loop[r].job].late
  /\ leased' = [leased EXCEPT ![loop[r].job].late = FALSE]
  /\ NoCallFault /\ UNCHANGED <<filedVars, happened, loop, shown, mixed, workerOf>>
RenewConflicts(r) ==
  /\ Working(r) /\ (IF OwnedBy(r) THEN CallFault ELSE NoCallFault)
  /\ Aborts(r)
  /\ UNCHANGED <<leased, filedVars, happened, shown, mixed, workerOf>>

-----------------------------------------------------------------------------
(* The reports: POST /jobs/{id}/complete, rendered and fail.                 *)

IsReport(op) == op \in {"complete", "rendered", "fail"}
ReportSent(r) == loop[r].at = "call" /\ IsReport(loop[r].op) /\ loop[r].stage = "sent"

DropsTheLink(stored, art) ==
  IF stored = <<>> THEN <<[art EXCEPT !.metrics = NoRender, !.trace = NoRender]>> ELSE stored
\* ON CONFLICT (id): only the link of the stored row is replaced.
Upserted(stored, art) ==
  IF stored = <<>> THEN <<[art EXCEPT !.metrics = NoRender, !.trace = NoRender]>>
  ELSE <<[stored[1] EXCEPT !.link = art.link]>>
AppendRender(rows, render) == IF render = NoRender THEN rows ELSE Append(rows, render)
Persist(j, art) ==
  /\ filed' = [filed EXCEPT ![j] = Upserted(@, art)]
  /\ measured' = [measured EXCEPT ![j] = AppendRender(@, art.metrics)]
  /\ traces' = [traces EXCEPT ![j] = AppendRender(@, art.trace)]

\* Complete leaves the worker on the row; the other transitions clear it.
Transition(r, j) ==
  \/ /\ loop[r].op = "complete"
     /\ leased' = [leased EXCEPT ![j] = [@ EXCEPT !.state = "completed", !.linked = TRUE]]
     /\ Happens(j, "job_completed", leased[j].attempt) /\ Persist(j, loop[r].art)
  \/ /\ loop[r].op = "rendered"
     /\ leased' = [leased EXCEPT ![j] = [@ EXCEPT !.state = "rendered", !.linked = TRUE, !.holder = Nobody, !.late = FALSE]]
     /\ Happens(j, "job_rendered", leased[j].attempt) /\ Persist(j, loop[r].art)
  \/ /\ loop[r].op = "fail"
     /\ Closes(j, AfterFailure(j)) /\ Happens(j, FailureEvent(j), leased[j].attempt)
     /\ UNCHANGED filedVars

\* A render of an attempt that is over is taken for the one at work: the row is held under
\* the same id, by another loop of the process.
IsMistaken(r) ==
  /\ loop[r].op # "fail" /\ loop[r].claimed = NoArtifact
  /\ loop[r].attempt # leased[loop[r].job].attempt /\ leased[loop[r].job].holder = workerOf[r]
ReportCommits(r) ==
  /\ ReportSent(r) /\ OwnedBy(r)
  /\ Transition(r, loop[r].job)
  /\ Answered(r, "ok")
  /\ mixed' = IF IsMistaken(r) THEN mixed \cup {loop[r].job} ELSE mixed
  /\ NoCallFault /\ UNCHANGED <<shown, workerOf>>
\* Not the owner, or the storage failed and the transaction was rolled back.
ReportConflicts(r) ==
  /\ ReportSent(r) /\ (IF OwnedBy(r) THEN CallFault ELSE NoCallFault)
  /\ Answered(r, "conflict")
  /\ UNCHANGED <<leased, filedVars, happened, shown, mixed, workerOf>>
\* The answer of a call, whatever it did, does not arrive.
AnswerIsLost(r) ==
  /\ loop[r].at = "call" /\ loop[r].stage = "answered" /\ loop[r].answer = "ok" /\ CallFault
  /\ Answered(r, "error")
  /\ UNCHANGED <<leased, filedVars, happened, shown, mixed, workerOf>>

\* A completion that was not accepted falls back to rendered; any other report is sent once.
FallsBack(r) == loop[r].op = "complete" /\ loop[r].answer # "ok"
ConcludeReport(r) ==
  /\ loop[r].at = "call" /\ IsReport(loop[r].op) /\ loop[r].stage = "answered"
  /\ IF FallsBack(r) THEN Sends(r, "rendered", DurableArtifact(r)) ELSE loop' = [loop EXCEPT ![r] = IdleLoop]
  /\ NoCallFault /\ UNCHANGED <<leased, filedVars, happened, shown, mixed, workerOf>>

\* The process dies with every loop of its id.
WorkerDies(w) ==
  /\ CallFault /\ \E r \in Loops : workerOf[r] = w /\ loop[r].at # "idle"
  /\ loop' = [r \in Loops |-> IF workerOf[r] = w THEN IdleLoop ELSE loop[r]]
  /\ UNCHANGED <<leased, filedVars, happened, shown, mixed, workerOf>>

-----------------------------------------------------------------------------
(* The queue's own transitions, and the producer.                            *)

LeaseRunsOut(j) ==
  /\ leased[j].state = "running" /\ ~leased[j].late
  /\ leased' = [leased EXCEPT ![j].late = TRUE]
  /\ NoCallFault /\ UNCHANGED <<filedVars, happened, loop, shown, mixed, workerOf>>
ExpiresSilently(j) ==
  /\ leased[j].state = "running" /\ leased[j].late
  /\ Closes(j, AfterFailure(j))
  /\ NoCallFault /\ UNCHANGED <<filedVars, happened, loop, shown, mixed, workerOf>>
SweepExpired(j) ==
  /\ leased[j].state = "running" /\ leased[j].late
  /\ Closes(j, AfterFailure(j)) /\ Happens(j, FailureEvent(j), leased[j].attempt)
  /\ NoCallFault /\ UNCHANGED <<filedVars, loop, shown, mixed, workerOf>>
CancelJob(j) ==
  /\ leased[j].state \in {"pending", "running", "rendered"}
  /\ Closes(j, "cancelled")
  /\ Happens(j, "job_cancelled", IF leased[j].state = "running" THEN leased[j].attempt ELSE 0)
  /\ NoCallFault /\ UNCHANGED <<filedVars, loop, shown, mixed, workerOf>>

\* GET /jobs/{id}: the row, then the artifact it links, its metrics and its telemetry.
\* A row without an artifact is answered as it is.
GetRow(j) ==
  /\ shown.at = "row" /\ leased[j].linked
  /\ shown' = [NothingShown EXCEPT !.at = "artifact", !.job = j, !.state = leased[j].state]
  /\ NoCallFault /\ UNCHANGED <<leased, filedVars, happened, loop, mixed, workerOf>>
GetStored ==
  /\ \/ shown.at = "artifact" /\ shown' = [shown EXCEPT !.at = "metrics", !.art = filed[shown.job][1]]
     \/ shown.at = "metrics" /\ shown' = [shown EXCEPT !.at = "trace", !.art.metrics = Newest(measured[shown.job])]
     \/ shown.at = "trace" /\ shown' = [shown EXCEPT !.at = "served", !.art.trace = Newest(traces[shown.job])]
     \/ shown.at = "served" /\ shown' = NothingShown
  /\ NoCallFault /\ UNCHANGED <<leased, filedVars, happened, loop, mixed, workerOf>>

-----------------------------------------------------------------------------
LoopStep(r) ==
  \/ StartClaim(r) \/ (\E j \in LeaseJobs : ClaimRow(r, j)) \/ NothingToClaim(r)
  \/ ReadArtifact(r) \/ ReadArtifactFails(r) \/ ConcludeClaim(r)
  \/ OpenWorkspace(r) \/ PrepareFails(r) \/ FinishRender(r) \/ RenderFails(r)
  \/ PublishArtifact(r) \/ PublishFails(r) \/ RenewLease(r) \/ RenewConflicts(r)
  \/ ReportCommits(r) \/ ReportConflicts(r) \/ AnswerIsLost(r) \/ ConcludeReport(r)
JobStep(j) == LeaseRunsOut(j) \/ SweepExpired(j) \/ CancelJob(j) \/ GetRow(j)
LeaseNext ==
  \/ \E r \in Loops : LoopStep(r)
  \/ \E w \in {workerOf[r] : r \in Loops} : WorkerDies(w)
  \/ \E j \in LeaseJobs : JobStep(j)
  \/ GetStored

LeaseSpec == LeaseInit /\ [][LeaseNext]_leaseVars

-----------------------------------------------------------------------------
(* Properties.                                                               *)

OneRender(art) == {art.link, art.metrics, art.trace} \subseteq {NoRender, art.key}

\* The stored artifact, its link, its metrics and its telemetry come from one render,
\* whichever attempts wrote them (insertArtifact keeps the first key and replaces the link,
\* getArtifact serves the newest metrics and telemetry), and so does what a producer reads
\* in four statements while reports commit in between.  Left out are the jobs of which a
\* render was accepted after its attempt was over, which only another loop of the same
\* worker id that holds the row by then can bring about (finalize.go asks for the id alone).
LedgerIsOneRender ==
  /\ \A j \in LeaseJobs \ mixed : filed[j] # <<>> => OneRender(StoredArtifact(j))
  /\ shown.at = "served" /\ shown.job \notin mixed => OneRender(shown.art)

\* A completed row is linked to an artifact that was published and measured, also for the
\* producer that read the row before the artifact.
CompletedIsPublished ==
  /\ \A j \in LeaseJobs :
       leased[j].state = "completed" => /\ leased[j].linked /\ filed[j] # <<>>
                                        /\ StoredArtifact(j).link # NoRender /\ StoredArtifact(j).metrics # NoRender
  /\ shown.at = "served" /\ shown.state = "completed" => shown.art.link # NoRender /\ shown.art.metrics # NoRender

\* A completion the worker was told is accepted is the one the row serves, but for those jobs.
AcceptedIsServed ==
  \A r \in Loops :
    loop[r].op = "complete" /\ loop[r].answer = "ok" /\ loop[r].job \notin mixed =>
      /\ leased[loop[r].job].state = "completed"
      /\ StoredArtifact(loop[r].job).key = loop[r].art.key

\* The events of a job tell its row: every attempt is claimed, in order, and followed by
\* what ended it; a job cancelled between two attempts has one event more; and the last
\* event is the state the row is in.
Says == [job_claimed |-> "running", job_completed |-> "completed", job_rendered |-> "rendered",
         job_requeued |-> "pending", job_failed |-> "failed", job_cancelled |-> "cancelled"]
AttemptsOver(j) == IF leased[j].state = "running" THEN leased[j].attempt - 1 ELSE leased[j].attempt
EventsTell(told, begun, over, state) ==
  /\ Len(told) - (begun + over) \in {0, 1}
  /\ \A a \in 1..begun : told[2 * a - 1] = [type |-> "job_claimed", attempt |-> a]
  /\ \A a \in 1..over : told[2 * a].type # "job_claimed" /\ told[2 * a].attempt = a
  /\ Len(told) > begun + over => told[Len(told)] = [type |-> "job_cancelled", attempt |-> 0]
  /\ state = (IF told = <<>> THEN "pending" ELSE Says[told[Len(told)].type])
EventsTellTheRow ==
  \A j \in LeaseJobs : EventsTell(happened[j], leased[j].attempt, AttemptsOver(j), leased[j].state)

(* The tables that the reports of several attempts write tell one story,     *)
(* whichever calls failed, lost their answer or came after the lease, and    *)
(* however the loops are spread over processes: one render, published when   *)
(* completed, the one the worker was told of, and the events that led to it. *)
LedgerIsSound == LedgerIsOneRender /\ CompletedIsPublished /\ AcceptedIsServed /\ EventsTellTheRow
=============================================================================
