------------------------------ MODULE QueueApi ------------------------------
(***************************************************************************)
(* A job's way into the queue and its producer's wait for it: the manifest *)
(* that is expanded into jobs (renderinggen/internal/batch), SubmitAll,    *)
(* the client (queue/client), the handlers of POST /jobs and GET           *)
(* /jobs/{id} and /jobs/{id}/wait, and SubmitIdempotent of the PostgreSQL  *)
(* and of the in-memory repository.                                        *)
(*                                                                         *)
(* A job is its id, its plan (the assets included) and the idempotency key *)
(* made of both.  A fault is a database call that fails, a commit whose    *)
(* answer is lost, or an HTTP answer that never arrives.                   *)
(***************************************************************************)
EXTENDS Integers, Sequences, FiniteSets

CONSTANTS
  Producers,           \* processes that submit a manifest
  Manifests,           \* sequences of [id, plan (a sequence), language, defect]
  MaxRuns,             \* bound of the model: runs of one producer
  MaxFaults,           \* bound of the model: faults of a behaviour
  MaxStatusFailures    \* maxConsecutiveStatusFailures

ASSUME ApiAssumption == /\ MaxRuns \in Nat /\ MaxFaults \in Nat
                        /\ MaxStatusFailures \in Nat \ {0}

VARIABLES
  backend,   \* "postgres" or "memory"
  hasWait,   \* the queue has the route GET /jobs/{id}/wait
  rows,      \* the stored jobs, [id, key, plan]
  ended,     \* id -> "completed" or "failed", for the jobs that ended
  apiFaults,
  batch,     \* producer -> the manifest of its run
  tries,     \* producer -> its runs so far
  wave,      \* producer -> 1: the base jobs, 2: the bound language jobs
  place,        \* producer -> the job SubmitAll is at
  call,      \* producer -> where its call is, on the server or in the client
  answer,    \* producer -> status of the last answer
  told,      \* producer -> the jobs its run counts as Submitted or Existing
  waited,    \* producer -> its WaitTerminal: "none", "round", "poll" or how it ended
  failures,  \* producer -> consecutiveStatusFailures
  streak     \* producer -> answers 5xx since the last other one (for the property)

apiVars == <<backend, hasWait, rows, ended, apiFaults, batch, tries, wave, place, call, answer, told,
             waited, failures, streak>>

ApiInit ==
  /\ backend \in {"postgres", "memory"} /\ hasWait \in BOOLEAN
  /\ rows = {} /\ ended = << >> /\ apiFaults = 0
  /\ batch = [p \in Producers |-> << >>] /\ tries = [p \in Producers |-> 0]
  /\ wave = [p \in Producers |-> 1] /\ place = [p \in Producers |-> 1]
  /\ call = [p \in Producers |-> "idle"] /\ answer = [p \in Producers |-> "none"]
  /\ told = [p \in Producers |-> {}]
  /\ waited = [p \in Producers |-> "none"]
  /\ failures = [p \in Producers |-> 0] /\ streak = [p \in Producers |-> 0]

ApiFault == apiFaults < MaxFaults /\ apiFaults' = apiFaults + 1
NoApiFault == UNCHANGED apiFaults
Stored(id) == \E r \in rows : r.id = id

-----------------------------------------------------------------------------
(* The manifest *)

\* Expand and ExpandMultilingual: ids are unique and every plan has a shape.
ExpandsWell(m) ==
  /\ m # << >>
  /\ \A i, j \in DOMAIN m : i # j => m[i].id # m[j].id
  /\ \A i \in DOMAIN m : m[i].defect # "shape"

\* The key covers the content, the id only the place in the batch.
IdempotencyKey(j) == <<j.id, j.plan>>
Derived(j) == [id |-> j.id, plan |-> j.plan, key |-> IdempotencyKey(j), defect |-> j.defect]

\* BindOverlayJobs: the plan of a language job over the artifact of the base.
Bound(j) == [j EXCEPT !.plan = Append(@, "bound_base")]

\* ExpandMultilingual puts the base first, with no language, and the languages after it; what
\* the queue refuses in a job is in the content its key covers.
Entries == UNION {{m[i] : i \in DOMAIN m} : m \in Manifests}
Submittable == {Derived(j) : j \in Entries} \cup {Derived(Bound(j)) : j \in Entries}
ASSUME ManifestAssumption ==
  /\ Manifests \subseteq Seq(Entries)
  /\ \A m \in Manifests : m # << >> => ~m[1].language
  /\ \A m \in Manifests : \A i, k \in DOMAIN m : i < k /\ m[i].language => m[k].language
  /\ \A j, k \in Submittable : j.key = k.key => j.defect = k.defect

\* SubmitAll walks the base jobs, then the language jobs.
Bases(m) == Cardinality({i \in DOMAIN m : ~m[i].language})
WaveLength(m, w) == IF w = 1 THEN Bases(m) ELSE Len(m) - Bases(m)
WaveJob(m, w, n) == IF w = 1 THEN Derived(m[n]) ELSE Derived(Bound(m[Bases(m) + n]))
Current(p) == WaveJob(batch[p], wave[p], place[p])
BaseId(p) == batch[p][1].id

CallMoves(p, c) == call' = [call EXCEPT ![p] = c]
Answers(p, a) == CallMoves(p, "answered") /\ answer' = [answer EXCEPT ![p] = a]

StartRun(p) ==
  /\ call[p] \in {"idle", "ok", "error"} /\ tries[p] < MaxRuns /\ waited[p] \notin {"round", "poll"}
  /\ tries' = [tries EXCEPT ![p] = @ + 1]
  /\ \E m \in Manifests :
       /\ batch' = [batch EXCEPT ![p] = m]
       /\ CallMoves(p, IF ExpandsWell(m) THEN "send" ELSE "error")
  /\ wave' = [wave EXCEPT ![p] = 1] /\ place' = [place EXCEPT ![p] = 1]
  /\ told' = [told EXCEPT ![p] = {}] /\ answer' = [answer EXCEPT ![p] = "none"]
  /\ waited' = [waited EXCEPT ![p] = "none"]
  /\ UNCHANGED <<backend, hasWait, rows, ended, apiFaults, failures, streak>>

-----------------------------------------------------------------------------
(* POST /jobs *)

\* ValidateJobEnvelope refuses in the client; ValidateJobID and ValidateJobMetadata in
\* the handler, before anything is stored or replayed.
BadEnvelope(j) == j.defect = "envelope"
BadIdOrMetadata(j) == j.defect = "ingress"
PostJob(p) ==
  /\ call[p] = "send"
  /\ CASE BadEnvelope(Current(p)) -> CallMoves(p, "error") /\ UNCHANGED answer
       [] BadIdOrMetadata(Current(p)) -> Answers(p, "invalid")
       [] OTHER -> CallMoves(p, "select") /\ UNCHANGED answer
  /\ UNCHANGED <<backend, hasWait, rows, ended, apiFaults, batch, tries, wave, place, told, waited,
                 failures, streak>>

ByKey(k) == \E r \in rows : r.key = k
\* What Submit refuses: an id that is taken (ErrJobExists), and, as the database's
\* error, a key that is taken or a chunk that does not validate.
Taken(j) == Stored(j.id)
RefusedRow(j) == Taken(j) \/ ByKey(j.key) \/ j.defect = "chunk"
Row(j) == [id |-> j.id, key |-> j.key, plan |-> j.plan]

\* SubmitIdempotent of the PostgreSQL repository: select, insert, select again.
SelectByKey(p) ==
  /\ backend = "postgres" /\ call[p] = "select"
  /\ IF ByKey(Current(p).key) THEN Answers(p, "replayed") ELSE CallMoves(p, "insert") /\ UNCHANGED answer
  /\ UNCHANGED <<backend, hasWait, rows, ended, apiFaults, batch, tries, wave, place, told, waited,
                 failures, streak>>
InsertRow(p) ==
  /\ backend = "postgres" /\ call[p] = "insert"
  /\ IF RefusedRow(Current(p)) THEN CallMoves(p, "reselect") /\ UNCHANGED <<answer, rows>>
     ELSE rows' = rows \cup {Row(Current(p))} /\ Answers(p, "created")
  /\ UNCHANGED <<backend, hasWait, ended, apiFaults, batch, tries, wave, place, told, waited,
                 failures, streak>>
GivesUpWithoutLooking(p) == "unavailable"
WinnersRow(p) == IF ByKey(Current(p).key) THEN "replayed" ELSE "unavailable"
SelectAgain(p) ==
  /\ backend = "postgres" /\ call[p] = "reselect"
  /\ Answers(p, WinnersRow(p))
  /\ UNCHANGED <<backend, hasWait, rows, ended, apiFaults, batch, tries, wave, place, told, waited,
                 failures, streak>>
\* The transaction committed, but the repository was told it did not, or the row
\* cannot be read for the answer.
CommitIsLost(p) ==
  /\ backend = "postgres" /\ call[p] = "insert" /\ ApiFault
  /\ ~RefusedRow(Current(p)) /\ rows' = rows \cup {Row(Current(p))}
  /\ \/ CallMoves(p, "reselect") /\ UNCHANGED answer
     \/ Answers(p, "unavailable")
  /\ UNCHANGED <<backend, hasWait, ended, batch, tries, wave, place, told, waited,
                 failures, streak>>

\* SubmitIdempotent of the in-memory repository, under its lock.
SubmitInMemory(p) ==
  LET j == Current(p) IN
  /\ backend = "memory" /\ call[p] = "select"
  /\ CASE ByKey(j.key) -> Answers(p, "replayed") /\ UNCHANGED rows
       [] ~ByKey(j.key) /\ Taken(j) -> Answers(p, "conflict") /\ UNCHANGED rows
       [] ~ByKey(j.key) /\ ~Taken(j) /\ j.defect = "chunk" -> Answers(p, "unavailable") /\ UNCHANGED rows
       [] OTHER -> rows' = rows \cup {Row(j)} /\ Answers(p, "created")
  /\ UNCHANGED <<backend, hasWait, ended, apiFaults, batch, tries, wave, place, told, waited,
                 failures, streak>>

\* 409 is kept for the duplicate id: a failure of the storage is a 500.
ConflictForEverything == "conflict"
StorageFailureStatus == "unavailable"
StorageFails(p) ==
  /\ backend = "postgres" /\ ApiFault
  /\ \/ call[p] \in {"select", "reselect"} /\ Answers(p, StorageFailureStatus)
     \/ call[p] = "insert" /\ CallMoves(p, "reselect") /\ UNCHANGED answer
  /\ UNCHANGED <<backend, hasWait, rows, ended, batch, tries, wave, place, told, waited,
                 failures, streak>>

-----------------------------------------------------------------------------
(* SubmitAll *)

\* The next job; after the last one of the first wave, the wait for the base.
Proceeds(p, id) ==
  /\ told' = [told EXCEPT ![p] = @ \cup {id}]
  /\ IF place[p] < WaveLength(batch[p], wave[p]) THEN place' = [place EXCEPT ![p] = @ + 1] /\ CallMoves(p, "send")
     ELSE /\ UNCHANGED place
          /\ CallMoves(p, IF wave[p] = 1 /\ WaveLength(batch[p], 2) > 0 THEN "await" ELSE "ok")

ReadAnswer(p) ==
  /\ call[p] = "answered"
  /\ \/ answer[p] \in {"created", "replayed"} /\ Proceeds(p, Current(p).id)
     \/ answer[p] = "conflict" /\ CallMoves(p, "readback") /\ UNCHANGED <<told, place>>
     \/ answer[p] \in {"invalid", "unavailable"} /\ CallMoves(p, "error") /\ UNCHANGED <<told, place>>
  /\ UNCHANGED <<backend, hasWait, rows, ended, apiFaults, batch, tries, wave, answer, waited,
                 failures, streak>>
\* A job that exists must be readable.
ReadBack(p) ==
  /\ call[p] = "readback"
  /\ IF Stored(Current(p).id) THEN Proceeds(p, Current(p).id) ELSE CallMoves(p, "error") /\ UNCHANGED <<told, place>>
  /\ UNCHANGED <<backend, hasWait, rows, ended, apiFaults, batch, tries, wave, answer, waited,
                 failures, streak>>
\* The connection breaks, or a read fails: the run stops, whatever the server did.
RunBreaks(p) ==
  /\ call[p] \in {"select", "insert", "reselect", "answered", "readback", "await"} /\ ApiFault
  /\ CallMoves(p, "error")
  /\ UNCHANGED <<backend, hasWait, rows, ended, batch, tries, wave, place, answer, told, waited,
                 failures, streak>>

\* AwaitBase polls the base job; without an artifact there is nothing to overlay.
AwaitBase(p) ==
  /\ call[p] = "await" /\ (~Stored(BaseId(p)) \/ BaseId(p) \in DOMAIN ended)
  /\ IF Stored(BaseId(p)) /\ ended[BaseId(p)] = "completed"
     THEN wave' = [wave EXCEPT ![p] = 2] /\ place' = [place EXCEPT ![p] = 1] /\ CallMoves(p, "send")
     ELSE CallMoves(p, "error") /\ UNCHANGED <<wave, place>>
  /\ UNCHANGED <<backend, hasWait, rows, ended, apiFaults, batch, tries, answer, told, waited,
                 failures, streak>>

\* The queue and its workers bring a job to its end: JobQueue and WorkerPipeline.
JobEnds(id) ==
  /\ Stored(id) /\ id \notin DOMAIN ended
  /\ \E s \in {"completed", "failed"} :
       ended' = [i \in DOMAIN ended \cup {id} |-> IF i = id THEN s ELSE ended[i]]
  /\ UNCHANGED <<backend, hasWait, rows, apiFaults, batch, tries, wave, place, call, answer, told, waited,
                 failures, streak>>

-----------------------------------------------------------------------------
(* WaitTerminal *)

WaitEnds(p, how) == waited' = [waited EXCEPT ![p] = how]
Waits(p) == WaveJob(batch[p], wave[p], 1).id
WaitTerminal(p) ==
  /\ call[p] = "ok" /\ waited[p] = "none"
  /\ WaitEnds(p, "round")
  /\ failures' = [failures EXCEPT ![p] = 0] /\ streak' = [streak EXCEPT ![p] = 0]
  /\ UNCHANGED <<backend, hasWait, rows, ended, apiFaults, batch, tries, wave, place, call, answer, told>>

\* One long poll.  A 404 is the job's or the route's: the job's own page decides.
WaitRound(p) ==
  /\ waited[p] = "round"
  /\ CASE ~Stored(Waits(p)) -> WaitEnds(p, "notFound")
       [] Stored(Waits(p)) /\ ~hasWait -> WaitEnds(p, "poll")
       [] OTHER -> Waits(p) \in DOMAIN ended /\ WaitEnds(p, "terminal")
  /\ UNCHANGED <<backend, hasWait, rows, ended, apiFaults, batch, tries, wave, place, call, answer, told,
                 failures, streak>>
\* Whatever else goes wrong with the long poll, polling is tried.
WaitRoundFails(p) ==
  /\ waited[p] = "round" /\ ApiFault /\ WaitEnds(p, "poll")
  /\ UNCHANGED <<backend, hasWait, rows, ended, batch, tries, wave, place, call, answer, told,
                 failures, streak>>

KeepsCounting(p) == failures[p]
Forgiven(p) == 0
Poll(p) ==
  /\ waited[p] = "poll"
  /\ streak' = [streak EXCEPT ![p] = 0]
  /\ IF Stored(Waits(p)) /\ Waits(p) \in DOMAIN ended
     THEN WaitEnds(p, "terminal") /\ UNCHANGED failures
     ELSE failures' = [failures EXCEPT ![p] = Forgiven(p)] /\ UNCHANGED waited
  /\ UNCHANGED <<backend, hasWait, rows, ended, apiFaults, batch, tries, wave, place, call, answer, told>>
\* A 5xx is endured a few times in a row.
StatusUnavailable(p) ==
  /\ waited[p] = "poll" /\ ApiFault
  /\ failures' = [failures EXCEPT ![p] = @ + 1] /\ streak' = [streak EXCEPT ![p] = @ + 1]
  /\ IF failures[p] + 1 >= MaxStatusFailures THEN WaitEnds(p, "unavailable") ELSE UNCHANGED waited
  /\ UNCHANGED <<backend, hasWait, rows, ended, batch, tries, wave, place, call, answer, told>>
\* A broken connection is not.
PollBreaks(p) ==
  /\ waited[p] = "poll" /\ ApiFault /\ WaitEnds(p, "broken")
  /\ UNCHANGED <<backend, hasWait, rows, ended, batch, tries, wave, place, call, answer, told,
                 failures, streak>>

ApiNext ==
  \/ \E p \in Producers :
       \/ StartRun(p) \/ PostJob(p) \/ SelectByKey(p) \/ InsertRow(p) \/ SelectAgain(p)
       \/ CommitIsLost(p) \/ SubmitInMemory(p) \/ StorageFails(p)
       \/ ReadAnswer(p) \/ ReadBack(p) \/ RunBreaks(p) \/ AwaitBase(p)
       \/ WaitTerminal(p) \/ WaitRound(p) \/ WaitRoundFails(p)
       \/ Poll(p) \/ StatusUnavailable(p) \/ PollBreaks(p)
  \/ \E r \in rows : JobEnds(r.id)

ApiSpec == ApiInit /\ [][ApiNext]_apiVars

-----------------------------------------------------------------------------
(* Properties *)

\* What a producer is told is true, through replays, lost answers, uncertain commits
\* and concurrent submissions of one batch: a submission answered as new, replayed or
\* existing is stored (the 409 of a failed storage would silently drop the job); a
\* logical job is stored once; a submission that lost the race for its key is given
\* the winner's row, without a fault never an error; and a wait ends with the state
\* of a job that ended, or after as many failures in a row as the client endures.
SubmissionIsHonest ==
  /\ \A p \in Producers : \A id \in told[p] : Stored(id)
  /\ \A p \in Producers : call[p] = "answered" /\ answer[p] = "conflict" => Stored(Current(p).id)
  /\ \A r, s \in rows : r.id = s.id \/ r.key = s.key => r = s
  /\ \A p \in Producers :
       apiFaults = 0 /\ call[p] = "answered" /\ answer[p] = "unavailable" => ~ByKey(Current(p).key)
  /\ \A p \in Producers :
       /\ waited[p] = "terminal" => Waits(p) \in DOMAIN ended
       /\ waited[p] # "notFound"
       /\ waited[p] = "unavailable" => streak[p] >= MaxStatusFailures

\* idempotencyKey: an edited plan has a new key, and is a new job.  Where nothing
\* fails, a well-formed job that has been submitted is stored with its plan.
EditedPlanIsNewJob ==
  \A p \in Producers :
    apiFaults = 0 /\ call[p] = "answered" /\ Current(p).defect = "none" => Row(Current(p)) \in rows
=============================================================================
