---------------------------- MODULE QueueDaemon ----------------------------
(***************************************************************************)
(* The queue daemon around its jobs (queue/cmd/queued): the choice of the  *)
(* storage, the migrations that concurrent replicas apply when they start  *)
(* (queue/internal/migrate), the drain when they stop, the registry of     *)
(* workers with the health that is derived from their heartbeats           *)
(* (queue/internal/model/liveness.go, service/workers.go).                 *)
(*                                                                         *)
(* Time is counted in units of the heartbeat age; an age past the window   *)
(* stays at the first unit past it.                                        *)
(***************************************************************************)
EXTENDS Integers, Sequences, FiniteSets

CONSTANTS
  Replicas,       \* queue daemons over one database
  Migrations,     \* number of migration files
  FleetWorkers,   \* worker ids
  StaleAfter,     \* -worker-stale-after
  NoAge           \* a worker that is not registered

ASSUME DaemonAssumption ==
  /\ Migrations \in Nat /\ StaleAfter \in Int /\ NoAge \notin Int
  /\ "nobody" \notin Replicas

VARIABLES
  flag,       \* -backend and whether a DSN is configured
  life,       \* replica -> "boot", "waiting", "migrating", "serving", "draining", "exited", "fatal"
  store,      \* replica -> "none", "postgres" or "memory"
  locked,     \* the replica that holds the advisory lock, or "nobody"
  known,      \* replica -> appliedVersions, as read under the lock
  schema,     \* the migrations the database has gone through, in order
  ledger,     \* schema_migrations
  inflight,   \* replica -> requests being served
  cut,        \* replica -> requests that were closed without an answer
  code,       \* replica -> exit code, 0 before it
  db,         \* "up" or "down"
  reportedAs, \* worker -> its reported status
  age,        \* worker -> age of its last heartbeat, or NoAge
  gauges      \* WorkersReady, WorkersDegraded, WorkersStale, WorkersOffline

fleetVars == <<db, reportedAs, age, gauges>>
bootVars == <<flag, life, store, locked, known, schema, ledger, inflight, cut, code>>
daemonVars == <<bootVars, fleetVars>>

NoGauges == [ready |-> 0, degraded |-> 0, stale |-> 0, offline |-> 0]

DaemonInit ==
  /\ flag \in [backend : {"auto", "postgres", "memory", "other"}, dsn : BOOLEAN]
  /\ life = [r \in Replicas |-> "boot"] /\ store = [r \in Replicas |-> "none"]
  /\ locked = "nobody" /\ known = [r \in Replicas |-> {}] /\ schema = << >> /\ ledger = {}
  /\ inflight = [r \in Replicas |-> 0] /\ cut = [r \in Replicas |-> 0] /\ code = [r \in Replicas |-> 0]
  /\ db = "up" /\ reportedAs = [w \in FleetWorkers |-> "unknown"] /\ age = [w \in FleetWorkers |-> NoAge]
  /\ gauges = NoGauges

Becomes(r, where) == life' = [life EXCEPT ![r] = where]
Exits(r, c) == Becomes(r, IF c = 0 THEN "exited" ELSE "fatal") /\ code' = [code EXCEPT ![r] = c]

-----------------------------------------------------------------------------
(* Start *)

\* A known backend; the explicit PostgreSQL needs a DSN, and auto uses one.
SelectedBackend ==
  CASE flag.backend = "other" \/ (flag.backend = "postgres" /\ ~flag.dsn) -> "none"
    [] flag.backend = "postgres" \/ (flag.backend = "auto" /\ flag.dsn) -> "postgres"
    [] OTHER -> "memory"
Boot(r) ==
  /\ life[r] = "boot"
  /\ \/ SelectedBackend = "none" /\ Exits(r, 1) /\ UNCHANGED store
     \/ /\ SelectedBackend # "none" /\ store' = [store EXCEPT ![r] = SelectedBackend] /\ UNCHANGED code
        /\ Becomes(r, IF SelectedBackend = "postgres" THEN "waiting" ELSE "serving")
  /\ UNCHANGED <<flag, locked, known, schema, ledger, inflight, cut, fleetVars>>

\* Apply: one replica at a time, which reads the ledger once it has the lock.
NobodyWaits == TRUE
LockIsFree == locked = "nobody"
Lock(r) ==
  /\ life[r] = "waiting" /\ db = "up" /\ LockIsFree
  /\ locked' = r /\ known' = [known EXCEPT ![r] = ledger] /\ Becomes(r, "migrating")
  /\ UNCHANGED <<flag, store, schema, ledger, inflight, cut, code, fleetVars>>

\* applyOne: the script and its line of the ledger in one transaction.  The line of
\* a migration that is there already makes the transaction, and the start, fail.
Pending(r) == {m \in 1..Migrations : m \notin known[r]}
NextPending(r) == CHOOSE m \in Pending(r) : \A n \in Pending(r) : m <= n
ApplyOne(r) ==
  /\ life[r] = "migrating" /\ db = "up" /\ Pending(r) # {}
  /\ LET m == NextPending(r) IN
     IF m \in ledger
     THEN /\ Exits(r, 1) /\ locked' = IF locked = r THEN "nobody" ELSE locked
          /\ UNCHANGED <<schema, ledger, known>>
     ELSE /\ schema' = Append(schema, m) /\ ledger' = ledger \cup {m}
          /\ known' = [known EXCEPT ![r] = @ \cup {m}]
          /\ UNCHANGED <<life, code, locked>>
  /\ UNCHANGED <<flag, store, inflight, cut, fleetVars>>
Migrated(r) ==
  /\ life[r] = "migrating" /\ Pending(r) = {}
  /\ Becomes(r, "serving") /\ locked' = IF locked = r THEN "nobody" ELSE locked
  /\ UNCHANGED <<flag, store, known, schema, ledger, inflight, cut, code, fleetVars>>

\* The process dies, or the database does not answer in time: the session, and the
\* lock with it, is gone, and what was not committed is undone.  Code 2 tells this
\* end from the ones the daemon decides itself.
StartFails(r) ==
  /\ life[r] \in {"waiting", "migrating"}
  /\ Exits(r, 2) /\ locked' = IF locked = r THEN "nobody" ELSE locked
  /\ UNCHANGED <<flag, store, known, schema, ledger, inflight, cut, fleetVars>>
Restart(r) ==
  /\ life[r] = "fatal" /\ code[r] = 2
  /\ Becomes(r, "boot") /\ code' = [code EXCEPT ![r] = 0] /\ known' = [known EXCEPT ![r] = {}]
  /\ UNCHANGED <<flag, store, locked, schema, ledger, inflight, cut, fleetVars>>

-----------------------------------------------------------------------------
(* Stop *)

RequestArrives(r) ==
  /\ life[r] = "serving" /\ inflight[r] = 0 /\ inflight' = [inflight EXCEPT ![r] = 1]
  /\ UNCHANGED <<flag, life, store, locked, known, schema, ledger, cut, code, fleetVars>>
RequestAnswered(r) ==
  /\ life[r] \in {"serving", "draining"} /\ inflight[r] = 1 /\ inflight' = [inflight EXCEPT ![r] = 0]
  /\ UNCHANGED <<flag, life, store, locked, known, schema, ledger, cut, code, fleetVars>>
Terminated(r) ==
  /\ life[r] = "serving" /\ Becomes(r, "draining")
  /\ UNCHANGED <<flag, store, locked, known, schema, ledger, inflight, cut, code, fleetVars>>
Drained(r) ==
  /\ life[r] = "draining" /\ inflight[r] = 0 /\ Exits(r, 0)
  /\ UNCHANGED <<flag, store, locked, known, schema, ledger, inflight, cut, fleetVars>>
\* A drain that misses its deadline closes the connections, and says so.
SwallowsTheDeadline == 0
MissedDeadlineCode == 1
DrainTimesOut(r) ==
  /\ life[r] = "draining" /\ inflight[r] > 0
  /\ cut' = [cut EXCEPT ![r] = inflight[r]] /\ inflight' = [inflight EXCEPT ![r] = 0]
  /\ Exits(r, MissedDeadlineCode)
  /\ UNCHANGED <<flag, store, locked, known, schema, ledger, fleetVars>>

-----------------------------------------------------------------------------
(* Workers *)

DegradedAfter == StaleAfter \div 3
StaleBoundary == StaleAfter - DegradedAfter
\* ClassifyWorkerLiveness
OnlyTheWindow(a) == IF StaleAfter > 0 /\ a # NoAge /\ a <= StaleAfter THEN "ready" ELSE "dead"
Liveness(a) ==
  IF StaleAfter <= 0 \/ a = NoAge THEN "dead"
  ELSE CASE a <= DegradedAfter -> "ready"
         [] DegradedAfter < a /\ a <= StaleBoundary -> "degraded"
         [] StaleBoundary < a /\ a <= StaleAfter -> "stale"
         [] OTHER -> "dead"
Registered(ages) == {w \in FleetWorkers : ages[w] # NoAge}
Being(ages, l) == {w \in Registered(ages) : Liveness(ages[w]) = l}
\* SummarizeWorkerHealth; busy, draining and unknown workers are no gauge.
Summary(reg, ages) ==
  [ready |-> Cardinality({w \in Being(ages, "ready") : reg[w] = "ready"}),
   degraded |-> Cardinality(Being(ages, "degraded")),
   stale |-> Cardinality(Being(ages, "stale")),
   offline |-> Cardinality(Being(ages, "dead"))]

\* observeWorkerHealth
Observed(reg, ages) == gauges' = Summary(reg, ages)

Beats(w, status) ==
  /\ db = "up"
  /\ reportedAs' = [reportedAs EXCEPT ![w] = status] /\ age' = [age EXCEPT ![w] = 0]
  /\ Observed(reportedAs', age')
  /\ UNCHANGED <<bootVars, db>>
RegisterWorker(w) == \E status \in {"ready", "draining"} : Beats(w, status)
HeartbeatWorker(w) == age[w] # NoAge /\ Beats(w, reportedAs[w])

Tick ==
  /\ age' = [w \in FleetWorkers |-> IF age[w] = NoAge \/ age[w] > StaleAfter THEN age[w] ELSE age[w] + 1]
  /\ age' # age
  /\ UNCHANGED <<bootVars, db, reportedAs, gauges>>
DatabaseGoes ==
  /\ db' = IF db = "up" THEN "down" ELSE "up"
  /\ UNCHANGED <<bootVars, reportedAs, age, gauges>>

\* The sweeper requeues first, and goes on to the gauges only if that went well.
SweepWithoutGauges == db = "up" /\ UNCHANGED daemonVars
SweepTick ==
  /\ db = "up" /\ Observed(reportedAs, age)
  /\ UNCHANGED <<bootVars, db, reportedAs, age>>
\* The list of the workers may fail although what came before it did not.
ListFails ==
  /\ db = "up" /\ gauges' = NoGauges
  /\ UNCHANGED <<bootVars, db, reportedAs, age>>

BootNext ==
  \E r \in Replicas :
    \/ Boot(r) \/ Lock(r) \/ ApplyOne(r) \/ Migrated(r) \/ StartFails(r) \/ Restart(r)
    \/ RequestArrives(r) \/ RequestAnswered(r) \/ Terminated(r) \/ Drained(r) \/ DrainTimesOut(r)
FleetNext ==
  \/ \E w \in FleetWorkers : RegisterWorker(w) \/ HeartbeatWorker(w)
  \/ Tick \/ DatabaseGoes \/ SweepTick \/ ListFails

BootSpec == DaemonInit /\ [][BootNext]_daemonVars

\* The sweeper's ticker keeps ticking while the daemon runs.
FleetFairness == WF_daemonVars(SweepTick)
FleetSpec == DaemonInit /\ [][FleetNext]_daemonVars /\ FleetFairness

-----------------------------------------------------------------------------
(* Properties *)

\* However replicas start together, die while they migrate and are restarted: every
\* migration takes effect once and in order, no replica serves PostgreSQL before the
\* last one, none fails its start because of another one, and none runs on the
\* volatile storage when PostgreSQL was asked for; and a replica that reports a clean
\* stop has answered every request it had taken.
DaemonsStartAndStopWell ==
  /\ \A i \in DOMAIN schema : schema[i] = i
  /\ \A r \in Replicas :
       /\ life[r] \in {"serving", "draining", "exited"} /\ store[r] = "postgres" =>
            Len(schema) = Migrations
       /\ store[r] = "memory" => flag.backend # "postgres"
       /\ code[r] = 1 => cut[r] > 0 \/ SelectedBackend = "none"
       /\ life[r] = "exited" => cut[r] = 0

\* Workers that stop beating stop being counted as capacity: once every heartbeat is
\* older than a third of the window, the gauge of ready workers comes down to zero,
\* unless a worker beats again or the database goes away.
FrozenFleetShows ==
  (db = "up" /\ \A w \in FleetWorkers : age[w] = NoAge \/ 3 * age[w] > StaleAfter) ~>
    (gauges.ready = 0 \/ db = "down" \/ \E w \in FleetWorkers : age[w] # NoAge /\ 3 * age[w] <= StaleAfter)
=============================================================================
