------------------------------- MODULE JobLogs -------------------------------
(***************************************************************************)
(* The log files of a job on a worker (internal/workerlog): the registry   *)
(* that maps a job id to its state, the files that are attached to that    *)
(* state, and the runs of the job in one process that bind it, write       *)
(* through it and close it (cmd/renderinggen/worker_pools.go).             *)
(*                                                                         *)
(* One job id: the registry keeps no state between ids.  Runs of one job   *)
(* overlap when a lease is lost and another pool of the process claims the *)
(* job again.  A state is named by the run whose call made it and a number.*)
(***************************************************************************)
EXTENDS Integers, FiniteSets

CONSTANTS
  LogRuns,      \* runs of the job in the process
  LogCap,       \* records until a file is cut (jobLogMaxBytes)
  MaxRecords,   \* bound: records the runs write
  MaxStates,    \* bound: states the registry makes
  NoLog         \* no state

Kinds == {"durable", "workspace"}
Sinks == LogRuns \X Kinds
States == 1..MaxStates

ASSUME LogsAssumption == LogCap \in Nat /\ MaxStates \in Nat /\ NoLog \notin States

VARIABLES
  binding,    \* jobStates: the state of the job id, or NoLog
  made,       \* states made so far
  parentSet,  \* states that know the parent job
  attached,   \* state -> its sinks
  sinkIs,     \* sink -> "none", "opening", "failed", "open" or "closed"
  target,     \* sink -> the state its AttachJobLog is for, or NoLog
  recorded,   \* sink -> records written, at most LogCap + 1: the last one is the note
  log,        \* run -> "out", "bound", "claimed", "working", "closing", "sealed", "gone"
  boundTo,    \* run -> the state of its Job handle, or NoLog
  said,       \* records emitted by the runs
  lost,       \* runs of which a record is not in the durable file although it was not cut
  orphaned,   \* runs of which a record went out without the parent's id
  met         \* runs that overlapped another one

logVars == <<binding, made, parentSet, attached, sinkIs, target, recorded, log, boundTo,
             said, lost, orphaned, met>>

LogsInit ==
  /\ binding = NoLog /\ made = 0 /\ parentSet = {} /\ attached = [s \in States |-> {}]
  /\ sinkIs = [k \in Sinks |-> "none"] /\ target = [k \in Sinks |-> NoLog]
  /\ recorded = [k \in Sinks |-> 0]
  /\ log = [r \in LogRuns |-> "out"] /\ boundTo = [r \in LogRuns |-> NoLog]
  /\ said = 0 /\ lost = {}
  /\ orphaned = {} /\ met = {}

LogTo(r, where) == log' = [log EXCEPT ![r] = where]
Present == {r \in LogRuns : log[r] \notin {"out", "sealed", "gone"}}

\* stateFor: the state of the registry, made and stored when there is none.
StateFor == IF binding = NoLog THEN made + 1 ELSE binding
LooksUp ==
  /\ binding # NoLog \/ made < MaxStates
  /\ binding' = StateFor /\ made' = IF binding = NoLog THEN made + 1 ELSE made

-----------------------------------------------------------------------------
(* A run *)

\* BindJob, when a pool has claimed the job.
BindRun(r) ==
  /\ log[r] = "out" /\ LooksUp
  /\ parentSet' = parentSet \cup {StateFor} /\ boundTo' = [boundTo EXCEPT ![r] = StateFor]
  /\ LogTo(r, "bound")
  /\ met' = IF Present = {} THEN met ELSE met \cup Present \cup {r}
  /\ UNCHANGED <<attached, sinkIs, target, recorded, said, lost, orphaned>>

\* AttachJobLog: the durable file when the job is claimed, the one of the workspace
\* when there is a workspace.  The state is looked up before the file is opened ...
KindNow(r) == IF log[r] = "bound" THEN "durable" ELSE "workspace"
StartAttach(r) ==
  /\ log[r] \in {"bound", "claimed"} /\ sinkIs[<<r, KindNow(r)>>] = "none" /\ LooksUp
  /\ sinkIs' = [sinkIs EXCEPT ![<<r, KindNow(r)>>] = "opening"]
  /\ target' = [target EXCEPT ![<<r, KindNow(r)>>] = StateFor]
  /\ UNCHANGED <<parentSet, attached, recorded, log, boundTo, said, lost, orphaned, met>>
Onward(r) == LogTo(r, IF log[r] = "bound" THEN "claimed" ELSE "working")
\* ... and gets the file after that.  A file that cannot be opened is done without.
EndAttach(r) ==
  LET k == <<r, KindNow(r)>> IN
  /\ log[r] \in {"bound", "claimed"} /\ sinkIs[k] = "opening"
  /\ \/ /\ sinkIs' = [sinkIs EXCEPT ![k] = "open"]
        /\ attached' = [attached EXCEPT ![target[k]] = @ \cup {k}]
     \/ sinkIs' = [sinkIs EXCEPT ![k] = "failed"] /\ UNCHANGED attached
  /\ target' = [target EXCEPT ![k] = NoLog] /\ Onward(r)
  /\ UNCHANGED <<binding, made, parentSet, recorded, boundTo, said, lost, orphaned, met>>

\* emit: to the files of the state that are still open and not cut.  A file that the
\* record does not fit into gets the note, and nothing after it.
Writable(s) == {k \in attached[s] : sinkIs[k] = "open" /\ recorded[k] <= LogCap}
Emits(r, s) ==
  /\ recorded' = [k \in Sinks |-> IF k \in Writable(s) THEN recorded[k] + 1 ELSE recorded[k]]
  /\ said' = said + 1
  /\ lost' = IF sinkIs[<<r, "durable">>] = "failed" \/ recorded[<<r, "durable">>] > LogCap
                \/ <<r, "durable">> \in Writable(s)
             THEN lost ELSE lost \cup {r}
  /\ orphaned' = IF s \in parentSet THEN orphaned ELSE orphaned \cup {r}
MaySpeak(r) == log[r] \in {"claimed", "working"} /\ said < MaxRecords
\* A pool writes through the handle it bound, ...
EmitByHandle(r) ==
  /\ MaySpeak(r) /\ Emits(r, boundTo[r])
  /\ UNCHANGED <<binding, made, parentSet, attached, sinkIs, target, log, boundTo, met>>
\* ... the processor and the renewal through the id (ByJobID).
EmitById(r) ==
  /\ MaySpeak(r) /\ LooksUp /\ Emits(r, StateFor)
  /\ UNCHANGED <<parentSet, attached, sinkIs, target, log, boundTo, met>>

\* CloseJobLog: every file of the state is taken off it and closed, whoever attached
\* it, ...
ClosesNothing(s) == {}                     \* slip: only the job is forgotten
TakenOff(s) == attached[s]
CloseSinks(r) ==
  /\ log[r] \in {"claimed", "working"} /\ sinkIs[<<r, "workspace">>] # "opening"
  /\ IF binding = NoLog THEN UNCHANGED <<attached, sinkIs>>
     ELSE /\ sinkIs' = [k \in Sinks |-> IF k \in TakenOff(binding) THEN "closed" ELSE sinkIs[k]]
          /\ attached' = [attached EXCEPT ![binding] = {}]
  /\ LogTo(r, "closing")
  /\ UNCHANGED <<binding, made, parentSet, target, recorded, boundTo, said, lost, orphaned, met>>
\* ... and the job is forgotten, whatever its state is by then.
ForgetJob(r) ==
  /\ log[r] = "closing" /\ binding' = NoLog /\ LogTo(r, "sealed")
  /\ UNCHANGED <<made, parentSet, attached, sinkIs, target, recorded, boundTo, said, lost, orphaned, met>>
\* The goroutine that renews the lease is not waited for: its last record may come
\* when the job has been forgotten, and makes a state that no run of it closes.
EmitAfterwards(r) ==
  /\ log[r] = "sealed" /\ LooksUp
  /\ recorded' = [k \in Sinks |-> IF k \in Writable(StateFor) THEN recorded[k] + 1 ELSE recorded[k]]
  /\ LogTo(r, "gone")
  /\ UNCHANGED <<parentSet, attached, sinkIs, target, boundTo, said, lost, orphaned, met>>

LogsNext ==
  \E r \in LogRuns :
    \/ BindRun(r) \/ StartAttach(r) \/ EndAttach(r) \/ EmitByHandle(r) \/ EmitById(r)
    \/ CloseSinks(r) \/ ForgetJob(r) \/ EmitAfterwards(r)

LogsSpec == LogsInit /\ [][LogsNext]_logVars

-----------------------------------------------------------------------------
(* Properties *)

Alone(r) == r \notin met

\* A run that had the job for itself finds its whole log: every record it wrote, by
\* its handle or by the id, carries the parent's id and is in the durable file unless
\* that was full, and once it is sealed none of its files is open and no state holds
\* one.  Runs that came before it and are sealed leave nothing that its records could
\* go to instead.  Whatever the runs do, a file takes one record more than its cap.
LogIsWhole ==
  /\ \A r \in LogRuns : Alone(r) =>
       /\ r \notin lost \cup orphaned
       /\ log[r] \in {"sealed", "gone"} => \A k \in Sinks : k[1] = r =>
            sinkIs[k] # "open" /\ \A s \in States : k \notin attached[s]
  /\ \A k \in Sinks : recorded[k] <= LogCap + 1
==============================================================================
