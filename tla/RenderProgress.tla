---------------------------- MODULE RenderProgress ----------------------------
(***************************************************************************)
(* The live position of the renders of a worker: the tracker that the GPU  *)
(* lanes write and that /progress and the pusher read without a common     *)
(* lock (internal/chronon/progress.go, progresspush, health), and the      *)
(* calls RunGPU makes on it (internal/processor/gpu_run.go).               *)
(*                                                                         *)
(* A lane renders a job at a time and the workspace lock keeps two lanes   *)
(* off one job, but a render has two output goroutines, and both observe.  *)
(* An entry is told from a later one of the same job by its number; of a   *)
(* position only counts whether there is one.                              *)
(***************************************************************************)
EXTENDS Integers

CONSTANTS
  TrackedJobs,   \* jobs that share the tracker
  MaxRenders,    \* bound: renders of a job on this worker
  NoEntry        \* the nil pointer

ASSUME ProgressAssumption ==
  MaxRenders \in Nat /\ NoEntry \notin TrackedJobs \X (1..MaxRenders)

Outputs == {"stdout", "stderr"}
AllEntries == TrackedJobs \X (1..MaxRenders)
JobOf(e) == e[1]

VARIABLES
  lane,       \* job -> "out", "rendering", "leaving" (within Forget)
  renders,    \* job -> renders it has had here
  left,       \* job -> how its last render ended: "none", "done" or "failed"
  entries,    \* job -> the entry of the map, or NoEntry
  latest,     \* the most recently observed entry, or NoEntry
  retiring,   \* job -> the entry its lane holds within Forget
  output,     \* job, stream -> "scans", or within Observe: "took" the entry, "wrote" it
  held,       \* job, stream -> the entry held within Observe
  observed,   \* the entries that have a position
  reader,     \* a call of Current: [at, entry, todo: the jobs its scan has not visited]
  wasLive,    \* history of the call: entries live since it began, or being forgotten then
  stayed      \* history of the call: entries that have been in the map all the time

progressVars == <<lane, renders, left, entries, latest, retiring, output, held, observed,
                 reader, wasLive, stayed>>
laneSide == <<lane, renders, left, entries, latest, retiring, output, held, observed>>
readSide == <<reader, wasLive, stayed>>

Quiet == [at |-> "ticking", entry |-> NoEntry, todo |-> {}]

ProgressInit ==
  /\ lane = [j \in TrackedJobs |-> "out"] /\ renders = [j \in TrackedJobs |-> 0]
  /\ left = [j \in TrackedJobs |-> "none"]
  /\ entries = [j \in TrackedJobs |-> NoEntry] /\ latest = NoEntry
  /\ retiring = [j \in TrackedJobs |-> NoEntry]
  /\ output = [o \in TrackedJobs \X Outputs |-> "scans"]
  /\ held = [o \in TrackedJobs \X Outputs |-> NoEntry]
  /\ observed = {}
  /\ reader = Quiet /\ wasLive = {} /\ stayed = {}

LaneTo(j, where) == lane' = [lane EXCEPT ![j] = where]
IsLive(j) == entries[j] # NoEntry
LiveEntries == {entries[j] : j \in {k \in TrackedJobs : IsLive(k)}}
Reading == reader.at # "ticking"

-----------------------------------------------------------------------------
(* The lanes *)

StartTracking(j) ==
  /\ lane[j] = "out" /\ renders[j] < MaxRenders
  /\ LaneTo(j, "rendering") /\ renders' = [renders EXCEPT ![j] = @ + 1]
  /\ UNCHANGED <<left, entries, latest, retiring, output, held, observed, readSide>>

\* Observe, by the goroutine of a stream: the entry of the job, made by the first
\* observation of the two, ...
EntryFor(j) == IF IsLive(j) THEN entries[j] ELSE <<j, renders[j]>>
TakeEntry(j, s) ==
  /\ lane[j] = "rendering" /\ output[<<j, s>>] = "scans"
  /\ entries' = [entries EXCEPT ![j] = EntryFor(j)]
  /\ held' = [held EXCEPT ![<<j, s>>] = EntryFor(j)]
  /\ output' = [output EXCEPT ![<<j, s>>] = "took"]
  /\ wasLive' = IF Reading THEN wasLive \cup {EntryFor(j)} ELSE wasLive
  /\ UNCHANGED <<lane, renders, left, latest, retiring, observed, reader, stayed>>
\* ... gets the position under its own lock ...
WritePosition(j, s) ==
  /\ output[<<j, s>>] = "took"
  /\ observed' = observed \cup {held[<<j, s>>]}
  /\ output' = [output EXCEPT ![<<j, s>>] = "wrote"]
  /\ UNCHANGED <<lane, renders, left, entries, latest, retiring, held, readSide>>
\* ... and then becomes the latest.
StoreLatest(j, s) ==
  /\ output[<<j, s>>] = "wrote"
  /\ latest' = held[<<j, s>>]
  /\ held' = [held EXCEPT ![<<j, s>>] = NoEntry] /\ output' = [output EXCEPT ![<<j, s>>] = "scans"]
  /\ UNCHANGED <<lane, renders, left, entries, retiring, observed, readSide>>

\* Render returns when both goroutines have ended.
OutputEnded(j) == \A s \in Outputs : output[<<j, s>>] = "scans"

\* A render that succeeds is forgotten: out of the map first, ...
ForgetEntry(j) ==
  /\ lane[j] = "rendering" /\ OutputEnded(j)
  /\ retiring' = [retiring EXCEPT ![j] = entries[j]]
  /\ entries' = [entries EXCEPT ![j] = NoEntry]
  /\ stayed' = stayed \ {entries[j]}
  /\ LaneTo(j, "leaving")
  /\ UNCHANGED <<renders, left, latest, output, held, observed, reader, wasLive>>
\* ... then no longer the latest, unless another job is it by now.
KeepsLatest(e) == latest                   \* slip: only the map forgets
RetiredLatest(e) == IF latest = e THEN NoEntry ELSE latest
RetireLatest(j) ==
  /\ lane[j] = "leaving"
  /\ latest' = RetiredLatest(retiring[j])
  /\ retiring' = [retiring EXCEPT ![j] = NoEntry]
  /\ LaneTo(j, "out") /\ left' = [left EXCEPT ![j] = "done"]
  /\ UNCHANGED <<renders, entries, output, held, observed, readSide>>

\* RunGPU returns the error of a render before it comes to Forget.
TrackedRenderFails(j) ==
  /\ lane[j] = "rendering" /\ OutputEnded(j)
  /\ LaneTo(j, "out") /\ left' = [left EXCEPT ![j] = "failed"]
  /\ UNCHANGED <<renders, entries, latest, retiring, output, held, observed, readSide>>

-----------------------------------------------------------------------------
(* The readers: Current takes no lock of the tracker, so each of its loads is a step. *)

ReaderGoes(at, e, todo) == reader' = [at |-> at, entry |-> e, todo |-> todo]
ScanBegins == ReaderGoes("scanning", NoEntry, TrackedJobs)

LoadLatest ==
  /\ reader.at = "ticking"
  /\ IF latest = NoEntry THEN ScanBegins ELSE ReaderGoes("loaded", latest, {})
  /\ wasLive' = LiveEntries \cup {retiring[j] : j \in {k \in TrackedJobs : retiring[k] # NoEntry}}
  /\ stayed' = LiveEntries
  /\ UNCHANGED laneSide

\* The map is asked for the job, not for the entry: one that was made in between answers
\* for the one that was loaded.
AskForJob ==
  /\ reader.at = "loaded"
  /\ IF IsLive(JobOf(reader.entry)) THEN ReaderGoes("reading", reader.entry, {}) ELSE ScanBegins
  /\ UNCHANGED <<laneSide, wasLive, stayed>>

\* Range: an entry takes the place of the best so far, or not; the stamps it goes by
\* are taken before the lock under which they are stored, and read one by one.
VisitEntry(j) ==
  /\ reader.at = "scanning" /\ j \in reader.todo
  /\ \E best \in {reader.entry, entries[j]} :
       /\ best = NoEntry => reader.entry = NoEntry /\ ~IsLive(j)
       /\ ReaderGoes(IF reader.todo = {j} THEN "reading" ELSE "scanning", best, reader.todo \ {j})
  /\ UNCHANGED <<laneSide, wasLive, stayed>>

\* The position is read when the reader has the lock of the entry; nothing keeps the
\* job from being forgotten meanwhile.
SnapshotEntry ==
  /\ reader.at = "reading"
  /\ reader' = Quiet /\ wasLive' = {} /\ stayed' = {}
  /\ UNCHANGED laneSide

ProgressNext ==
  \/ \E j \in TrackedJobs :
       \/ StartTracking(j) \/ ForgetEntry(j) \/ RetireLatest(j) \/ TrackedRenderFails(j)
       \/ \E s \in Outputs : TakeEntry(j, s) \/ WritePosition(j, s) \/ StoreLatest(j, s)
       \/ VisitEntry(j)
  \/ LoadLatest \/ AskForJob \/ SnapshotEntry

ProgressSpec == ProgressInit /\ [][ProgressNext]_progressVars

-----------------------------------------------------------------------------
(* Properties *)

InFlight(j) == lane[j] # "out"

\* Whatever lanes observe, forget and fail between the loads of Current: the entry it
\* takes the position from was in the map at some moment of the call, or was being
\* forgotten when it began, so no render whose Forget had returned is shown; that entry
\* has a position, or its first Observe is under way; nothing is answered only if no
\* entry was there all the time, so no render hides another; and what the map has is a
\* render in a lane, or one that failed there.
ShownIsLive ==
  /\ reader.at = "reading" =>
       IF reader.entry = NoEntry THEN stayed = {}
       ELSE /\ reader.entry \in wasLive
            /\ reader.entry \in observed \/ \E o \in DOMAIN held : held[o] = reader.entry
  /\ \A j \in TrackedJobs : IsLive(j) => InFlight(j) \/ left[j] = "failed"
===============================================================================
