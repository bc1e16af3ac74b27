------------------------- MODULE ParentFinalization -------------------------
(***************************************************************************)
(* The fan-in of a chunk family (renderinggen/internal/processor/          *)
(* finalization.go): runs of ParentFinalizer on several hosts read the     *)
(* children, claim the parent in the queue, assemble the chunks into a     *)
(* staging file, store it and complete the parent.                         *)
(*                                                                         *)
(* The queue is JobQueue and every change of a row is one of its actions.  *)
(* The answer of the finalization claim carries no lease, so the renewal   *)
(* in finalize never starts and is not an action here.                     *)
(***************************************************************************)
EXTENDS JobQueue, Integers, FiniteSets

CONSTANTS
  Parent,       \* the anchor
  Chunks,       \* its children as a sequence in chunk order
  FrameRange,   \* per chunk <<start, end>>
  Families,     \* [uncertified : chunks not certified for packet copy,
                \*  audio : what the anchor's plan says of source audio]
  Submissions,  \* sets of jobs the producer submits in one transaction
  Runs,         \* calls of FinalizeFromChildren in flight
  Placements,   \* which worker each run may belong to: one process runs several
  FaultCap      \* bound of the model: failures, crashes and elapsed leases

\* The chunks are other jobs than the anchor, submitted together (SubmitBatch writes a
\* family in one transaction).
ASSUME FamilyAssumption ==
  /\ Parent \in Jobs /\ Chunks \in Seq(Jobs) /\ \A i \in DOMAIN Chunks : Chunks[i] # Parent
  /\ \A i \in DOMAIN Chunks : FrameRange[Chunks[i]] \in Int \X Int
  /\ Placements \subseteq [Runs -> Workers] /\ None \notin Runs
  /\ \A S \in Submissions : \A i, k \in DOMAIN Chunks : Chunks[i] \in S => Chunks[k] \in S

NoFile == [chunks |-> <<>>, by |-> None, whole |-> FALSE, shared |-> FALSE]

VARIABLES
  chunkFacts, \* which of the Families this is
  hostOf,    \* the worker each run belongs to
  at,        \* where each run is
  span,      \* per run the frame range derived from its first read
  staged,    \* per host what the parent's staging path holds
  hashed,    \* per run the content whose hash it reports
  stored,    \* contents in the object store
  finished,  \* the content the parent was completed with, or NoFile
  faults

finalizerVars == <<chunkFacts, hostOf, at, span, staged, hashed, stored, finished, faults>>

-----------------------------------------------------------------------------
(* Pure parts *)

\* Children: the rows that exist, in chunk order.
Children ==
  LET there == {i \in DOMAIN Chunks : state[Chunks[i]] # "absent"}
      place(i) == Cardinality({k \in there : k <= i})
  IN  [n \in 1..Cardinality(there) |-> Chunks[CHOOSE i \in there : place(i) = n]]

\* childFrameRange: from the first child's start to the last child's end.
ChildFrameRange(cs) == <<FrameRange[cs[1]][1], FrameRange[cs[Len(cs)]][2]>>

\* ValidateChildren: dense indices, durable artifacts certified for copying,
\* and ranges that tile the span.
AcceptsUnfinished(cs, range) ==
  /\ range[1] < range[2]
  /\ \A i \in 1..Len(cs) : cs[i] = Chunks[i] /\ cs[i] \notin chunkFacts.uncertified
ValidateChildren(cs, range) ==
  LET cursor(i) == IF i = 1 THEN range[1] ELSE FrameRange[cs[i - 1]][2] IN
    /\ range[1] < range[2]
    /\ \A i \in 1..Len(cs) :
         /\ cs[i] = Chunks[i]
         /\ state[cs[i]] = "completed" /\ artifact[cs[i]]
         /\ FrameRange[cs[i]][1] = cursor(i)
         /\ FrameRange[cs[i]][2] > FrameRange[cs[i]][1]
         /\ cs[i] \notin chunkFacts.uncertified
    /\ cursor(Len(cs) + 1) = range[2]

\* anchorAudioSource: a plan without audio is fine, as is one whose source layer
\* is among the assets; one that does not compile or lacks the source is an error.
AnchorAudioSource == chunkFacts.audio \in {"none", "source"}

-----------------------------------------------------------------------------
(* Steps of a run *)

Staging == {"assembling", "assembled", "hashed", "stored", "published"}

FinalizerInit ==
  /\ Init
  /\ chunkFacts \in Families /\ hostOf \in Placements
  /\ at = [r \in Runs |-> "idle"]
  /\ span = [r \in Runs |-> <<0, 0>>]
  /\ staged = [w \in Workers |-> NoFile]
  /\ hashed = [r \in Runs |-> NoFile]
  /\ stored = {}
  /\ finished = NoFile
  /\ faults = 0

Goes(r, from, to) == at[r] = from /\ at' = [at EXCEPT ![r] = to]

\* Every way out forgets the run; once the output path is known the deferred
\* Remove deletes whatever is there.
Exit(r) ==
  /\ at' = [at EXCEPT ![r] = "idle"]
  /\ span' = [span EXCEPT ![r] = <<0, 0>>]
  /\ hashed' = [hashed EXCEPT ![r] = NoFile]
  /\ staged' = IF at[r] \in Staging THEN [staged EXCEPT ![hostOf[r]] = NoFile] ELSE staged

\* The trigger after a completed child, or the recovery sweep over the parents
\* that are pending or finalizing; then FinalizeFromChildren up to the claim.
\* A family that does not validate ends the call.
ReadFamily(r) ==
  /\ Goes(r, "idle", "read")
  /\ \/ \E i \in 1..Len(Chunks) : state[Chunks[i]] = "completed"
     \/ HasChildren(Parent) /\ state[Parent] \in {"pending", "finalizing"}
  /\ Children # <<>>
  /\ ValidateChildren(Children, ChildFrameRange(Children))
  /\ span' = [span EXCEPT ![r] = ChildFrameRange(Children)]
  /\ UNCHANGED <<vars, chunkFacts, hostOf, staged, hashed, stored, finished, faults>>

ClaimParent(r) ==
  /\ at[r] = "read"
  /\ IF state[Parent] \in {"pending", "running"}
     THEN /\ ClaimFinalization(Parent, hostOf[r])
          /\ Goes(r, "read", "claimed")
          /\ UNCHANGED <<span, staged, hashed>>
     ELSE Exit(r) /\ UNCHANGED vars
  /\ UNCHANGED <<chunkFacts, hostOf, stored, finished, faults>>

\* Another run of the host of r is between the opening of the staging path and the
\* reading back of what is there.  Nothing keeps it away: the path is that of the parent.
AtThePath(r) == \E q \in Runs \ {r} : hostOf[q] = hostOf[r] /\ at[q] \in {"assembling", "assembled"}

\* The second read, against the range of the first; a refusal leaves the parent
\* finalizing until its lease is swept.
Revalidate(r) ==
  /\ at[r] = "claimed"
  /\ IF ValidateChildren(Children, span[r]) /\ AnchorAudioSource
     THEN /\ Goes(r, "claimed", "assembling")
          /\ staged' = [staged EXCEPT ![hostOf[r]] =
                          [chunks |-> Children, by |-> r, whole |-> FALSE, shared |-> AtThePath(r)]]
          /\ UNCHANGED <<span, hashed>>
     ELSE Exit(r)
  /\ UNCHANGED <<vars, chunkFacts, hostOf, stored, finished, faults>>

\* The renderer finishes writing.  If another run has opened the path since, both
\* wrote the same file; if the path is gone, the bytes are gone with it.
Assemble(r) ==
  /\ Goes(r, "assembling", "assembled")
  /\ staged' = [staged EXCEPT ![hostOf[r]] = IF @.by = r THEN [@ EXCEPT !.whole = TRUE] ELSE @]
  /\ UNCHANGED <<vars, chunkFacts, hostOf, span, hashed, stored, finished, faults>>

\* artifactFromFile
HashOutput(r) ==
  /\ at[r] = "assembled"
  /\ IF staged[hostOf[r]] = NoFile
     THEN Exit(r)
     ELSE /\ Goes(r, "assembled", "hashed")
          /\ hashed' = [hashed EXCEPT ![r] = staged[hostOf[r]]]
          /\ UNCHANGED <<span, staged>>
  /\ UNCHANGED <<vars, chunkFacts, hostOf, stored, finished, faults>>

\* PutFile reads the path again; the store refuses bytes of another hash.
StoreOutput(r) ==
  /\ at[r] = "hashed"
  /\ IF staged[hostOf[r]] = hashed[r]
     THEN /\ Goes(r, "hashed", "stored")
          /\ stored' = stored \cup {hashed[r]}
          /\ UNCHANGED <<span, staged, hashed>>
     ELSE Exit(r) /\ UNCHANGED stored
  /\ UNCHANGED <<vars, chunkFacts, hostOf, finished, faults>>

\* publishAndVerify uploads the stored bytes, not the file.
PublishParent(r) ==
  /\ Goes(r, "stored", "published")
  /\ hashed[r] \in stored
  /\ UNCHANGED <<vars, chunkFacts, hostOf, span, staged, hashed, stored, finished, faults>>

CompleteParent(r) ==
  /\ at[r] = "published"
  /\ IF Owns(Parent, hostOf[r], HeldStates)
     THEN Complete(Parent, hostOf[r]) /\ finished' = hashed[r]
     ELSE UNCHANGED <<vars, finished>>
  /\ Exit(r)
  /\ UNCHANGED <<chunkFacts, hostOf, stored, faults>>

-----------------------------------------------------------------------------
(* Faults *)

Fault == faults < FaultCap /\ faults' = faults + 1

\* A read, a fetch of an input, the assembly, the store or Drive fails.
FinalizeFails(r) ==
  /\ at[r] # "idle"
  /\ Fault
  /\ Exit(r)
  /\ UNCHANGED <<vars, chunkFacts, hostOf, stored, finished>>

\* The staging file outlives the process.
HostCrashes(w) ==
  /\ \E r \in Runs : hostOf[r] = w /\ at[r] # "idle"
  /\ Fault
  /\ at' = [r \in Runs |-> IF hostOf[r] = w THEN "idle" ELSE at[r]]
  /\ span' = [r \in Runs |-> IF hostOf[r] = w THEN <<0, 0>> ELSE span[r]]
  /\ hashed' = [r \in Runs |-> IF hostOf[r] = w THEN NoFile ELSE hashed[r]]
  /\ UNCHANGED <<vars, chunkFacts, hostOf, staged, stored, finished>>

\* The stale sweep of workspaces meets the directory of the staging files, which
\* has neither a marker nor a lock.
SweepRemovesParents(w) ==
  /\ staged[w] # NoFile
  /\ Fault
  /\ staged' = [staged EXCEPT ![w] = NoFile]
  /\ UNCHANGED <<vars, chunkFacts, hostOf, at, span, hashed, stored, finished>>

\* A lease that elapses under the run that holds it counts as a fault; one whose
\* run is gone elapses in any case.
ParentLeaseElapses ==
  /\ state[Parent] = "finalizing"
  /\ IF \E r \in Runs : hostOf[r] = currentWorker[Parent] /\ at[r] \notin {"idle", "read"}
     THEN Fault
     ELSE UNCHANGED faults
  /\ LeaseElapses(Parent)
  /\ UNCHANGED <<chunkFacts, hostOf, at, span, staged, hashed, stored, finished>>

-----------------------------------------------------------------------------
(* The queue around the runs: of all its actions, those that matter here. *)

QueueStep ==
  /\ \/ \E S \in Submissions : SubmitBatch(S)
     \/ \E i \in 1..Len(Chunks), w \in Workers :
          ClaimState(Chunks[i], w) \/ Complete(Chunks[i], w)
     \/ state[Parent] = "finalizing" /\ Cancel(Parent)
     \/ RequeueExpired({Parent})
  /\ UNCHANGED finalizerVars

RunStep(r) ==
  \/ ReadFamily(r) \/ ClaimParent(r) \/ Revalidate(r) \/ Assemble(r)
  \/ HashOutput(r) \/ StoreOutput(r) \/ PublishParent(r) \/ CompleteParent(r)

FinalizerNext ==
  \/ \E r \in Runs : RunStep(r) \/ FinalizeFails(r)
  \/ \E w \in Workers : HostCrashes(w) \/ SweepRemovesParents(w)
  \/ ParentLeaseElapses
  \/ QueueStep

familyVars == <<vars, finalizerVars>>

RequeueStep == RequeueExpired({Parent}) /\ UNCHANGED finalizerVars

\* The recovery sweep and the requeue sweep are tickers, and a run goes on.
FinalizerSpec ==
  /\ FinalizerInit /\ [][FinalizerNext]_familyVars
  /\ \A r \in Runs : WF_familyVars(RunStep(r))
  /\ WF_familyVars(RequeueStep) /\ WF_familyVars(ParentLeaseElapses)

-----------------------------------------------------------------------------
(* Properties *)

\* A completed parent is an assembly of its whole family, in order, and its bytes are
\* stored, whatever runs were abandoned, swept or repeated, on however many hosts and
\* however many of them on one.  The assembly is whole unless two runs of one host were
\* at the same path at once, and only then.
ParentIsWholeFamily ==
  state[Parent] = "completed" =>
    /\ finished.chunks = Chunks /\ finished \in stored
    /\ \A i \in 1..Len(Chunks) : artifact[Chunks[i]]
    /\ finished.whole \/ finished.shared

\* "The finalizer performs the children read and atomic claim so concurrent triggers and
\* worker restarts are safe" (parent_completion.go:11-13): two runs of one host included,
\* a parent is not completed with part of an assembly.
AssemblyIsWhole == state[Parent] = "completed" => finished.whole

\* Once every chunk is completed the parent of a sound family is finalized, although triggers are
\* missed, runs fail and leases elapse.
FamilyIsFinalized ==
  (/\ chunkFacts.uncertified = {} /\ AnchorAudioSource
   /\ \A i \in 1..Len(Chunks) : state[Chunks[i]] = "completed")
    ~> state[Parent] \in TerminalStates
=============================================================================
