------------------------------ MODULE MemQueue ------------------------------
(***************************************************************************)
(* The in-memory job store of the queue service                            *)
(* (queue/internal/repository/memory).  Jobs wait in a linked list, the    *)
(* FIFO order, which orderIdx points into.  Every operation runs under the *)
(* write lock and is one action, except ClaimState: it takes a snapshot of *)
(* the FIFO under the read lock, lets go of it, and only then claims under *)
(* the write lock, so that any operation may come in between.              *)
(*                                                                         *)
(* An element of the FIFO carries whether orderIdx points to it: a job can *)
(* be in the list more than once, and only its last element is indexed.    *)
(***************************************************************************)
EXTENDS Naturals, SequencesExt

CONSTANTS
  Jobs, Workers, None,
  ParentOf,     \* parent job of each job, or None
  Deferred,     \* jobs submitted with a not_before in the future
  Filters,      \* the state filters claims are made with, as sets of states
  MaxAttempts,  \* 0 means no limit
  AttemptCap,   \* bound of the model: no job is claimed more often than this
  OrderCap      \* bound of the model: length of the FIFO

ASSUME MemQueueAssumption ==
  /\ IsFiniteSet(Jobs)
  /\ None \notin Workers /\ None \notin Jobs
  /\ ParentOf \in [Jobs -> Jobs \cup {None}]
  /\ Deferred \subseteq Jobs
  /\ MaxAttempts \in Nat /\ AttemptCap \in Nat /\ OrderCap \in Nat

VARIABLES
  state, worker, lease, attempts, artifact, due,
  order,    \* the FIFO, oldest first
  claiming  \* per worker the claim between its two locks, or None

row  == <<state, worker, lease, attempts, artifact, due>>
vars == <<row, order, claiming>>

States == {"absent", "pending", "running", "finalizing", "completed",
           "failed", "rendered", "cancelled"}
ClaimableStates == {"pending", "rendered"}
TerminalStates  == {"completed", "failed", "cancelled"}
HeldStates      == {"running", "finalizing"}

Element == [job : Jobs, indexed : BOOLEAN]
Claim   == [ids : Seq(Jobs), want : Filters, due : SUBSET Jobs]

-----------------------------------------------------------------------------
(* The FIFO *)

IdsOf(s) == [i \in 1..Len(s) |-> s[i].job]
HasIndex(j) == \E i \in 1..Len(order) : order[i].job = j /\ order[i].indexed

(* PushBack, one job after the other, and orderIdx[id] moves to the new      *)
(* element                                                                   *)
AppendAll(s, ids) ==
  [i \in 1..Len(s) |-> IF s[i].job \in ToSet(ids) THEN [s[i] EXCEPT !.indexed = FALSE]
                                                  ELSE s[i]]
    \o [i \in 1..Len(ids) |-> [job |-> ids[i], indexed |-> TRUE]]

AppendOrder(s, j) == AppendAll(s, <<j>>)

(* unlinks the indexed element, if there is one *)
IndexedAt(s, j) == {i \in 1..Len(s) : s[i] = [job |-> j, indexed |-> TRUE]}
RemoveOrder(s, j) ==
  IF IndexedAt(s, j) = {} THEN s ELSE RemoveAt(s, CHOOSE i \in IndexedAt(s, j) : TRUE)

-----------------------------------------------------------------------------
(* Helpers *)

HasChildren(j) == \E c \in Jobs : ParentOf[c] = j /\ state[c] # "absent"

GivesUpOneLate(n) == MaxAttempts > 0 /\ n > MaxAttempts
ShouldFailPermanently(n) == MaxAttempts > 0 /\ n >= MaxAttempts

Eligible(j, want, dueThen) ==
  /\ state[j] \in want \cap ClaimableStates
  /\ j \in dueThen
  /\ ~HasChildren(j)

(* runningJob *)
Owns(j, w) == state[j] \in HeldStates /\ worker[j] = w

Row(j, st, w, l) ==
  /\ state' = [state EXCEPT ![j] = st]
  /\ worker' = [worker EXCEPT ![j] = w]
  /\ lease' = [lease EXCEPT ![j] = l]

-----------------------------------------------------------------------------
Init ==
  /\ state = [j \in Jobs |-> "absent"]
  /\ worker = [j \in Jobs |-> None]
  /\ lease = [j \in Jobs |-> "none"]
  /\ attempts = [j \in Jobs |-> 0]
  /\ artifact = [j \in Jobs |-> FALSE]
  /\ due = Jobs \ Deferred
  /\ order = <<>>
  /\ claiming = [w \in Workers |-> None]

-----------------------------------------------------------------------------
(* Producer operations *)

(* A batch is validated as a whole before the first insert; its jobs enter   *)
(* the FIFO in the order of the request.                                     *)
SubmitBatch(ids) ==
  /\ \A i \in 1..Len(ids) : state[ids[i]] = "absent"
  /\ state' = [j \in Jobs |-> IF j \in ToSet(ids) THEN "pending" ELSE state[j]]
  /\ order' = AppendAll(order, ids)
  /\ UNCHANGED <<worker, lease, attempts, artifact, due, claiming>>

Submit(j) == SubmitBatch(<<j>>)

(* The element of a pending job stays in the FIFO. *)
Cancel(j) ==
  /\ state[j] \notin TerminalStates \cup {"absent"}
  /\ Row(j, "cancelled", None, "none")
  /\ UNCHANGED <<attempts, artifact, due, order, claiming>>

Retry(j) ==
  /\ state[j] = "failed"
  /\ Len(order) < OrderCap
  /\ Row(j, "pending", None, "none")
  /\ order' = AppendOrder(order, j)
  /\ UNCHANGED <<attempts, artifact, due, claiming>>

-----------------------------------------------------------------------------
(* ClaimState *)

(* First phase: the FIFO and the time, under the read lock. *)
Snapshot(w, want) ==
  /\ claiming[w] = None
  /\ claiming' = [claiming EXCEPT ![w] =
                    [ids |-> IdsOf(order), want |-> want, due |-> due]]
  /\ UNCHANGED <<row, order>>

(* Second phase: the snapshot, then what is in the FIFO.  An entry of the    *)
(* snapshot that was unlinked meanwhile is passed over, and so is a job of   *)
(* the FIFO that was in the snapshot.                                        *)
ScansSnapshotOnly(w) == claiming[w].ids
Scanned(w) == claiming[w].ids \o IdsOf(order)
PassesOver(w, i) ==
  IF i <= Len(claiming[w].ids) THEN ~HasIndex(Scanned(w)[i])
                               ELSE Scanned(w)[i] \in ToSet(claiming[w].ids)

CanTake(w, j) == Eligible(j, claiming[w].want, claiming[w].due)
TakesAt(w, i) == ~PassesOver(w, i) /\ CanTake(w, Scanned(w)[i])

ClaimFirst(w) ==
  /\ claiming[w] # None
  /\ \E i \in 1..Len(Scanned(w)) :
       LET j == Scanned(w)[i]
       IN  /\ TakesAt(w, i) /\ \A k \in 1..(i - 1) : ~TakesAt(w, k)
           /\ attempts[j] < AttemptCap
           /\ Row(j, "running", w, "live")
           /\ attempts' = [attempts EXCEPT ![j] = @ + 1]
           /\ order' = RemoveOrder(order, j)
  /\ claiming' = [claiming EXCEPT ![w] = None]
  /\ UNCHANGED <<artifact, due>>

ClaimNothing(w) ==
  /\ claiming[w] # None
  /\ \A i \in 1..Len(Scanned(w)) : ~TakesAt(w, i)
  /\ claiming' = [claiming EXCEPT ![w] = None]
  /\ UNCHANGED <<row, order>>

(* The element of a pending anchor stays in the FIFO. *)
ClaimFinalization(j, w) ==
  /\ HasChildren(j)
  /\ state[j] \in {"pending", "running"}
  /\ Row(j, "finalizing", w, "live")
  /\ UNCHANGED <<attempts, artifact, due, order, claiming>>

-----------------------------------------------------------------------------
(* Reports of the worker that holds the job *)

Complete(j, w) ==
  /\ Owns(j, w)
  /\ state' = [state EXCEPT ![j] = "completed"]
  /\ artifact' = [artifact EXCEPT ![j] = TRUE]
  /\ UNCHANGED <<worker, lease, attempts, due, order, claiming>>

RenderedIsNotQueued(j, w) ==
  /\ Owns(j, w)
  /\ Row(j, "rendered", None, "none")
  /\ artifact' = [artifact EXCEPT ![j] = TRUE]
  /\ UNCHANGED <<attempts, due, order, claiming>>
Rendered(j, w) ==
  /\ Owns(j, w)
  /\ Len(order) < OrderCap
  /\ Row(j, "rendered", None, "none")
  /\ artifact' = [artifact EXCEPT ![j] = TRUE]
  /\ order' = AppendOrder(order, j)
  /\ UNCHANGED <<attempts, due, claiming>>

(* A job that is given up keeps the worker and the lease it had. *)
Fail(j, w) ==
  /\ Owns(j, w)
  /\ Len(order) < OrderCap
  /\ IF ShouldFailPermanently(attempts[j])
     THEN /\ state' = [state EXCEPT ![j] = "failed"]
          /\ UNCHANGED <<worker, lease, order>>
     ELSE /\ Row(j, "pending", None, "none")
          /\ order' = AppendOrder(order, j)
  /\ UNCHANGED <<attempts, artifact, due, claiming>>

FailPermanently(j, w) ==
  /\ Owns(j, w)
  /\ Row(j, "failed", None, "none")
  /\ UNCHANGED <<attempts, artifact, due, order, claiming>>

Renew(j, w) ==
  /\ Owns(j, w)
  /\ lease' = [lease EXCEPT ![j] = "live"]
  /\ UNCHANGED <<state, worker, attempts, artifact, due, order, claiming>>

-----------------------------------------------------------------------------
(* Time and the sweeper *)

LeaseElapses(j) ==
  /\ lease[j] = "live"
  /\ lease' = [lease EXCEPT ![j] = "expired"]
  /\ UNCHANGED <<state, worker, attempts, artifact, due, order, claiming>>

NotBeforePasses(j) ==
  /\ state[j] # "absent" /\ j \notin due
  /\ due' = due \cup {j}
  /\ UNCHANGED <<state, worker, lease, attempts, artifact, order, claiming>>

Expired == {j \in Jobs : state[j] \in HeldStates /\ lease[j] = "expired"}

(* Every expired job at once, in the random order of a Go map.  The lease    *)
(* stays as it was, and so does the worker of a job that is given up.        *)
RequeueExpired ==
  LET lost == {j \in Expired : ShouldFailPermanently(attempts[j])}
      back == Expired \ lost
  IN  /\ Expired # {}
      /\ Len(order) + Cardinality(back) <= OrderCap
      /\ state' = [j \in Jobs |-> IF j \in lost THEN "failed"
                                  ELSE IF j \in back THEN "pending" ELSE state[j]]
      /\ worker' = [j \in Jobs |-> IF j \in back THEN None ELSE worker[j]]
      /\ \E ids \in SetToSeqs(back) : order' = AppendAll(order, ids)
      /\ UNCHANGED <<lease, attempts, artifact, due, claiming>>

-----------------------------------------------------------------------------
Batches == {ids \in UNION {SetToSeqs(S) : S \in SUBSET Jobs} : Len(ids) > 1}

Next ==
  \/ \E j \in Jobs : \/ Submit(j) \/ Cancel(j) \/ Retry(j)
                     \/ LeaseElapses(j) \/ NotBeforePasses(j)
  \/ \E ids \in Batches : SubmitBatch(ids)
  \/ \E w \in Workers : \/ \E want \in Filters : Snapshot(w, want)
                        \/ ClaimFirst(w) \/ ClaimNothing(w)
  \/ \E j \in Jobs, w \in Workers :
       \/ ClaimFinalization(j, w) \/ Complete(j, w) \/ Rendered(j, w)
       \/ Fail(j, w) \/ FailPermanently(j, w) \/ Renew(j, w)
  \/ RequeueExpired

Spec == Init /\ [][Next]_vars

-----------------------------------------------------------------------------
(* Properties *)

(* No job falls out of the FIFO: one that may be claimed is in it exactly    *)
(* once, behind its index, and one that a worker renders is not in it.  The  *)
(* anchors, which no claim takes, are the only ones queued more than once.   *)
FifoHoldsEveryJob ==
  \A j \in Jobs : ~HasChildren(j) =>
    LET at == {i \in 1..Len(order) : order[i].job = j}
    IN  /\ state[j] \in ClaimableStates =>
             Cardinality(at) = 1 /\ \A i \in at : order[i].indexed
        /\ state[j] = "running" => at = {}

(* A claim answers "no job" only when the store has none for it, although    *)
(* jobs may be queued, claimed and given back between its two locks.         *)
EmptyOnlyWhenNothing ==
  [][\A w \in Workers :
       claiming[w] # None /\ claiming'[w] = None /\ state' = state =>
         ~\E j \in Jobs : CanTake(w, j)]_vars

PhaseOf(j) ==
  CASE state[j] \in ClaimableStates -> "queued"
    [] state[j] \in HeldStates -> "working"
    [] OTHER -> state[j]

Lifecycle == INSTANCE JobLifecycle WITH
  Corrupt <- {},
  phase   <- [j \in Jobs |-> PhaseOf(j)],
  holder  <- [j \in Jobs |-> IF state[j] \in HeldStates THEN worker[j] ELSE None],
  tries   <- attempts,
  stored  <- artifact

(* The in-memory store keeps the promises of the job life cycle, the same    *)
(* ones as the PostgreSQL store.                                             *)
ImplementsLifecycle == Lifecycle!Spec
=============================================================================
