--------------------------- MODULE MemQueueProofs ---------------------------
(***************************************************************************)
(* The in-memory store keeps every claimable job in its FIFO exactly once, *)
(* answers "no job" only when it has none, and implements the same life    *)
(* cycle as the PostgreSQL store, for any jobs, workers and families.      *)
(*                                                                         *)
(* The FIFO is the part a row does not show: JobInv ties the state of a    *)
(* job to the elements it has in the list, and says of the jobs that are   *)
(* not claimable that they have none, which is what makes the next         *)
(* PushBack of each leave it there once.                                   *)
(***************************************************************************)
EXTENDS MemQueue, FiniteSetTheorems, TLAPS

TypeOK ==
  /\ state \in [Jobs -> States]
  /\ worker \in [Jobs -> Workers \cup {None}]
  /\ attempts \in [Jobs -> Nat]
  /\ artifact \in [Jobs -> BOOLEAN]
  /\ due \in SUBSET Jobs
  /\ order \in Seq(Element)
  /\ claiming \in [Workers -> Claim \cup {None}]

\* One element, the indexed one; and none.
Once(s, j) ==
  \E i \in 1..Len(s) : /\ s[i].job = j /\ s[i].indexed
                       /\ \A k \in 1..Len(s) : s[k].job = j => k = i
Nowhere(s, j) == \A i \in 1..Len(s) : s[i].job # j

\* The state of a job that is no anchor, and its elements in the FIFO.
JobInv(j) ==
  ~HasChildren(j) =>
    /\ state[j] \in ClaimableStates => Once(order, j)
    /\ state[j] \in {"absent", "running", "failed", "completed"} => Nowhere(order, j)
    /\ state[j] # "finalizing"

\* What the life cycle reads: a job in progress has a worker, a job that was never
\* submitted has neither attempts nor an artifact.
RowInv(j) ==
  /\ state[j] \in HeldStates => worker[j] \in Workers
  /\ state[j] = "absent" => attempts[j] = 0 /\ artifact[j] = FALSE

IInv == TypeOK /\ \A j \in Jobs : JobInv(j) /\ RowInv(j)

-----------------------------------------------------------------------------
(* The FIFO *)

Distinct(ids) == \A i, k \in 1..Len(ids) : ids[i] = ids[k] => i = k

\* PushBack leaves the old elements where they are and puts the new ones behind them.
LEMMA AppendAllFacts ==
  ASSUME NEW s \in Seq(Element), NEW ids \in Seq(Jobs)
  PROVE  /\ AppendAll(s, ids) \in Seq(Element)
         /\ Len(AppendAll(s, ids)) = Len(s) + Len(ids)
         /\ \A i \in 1..Len(s) : /\ AppendAll(s, ids)[i].job = s[i].job
                                 /\ s[i].job \notin ToSet(ids) => AppendAll(s, ids)[i] = s[i]
         /\ \A i \in 1..Len(ids) : AppendAll(s, ids)[Len(s) + i] = [job |-> ids[i], indexed |-> TRUE]
<1> DEFINE a == [i \in 1..Len(s) |-> IF s[i].job \in ToSet(ids) THEN [s[i] EXCEPT !.indexed = FALSE]
                                                                ELSE s[i]]
           b == [i \in 1..Len(ids) |-> [job |-> ids[i], indexed |-> TRUE]]
<1>1. AppendAll(s, ids) = a \o b
  BY DEF AppendAll
<1>2. Len(s) \in Nat /\ Len(ids) \in Nat
  OBVIOUS
<1>3. \A i \in 1..Len(s) : a[i] \in Element /\ a[i].job = s[i].job
                           /\ (s[i].job \notin ToSet(ids) => a[i] = s[i])
  <2>1. \A e \in Element : /\ [e EXCEPT !.indexed = FALSE] \in Element
                            /\ [e EXCEPT !.indexed = FALSE].job = e.job
    BY DEF Element
  <2>2. \A i \in 1..Len(s) : s[i] \in Element
    OBVIOUS
  <2> QED
    BY <2>1, <2>2
<1>4. \A i \in 1..Len(ids) : b[i] \in Element /\ b[i] = [job |-> ids[i], indexed |-> TRUE]
  BY DEF Element
<1>5. a \in Seq(Element) /\ Len(a) = Len(s) /\ b \in Seq(Element) /\ Len(b) = Len(ids)
  BY <1>2, <1>3, <1>4
<1> HIDE DEF a, b
<1>6. a \o b \in Seq(Element) /\ Len(a \o b) = Len(s) + Len(ids)
  BY <1>5
<1>7. \A i \in 1..Len(s) : (a \o b)[i] = a[i]
  BY <1>2, <1>5
<1>8. \A i \in 1..Len(ids) : (a \o b)[Len(s) + i] = b[i]
  BY <1>2, <1>5
<1> QED
  BY <1>1, <1>3, <1>4, <1>6, <1>7, <1>8

\* A job that is not pushed keeps its elements.
LEMMA AppendOther ==
  ASSUME NEW s \in Seq(Element), NEW ids \in Seq(Jobs), NEW j \in Jobs, j \notin ToSet(ids)
  PROVE  /\ Once(s, j) => Once(AppendAll(s, ids), j)
         /\ Nowhere(s, j) => Nowhere(AppendAll(s, ids), j)
<1> DEFINE t == AppendAll(s, ids)
<1>1. /\ Len(s) \in Nat /\ Len(ids) \in Nat /\ Len(t) = Len(s) + Len(ids)
      /\ \A i \in 1..Len(s) : t[i].job = s[i].job /\ (s[i].job = j => t[i] = s[i])
      /\ \A i \in 1..Len(ids) : t[Len(s) + i].job = ids[i]
  <2>1. \A i \in 1..Len(ids) : t[Len(s) + i] = [job |-> ids[i], indexed |-> TRUE]
    BY AppendAllFacts
  <2>2. Len(t) = Len(s) + Len(ids)
    BY AppendAllFacts
  <2>3. \A i \in 1..Len(s) : t[i].job = s[i].job /\ (s[i].job \notin ToSet(ids) => t[i] = s[i])
    BY AppendAllFacts
  <2> HIDE DEF t
  <2>4. Len(s) \in Nat /\ Len(ids) \in Nat
    OBVIOUS
  <2>5. ASSUME NEW i \in 1..Len(ids) PROVE t[Len(s) + i].job = ids[i] /\ t[Len(s) + i].indexed
    <3>1. t[Len(s) + i] = [job |-> ids[i], indexed |-> TRUE]
      BY <2>1
    <3> QED
      BY <3>1
  <2> QED
    BY <2>2, <2>3, <2>4, <2>5
<1>2. \A i \in 1..Len(ids) : ids[i] # j
  BY DEF ToSet
<1> HIDE DEF t
<1>3. ASSUME NEW i \in 1..Len(t), t[i].job = j PROVE i \in 1..Len(s)
  <2>1. CASE i > Len(s)
    <3>1. i - Len(s) \in 1..Len(ids) /\ t[Len(s) + (i - Len(s))].job = ids[i - Len(s)]
      BY <1>1, <2>1
    <3> QED
      BY <1>1, <1>2, <1>3, <3>1
  <2> QED
    BY <1>1, <2>1
<1>4. Once(s, j) => Once(t, j)
  <2> SUFFICES ASSUME NEW i \in 1..Len(s), s[i].job = j, s[i].indexed,
                      \A k \in 1..Len(s) : s[k].job = j => k = i
               PROVE  Once(t, j)
    BY DEF Once
  <2>1. i \in 1..Len(t) /\ t[i].job = j /\ t[i].indexed
    BY <1>1
  <2>2. \A k \in 1..Len(t) : t[k].job = j => k = i
    BY <1>1, <1>3
  <2> QED
    BY <2>1, <2>2 DEF Once
<1>5. Nowhere(s, j) => Nowhere(t, j)
  BY <1>1, <1>3 DEF Nowhere
<1> QED
  BY <1>4, <1>5 DEF t

\* A job that was nowhere and is pushed once is there once.
LEMMA AppendOwn ==
  ASSUME NEW s \in Seq(Element), NEW ids \in Seq(Jobs), Distinct(ids),
         NEW j \in ToSet(ids), Nowhere(s, j)
  PROVE  Once(AppendAll(s, ids), j)
<1> DEFINE t == AppendAll(s, ids)
<1>1. /\ Len(s) \in Nat /\ Len(ids) \in Nat /\ Len(t) = Len(s) + Len(ids)
      /\ \A i \in 1..Len(s) : t[i].job = s[i].job
      /\ \A i \in 1..Len(ids) : t[Len(s) + i].job = ids[i] /\ t[Len(s) + i].indexed
  <2>1. \A i \in 1..Len(ids) : t[Len(s) + i] = [job |-> ids[i], indexed |-> TRUE]
    BY AppendAllFacts
  <2>2. Len(t) = Len(s) + Len(ids)
    BY AppendAllFacts
  <2>3. \A i \in 1..Len(s) : t[i].job = s[i].job /\ (s[i].job \notin ToSet(ids) => t[i] = s[i])
    BY AppendAllFacts
  <2> HIDE DEF t
  <2>4. Len(s) \in Nat /\ Len(ids) \in Nat
    OBVIOUS
  <2>5. ASSUME NEW i \in 1..Len(ids) PROVE t[Len(s) + i].job = ids[i] /\ t[Len(s) + i].indexed
    <3>1. t[Len(s) + i] = [job |-> ids[i], indexed |-> TRUE]
      BY <2>1
    <3> QED
      BY <3>1
  <2> QED
    BY <2>2, <2>3, <2>4, <2>5
<1>2. PICK n \in 1..Len(ids) : ids[n] = j
  BY DEF ToSet
<1> HIDE DEF t
<1>3. ASSUME NEW k \in 1..Len(t), t[k].job = j PROVE k = Len(s) + n
  <2>1. k > Len(s)
    BY <1>1, <1>3 DEF Nowhere
  <2>2. k - Len(s) \in 1..Len(ids) /\ ids[k - Len(s)] = t[Len(s) + (k - Len(s))].job
    BY <1>1, <2>1
  <2>3. ids[k - Len(s)] = j
    BY <1>1, <1>3, <2>2
  <2>4. k - Len(s) = n
    BY <1>2, <2>2, <2>3 DEF Distinct
  <2> QED
    BY <1>1, <2>4
<1>4. Len(s) + n \in 1..Len(t) /\ t[Len(s) + n].job = j /\ t[Len(s) + n].indexed
  BY <1>1, <1>2
<1>5. Once(t, j)
  BY <1>3, <1>4 DEF Once
<1> QED
  BY <1>5 DEF t

\* A sequence without its i-th element.
LEMMA RemoveAtFacts ==
  ASSUME NEW S, NEW s \in Seq(S), NEW i \in 1..Len(s)
  PROVE  /\ RemoveAt(s, i) \in Seq(S) /\ Len(RemoveAt(s, i)) = Len(s) - 1
         /\ \A k \in 1..(i - 1) : RemoveAt(s, i)[k] = s[k]
         /\ \A k \in i..(Len(s) - 1) : RemoveAt(s, i)[k] = s[k + 1]
<1> DEFINE a == SubSeq(s, 1, i - 1)
           b == SubSeq(s, i + 1, Len(s))
<1>1. RemoveAt(s, i) = a \o b /\ Len(s) \in Nat
  BY DEF RemoveAt
<1>2. /\ a \in Seq(S) /\ Len(a) = i - 1
      /\ \A k \in 1..(i - 1) : a[k] = s[k]
  OBVIOUS
<1>3. /\ b \in Seq(S) /\ Len(b) = Len(s) - i
      /\ \A k \in 1..(Len(s) - i) : b[k] = s[i + k]
  OBVIOUS
<1> HIDE DEF a, b
<1>4. a \o b \in Seq(S) /\ Len(a \o b) = Len(a) + Len(b)
  <2>1. a \in Seq(S) /\ b \in Seq(S)
    BY <1>2, <1>3
  <2> QED
    BY <2>1
<1>5. ASSUME NEW k \in 1..(i - 1) PROVE (a \o b)[k] = s[k]
  <2>1. k \in 1..Len(a) /\ a[k] = s[k]
    BY <1>2
  <2> QED
    BY <1>2, <1>3, <2>1
<1>6. ASSUME NEW k \in i..(Len(s) - 1) PROVE (a \o b)[k] = s[k + 1]
  <2>1. k - Len(a) \in 1..Len(b) /\ k \in Len(a) + 1 .. Len(a) + Len(b) /\ i + (k - Len(a)) = k + 1
    BY <1>1, <1>2, <1>3
  <2>2. (a \o b)[k] = b[k - Len(a)]
    BY <1>2, <1>3, <2>1
  <2> QED
    BY <1>1, <1>2, <1>3, <2>1, <2>2
<1>7. PICK r : r = RemoveAt(s, i) /\ r = a \o b
  BY <1>1
<1>8. r \in Seq(S) /\ Len(r) = Len(s) - 1
  <2>1. r \in Seq(S) /\ Len(r) = Len(a) + Len(b)
    BY <1>4, <1>7
  <2>2. PICK n \in Nat : n = Len(s)
    BY <1>1
  <2>3. i \in 1..n /\ Len(a) = i - 1 /\ Len(b) = n - i
    BY <1>2, <1>3, <2>2
  <2> QED
    BY <2>1, <2>2, <2>3
<1>9. \A k \in 1..(i - 1) : r[k] = s[k]
  BY <1>5, <1>7
<1>10. \A k \in i..(Len(s) - 1) : r[k] = s[k + 1]
  BY <1>6, <1>7
<1> QED
  BY <1>7, <1>8, <1>9, <1>10

\* Unlinking a job leaves no element of it if it had one, and the others' as they are.
LEMMA RemoveFacts ==
  ASSUME NEW s \in Seq(Element), NEW j \in Jobs
  PROVE  /\ RemoveOrder(s, j) \in Seq(Element)
         /\ Once(s, j) => Nowhere(RemoveOrder(s, j), j)
         /\ \A k \in Jobs \ {j} : /\ Once(s, k) => Once(RemoveOrder(s, j), k)
                                  /\ Nowhere(s, k) => Nowhere(RemoveOrder(s, j), k)
<1> DEFINE t == RemoveOrder(s, j)
<1>1. CASE IndexedAt(s, j) = {}
  <2>1. t = s
    BY <1>1 DEF RemoveOrder
  <2>2. ~Once(s, j)
    <3> SUFFICES ASSUME NEW i \in 1..Len(s), s[i].job = j, s[i].indexed PROVE FALSE
      BY DEF Once
    <3>1. s[i] \in Element
      OBVIOUS
    <3>2. s[i] = [job |-> j, indexed |-> TRUE]
      BY <3>1 DEF Element
    <3> QED
      BY <1>1, <3>2 DEF IndexedAt
  <2> QED
    BY <2>1, <2>2
<1>2. CASE IndexedAt(s, j) # {}
  <2>1. PICK i \in IndexedAt(s, j) : t = RemoveAt(s, i)
    BY <1>2 DEF RemoveOrder
  <2>2. i \in 1..Len(s) /\ s[i].job = j /\ Len(s) \in Nat
    <3>1. i \in 1..Len(s) /\ s[i] = [job |-> j, indexed |-> TRUE]
      BY DEF IndexedAt
    <3> QED
      BY <3>1
  <2> HIDE DEF t
  <2>3. /\ t \in Seq(Element) /\ Len(t) = Len(s) - 1
        /\ \A n \in 1..(i - 1) : t[n] = s[n]
        /\ \A n \in i..(Len(s) - 1) : t[n] = s[n + 1]
    BY <2>1, <2>2, RemoveAtFacts
  \* where the elements of the shorter list come from, and where those of s go
  <2> DEFINE old(n) == IF n < i THEN n ELSE n + 1
             new(n) == IF n < i THEN n ELSE n - 1
  <2>4. \A n \in 1..Len(t) : old(n) \in 1..Len(s) /\ old(n) # i /\ t[n] = s[old(n)] /\ new(old(n)) = n
    BY <2>2, <2>3
  <2>5. \A n \in 1..Len(s) : n # i => new(n) \in 1..Len(t) /\ old(new(n)) = n
    BY <2>2, <2>3
  <2> HIDE DEF old, new
  <2>6. Once(s, j) => Nowhere(t, j)
    BY <2>2, <2>4 DEF Once, Nowhere
  <2>7. ASSUME NEW k \in Jobs \ {j} PROVE Once(s, k) => Once(t, k)
    <3> SUFFICES ASSUME NEW n \in 1..Len(s), s[n].job = k, s[n].indexed,
                        \A p \in 1..Len(s) : s[p].job = k => p = n
                 PROVE  Once(t, k)
      BY DEF Once
    <3>1. n # i /\ new(n) \in 1..Len(t) /\ t[new(n)] = s[n]
      BY <2>2, <2>4, <2>5
    <3>2. \A p \in 1..Len(t) : t[p].job = k => p = new(n)
      BY <2>4
    <3> QED
      BY <3>1, <3>2 DEF Once
  <2>8. ASSUME NEW k \in Jobs \ {j} PROVE Nowhere(s, k) => Nowhere(t, k)
    BY <2>4 DEF Nowhere
  <2> QED
    BY <2>3, <2>6, <2>7, <2>8 DEF t
<1> QED
  BY <1>1, <1>2

\* A permutation of a set of jobs names each of them once.
LEMMA PermutationFacts ==
  ASSUME NEW S \in SUBSET Jobs, NEW ids \in SetToSeqs(S)
  PROVE  ids \in Seq(Jobs) /\ Distinct(ids) /\ ToSet(ids) = S
<1> DEFINE n == Cardinality(S)
<1>1. IsFiniteSet(S) /\ n \in Nat
  BY MemQueueAssumption, FS_Subset, FS_CardinalityType
<1>2. ids \in [1..n -> S] /\ \A i, k \in 1..n : i # k => ids[i] # ids[k]
  BY DEF SetToSeqs
<1>3. IsFiniteSet(1..n) /\ Cardinality(1..n) = n
  <2>1. 1 \in Int /\ n \in Int
    BY <1>1
  <2>2. IsFiniteSet(1..n) /\ Cardinality(1..n) = IF 1 > n THEN 0 ELSE n - 1 + 1
    BY <2>1, FS_Interval
  <2> QED
    BY <1>1, <2>2
<1>4. ids \in Injection(1..n, S)
  BY <1>2 DEF Injection, IsInjective
<1>5. ids \in Surjection(1..n, S)
  BY <1>1, <1>3, <1>4, FS_Injection
<1> HIDE DEF n
<1>6. ids \in Seq(Jobs) /\ Len(ids) = n
  BY <1>1, <1>2
<1>7. ToSet(ids) = S
  BY <1>2, <1>5 DEF ToSet, Surjection
<1> QED
  BY <1>2, <1>6, <1>7 DEF Distinct

\* The push of a single job.
LEMMA PushOne ==
  ASSUME NEW s \in Seq(Element), NEW j \in Jobs
  PROVE  /\ AppendOrder(s, j) \in Seq(Element)
         /\ Nowhere(s, j) => Once(AppendOrder(s, j), j)
         /\ \A k \in Jobs \ {j} : /\ Once(s, k) => Once(AppendOrder(s, j), k)
                                  /\ Nowhere(s, k) => Nowhere(AppendOrder(s, j), k)
<1>1. <<j>> \in Seq(Jobs) /\ Len(<<j>>) = 1 /\ <<j>>[1] = j
  OBVIOUS
<1>2. ToSet(<<j>>) = {j} /\ Distinct(<<j>>)
  BY <1>1 DEF ToSet, Distinct
<1> QED
  BY <1>1, <1>2, AppendAllFacts, AppendOther, AppendOwn DEF AppendOrder

-----------------------------------------------------------------------------
(* The rows and the FIFO, one step *)

\* A job never goes back to absent, so a parent keeps its children.
LEMMA ChildrenStay ==
  ASSUME \A c \in Jobs : state[c] # "absent" => state'[c] # "absent"
  PROVE  \A k \in Jobs : HasChildren(k) => HasChildren(k)'
BY DEF HasChildren

\* An operation on one row, which may push or unlink the row's job.
LEMMA OneRow ==
  ASSUME IInv, NEW j \in Jobs, NEW st \in States \ {"absent"},
         state' = [state EXCEPT ![j] = st],
         \/ order' = order \/ order' = AppendOrder(order, j) \/ order' = RemoveOrder(order, j),
         ~HasChildren(j) => /\ st \in ClaimableStates => Once(order', j)
                            /\ st \in {"running", "failed", "completed"} => Nowhere(order', j)
                            /\ st # "finalizing"
  PROVE  /\ state' \in [Jobs -> States] /\ order' \in Seq(Element)
         /\ \A k \in Jobs : JobInv(k)'
<1>1. state \in [Jobs -> States] /\ order \in Seq(Element)
  BY DEF IInv, TypeOK
<1>2. /\ state' \in [Jobs -> States] /\ state'[j] = st
      /\ \A k \in Jobs \ {j} : state'[k] = state[k]
  BY <1>1
<1>3. order' \in Seq(Element)
  BY <1>1, PushOne, RemoveFacts
<1>4. \A k \in Jobs : HasChildren(k) => HasChildren(k)'
  BY <1>2, ChildrenStay
<1>5. ASSUME NEW k \in Jobs, k # j PROVE JobInv(k)'
  <2>1. /\ Once(order, k) => Once(order', k)
        /\ Nowhere(order, k) => Nowhere(order', k)
    BY <1>1, <1>5, PushOne, RemoveFacts
  <2>2. JobInv(k) /\ state'[k] = state[k]
    BY <1>2, <1>5 DEF IInv
  <2> QED
    BY <1>4, <2>1, <2>2 DEF JobInv
<1>6. JobInv(j)'
  BY <1>2, <1>4 DEF JobInv
<1> QED
  BY <1>2, <1>3, <1>5, <1>6

\* A whole family enters the FIFO behind what is there.
LEMMA ManyRows ==
  ASSUME IInv, NEW ids \in Seq(Jobs), Distinct(ids), NEW lost \in SUBSET Jobs,
         lost \cap ToSet(ids) = {},
         \A k \in Jobs : state'[k] = IF k \in ToSet(ids) THEN "pending"
                                     ELSE IF k \in lost THEN "failed" ELSE state[k],
         state' \in [Jobs -> States], order' = AppendAll(order, ids),
         \A k \in ToSet(ids) \cup lost : ~HasChildren(k) => Nowhere(order, k)
  PROVE  order' \in Seq(Element) /\ \A k \in Jobs : JobInv(k)'
<1>1. order \in Seq(Element) /\ order' \in Seq(Element)
  BY AppendAllFacts DEF IInv, TypeOK
<1>2. \A k \in Jobs : HasChildren(k) => HasChildren(k)'
  BY ChildrenStay
<1>3. ASSUME NEW k \in Jobs PROVE JobInv(k)'
  <2>1. CASE k \in ToSet(ids)
    <3>1. Nowhere(order, k) => Once(order', k)
      BY <1>1, <2>1, AppendOwn
    <3> QED
      BY <1>2, <2>1, <3>1 DEF JobInv, ClaimableStates
  <2>2. CASE k \notin ToSet(ids)
    <3>1. /\ Once(order, k) => Once(order', k)
          /\ Nowhere(order, k) => Nowhere(order', k)
      BY <1>1, <2>2, AppendOther
    <3>2. CASE k \in lost
      BY <1>2, <2>2, <3>1, <3>2 DEF JobInv, ClaimableStates
    <3>3. CASE k \notin lost
      BY <1>2, <2>2, <3>1, <3>3 DEF JobInv, IInv
    <3> QED
      BY <3>2, <3>3
  <2> QED
    BY <2>1, <2>2
<1> QED
  BY <1>1, <1>3

\* A submitted batch: jobs that did not exist.
LEMMA SubmitKeeps ==
  ASSUME IInv, NEW ids \in Seq(Jobs), Distinct(ids), SubmitBatch(ids)
  PROVE  IInv'
<1>1. TypeOK /\ \A k \in Jobs : JobInv(k) /\ RowInv(k)
  BY DEF IInv
<1>2. /\ \A k \in ToSet(ids) : k \in Jobs /\ state[k] = "absent"
      /\ \A k \in Jobs : state'[k] = IF k \in ToSet(ids) THEN "pending" ELSE state[k]
      /\ state' \in [Jobs -> States]
  BY <1>1 DEF SubmitBatch, ToSet, TypeOK, States
<1>3. \A k \in ToSet(ids) : ~HasChildren(k) => Nowhere(order, k)
  BY <1>1, <1>2 DEF JobInv
<1>4. order' \in Seq(Element) /\ \A k \in Jobs : JobInv(k)'
  <2>1. {} \in SUBSET Jobs /\ {} \cap ToSet(ids) = {} /\ order' = AppendAll(order, ids)
    BY DEF SubmitBatch
  <2>2. \A k \in Jobs : state'[k] = IF k \in ToSet(ids) THEN "pending"
                                   ELSE IF k \in {} THEN "failed" ELSE state[k]
    BY <1>2
  <2>3. \A k \in ToSet(ids) \cup {} : ~HasChildren(k) => Nowhere(order, k)
    BY <1>3
  <2> QED
    BY <1>2, <2>1, <2>2, <2>3, ManyRows
<1>5. TypeOK'
  BY <1>1, <1>2, <1>4 DEF SubmitBatch, TypeOK
<1>6. \A k \in Jobs : RowInv(k)'
  BY <1>1, <1>2 DEF RowInv, SubmitBatch, HeldStates
<1> QED
  BY <1>4, <1>5, <1>6 DEF IInv

\* What a claim looks at are jobs: those of its snapshot, then those of the FIFO.
LEMMA ScannedFacts ==
  ASSUME NEW w \in Workers, claiming[w] \in Claim, order \in Seq(Element)
  PROVE  /\ Scanned(w) \in Seq(Jobs) /\ claiming[w].ids \in Seq(Jobs)
         /\ Len(Scanned(w)) = Len(claiming[w].ids) + Len(order)
         /\ \A i \in 1..Len(claiming[w].ids) : Scanned(w)[i] = claiming[w].ids[i]
         /\ \A i \in 1..Len(order) : Scanned(w)[Len(claiming[w].ids) + i] = order[i].job
<1> DEFINE a == claiming[w].ids
           b == IdsOf(order)
<1>1. a \in Seq(Jobs) /\ Len(a) \in Nat /\ Len(order) \in Nat
  BY DEF Claim
<1>2. \A i \in 1..Len(order) : order[i].job \in Jobs
  <2>1. \A i \in 1..Len(order) : order[i] \in Element
    OBVIOUS
  <2> QED
    BY <2>1 DEF Element
<1>3. b \in Seq(Jobs) /\ Len(b) = Len(order) /\ \A i \in 1..Len(order) : b[i] = order[i].job
  BY <1>1, <1>2 DEF IdsOf
<1>4. Scanned(w) = a \o b
  BY DEF Scanned
<1> HIDE DEF a, b
<1>5. a \o b \in Seq(Jobs) /\ Len(a \o b) = Len(a) + Len(order)
  BY <1>1, <1>3
<1>6. \A i \in 1..Len(a) : (a \o b)[i] = a[i]
  BY <1>1, <1>3
<1>7. \A i \in 1..Len(order) : (a \o b)[Len(a) + i] = b[i]
  BY <1>1, <1>3
<1> QED
  BY <1>1, <1>3, <1>4, <1>5, <1>6, <1>7 DEF a

\* The claim that finds a job takes one that is in the FIFO once.
LEMMA ClaimFirstKeeps ==
  ASSUME IInv, NEW w \in Workers, ClaimFirst(w)
  PROVE  IInv'
<1>1. TypeOK /\ \A k \in Jobs : JobInv(k) /\ RowInv(k)
  BY DEF IInv
<1>2. claiming[w] \in Claim /\ order \in Seq(Element)
  BY <1>1 DEF ClaimFirst, TypeOK
<1>3. PICK i \in 1..Len(Scanned(w)) :
        /\ TakesAt(w, i) /\ Row(Scanned(w)[i], "running", w, "live")
        /\ attempts' = [attempts EXCEPT ![Scanned(w)[i]] = @ + 1]
        /\ order' = RemoveOrder(order, Scanned(w)[i])
  BY DEF ClaimFirst
<1> DEFINE j == Scanned(w)[i]
<1>4. j \in Jobs
  <2>1. Scanned(w) \in Seq(Jobs)
    BY <1>2, ScannedFacts
  <2> QED
    BY <2>1
<1>5. state[j] \in ClaimableStates /\ ~HasChildren(j)
  BY <1>3 DEF TakesAt, CanTake, Eligible
<1> HIDE DEF j
<1>6. /\ state' = [state EXCEPT ![j] = "running"] /\ worker' = [worker EXCEPT ![j] = w]
      /\ attempts' = [attempts EXCEPT ![j] = @ + 1] /\ order' = RemoveOrder(order, j)
      /\ artifact' = artifact /\ due' = due /\ claiming' = [claiming EXCEPT ![w] = None]
  BY <1>3 DEF Row, ClaimFirst, j
<1>7. Nowhere(order', j)
  BY <1>1, <1>2, <1>4, <1>5, <1>6, RemoveFacts DEF JobInv
<1>8. /\ state' \in [Jobs -> States] /\ order' \in Seq(Element)
      /\ \A k \in Jobs : JobInv(k)'
  BY <1>4, <1>6, <1>7, OneRow DEF States, ClaimableStates
<1>9. TypeOK'
  BY <1>1, <1>4, <1>6, <1>8 DEF TypeOK
<1>10. \A k \in Jobs : RowInv(k)'
  BY <1>1, <1>4, <1>6 DEF RowInv, TypeOK
<1> QED
  BY <1>8, <1>9, <1>10 DEF IInv

\* The operations on one row that no other process prepares.
LEMMA RowKeeps ==
  ASSUME IInv, NEW j \in Jobs,
         \/ Cancel(j) \/ Retry(j)
         \/ \E w \in Workers : \/ ClaimFinalization(j, w) \/ Complete(j, w) \/ Rendered(j, w)
                              \/ Fail(j, w) \/ FailPermanently(j, w)
  PROVE  IInv'
<1>1. TypeOK /\ \A k \in Jobs : JobInv(k) /\ RowInv(k)
  BY DEF IInv
<1>2. order \in Seq(Element)
  BY <1>1 DEF TypeOK
\* A job that is no anchor and is held is running, and so nowhere in the FIFO.
<1>3. state[j] \in HeldStates \cup {"failed"} /\ ~HasChildren(j) => Nowhere(order, j)
  BY <1>1 DEF JobInv, HeldStates
<1>4. /\ Nowhere(order, j) => Once(AppendOrder(order, j), j)
  BY <1>2, PushOne
<1> DEFINE Kept(st, wk, a, o) ==
             /\ state' = [state EXCEPT ![j] = st] /\ worker' = wk
             /\ artifact' = a /\ order' = o /\ UNCHANGED <<attempts, due, claiming>>
<1>5. ASSUME NEW st \in States \ {"absent"}, NEW wk, NEW a, NEW o, Kept(st, wk, a, o), state[j] # "absent",
             \/ wk = worker /\ st \notin HeldStates
             \/ \E v \in Workers \cup {None} :
                  wk = [worker EXCEPT ![j] = v] /\ (st \in HeldStates => v \in Workers),
             a = artifact \/ a = [artifact EXCEPT ![j] = TRUE],
             o = order \/ o = AppendOrder(order, j),
             ~HasChildren(j) => /\ st \in ClaimableStates => Once(o, j)
                                /\ st \in {"running", "failed", "completed"} => Nowhere(o, j)
                                /\ st # "finalizing"
      PROVE  IInv'
  <2>1. /\ state' \in [Jobs -> States] /\ order' \in Seq(Element)
        /\ \A k \in Jobs : JobInv(k)'
    BY <1>5, OneRow
  <2>2. worker' \in [Jobs -> Workers \cup {None}] /\ \A k \in Jobs \ {j} : worker'[k] = worker[k]
    BY <1>1, <1>5 DEF TypeOK
  <2>3. artifact' \in [Jobs -> BOOLEAN] /\ \A k \in Jobs \ {j} : artifact'[k] = artifact[k]
    BY <1>1, <1>5 DEF TypeOK
  <2>4. state'[j] = st /\ \A k \in Jobs \ {j} : state'[k] = state[k]
    BY <1>1, <1>5 DEF TypeOK
  <2>5. st \in HeldStates => worker'[j] \in Workers
    BY <1>1, <1>5 DEF TypeOK
  <2>6. \A k \in Jobs : RowInv(k)'
    BY <1>1, <1>5, <2>2, <2>3, <2>4, <2>5 DEF RowInv
  <2>7. TypeOK'
    BY <1>1, <1>5, <2>1, <2>2, <2>3 DEF TypeOK
  <2> QED
    BY <2>1, <2>6, <2>7 DEF IInv
<1> HIDE DEF Kept
<1>6. CASE Cancel(j)
  <2>1. Kept("cancelled", [worker EXCEPT ![j] = None], artifact, order) /\ state[j] # "absent"
    BY <1>6 DEF Cancel, Row, Kept
  <2> QED
    BY <1>5, <2>1 DEF States, HeldStates, ClaimableStates
<1>7. CASE Retry(j)
  <2>1. Kept("pending", [worker EXCEPT ![j] = None], artifact, AppendOrder(order, j)) /\ state[j] = "failed"
    BY <1>7 DEF Retry, Row, Kept
  <2> QED
    BY <1>3, <1>4, <1>5, <2>1 DEF States, HeldStates, ClaimableStates
<1>8. ASSUME NEW w \in Workers, ClaimFinalization(j, w) PROVE IInv'
  <2>1. Kept("finalizing", [worker EXCEPT ![j] = w], artifact, order) /\ state[j] # "absent" /\ HasChildren(j)
    BY <1>8 DEF ClaimFinalization, Row, Kept
  <2>2. [worker EXCEPT ![j] = w][j] = w
    BY <1>1 DEF TypeOK
  <2> QED
    BY <1>5, <1>8, <2>1, <2>2 DEF States
<1>9. ASSUME NEW w \in Workers, Complete(j, w) PROVE IInv'
  <2>1. Kept("completed", worker, [artifact EXCEPT ![j] = TRUE], order) /\ state[j] \in HeldStates
    BY <1>9 DEF Complete, Owns, Kept
  <2> QED
    BY <1>3, <1>5, <2>1 DEF States, HeldStates, ClaimableStates
<1>10. ASSUME NEW w \in Workers, Rendered(j, w) PROVE IInv'
  <2>1. /\ Kept("rendered", [worker EXCEPT ![j] = None], [artifact EXCEPT ![j] = TRUE], AppendOrder(order, j))
        /\ state[j] \in HeldStates
    BY <1>10 DEF Rendered, Row, Owns, Kept
  <2> QED
    BY <1>3, <1>4, <1>5, <2>1 DEF States, HeldStates, ClaimableStates
<1>11. ASSUME NEW w \in Workers, Fail(j, w) /\ ShouldFailPermanently(attempts[j]) PROVE IInv'
  <2>1. Kept("failed", worker, artifact, order) /\ state[j] \in HeldStates
    BY <1>11 DEF Fail, Owns, Kept
  <2> QED
    BY <1>3, <1>5, <2>1 DEF States, HeldStates, ClaimableStates
<1>12. ASSUME NEW w \in Workers, Fail(j, w) /\ ~ShouldFailPermanently(attempts[j]) PROVE IInv'
  <2>1. /\ Kept("pending", [worker EXCEPT ![j] = None], artifact, AppendOrder(order, j))
        /\ state[j] \in HeldStates
    BY <1>12 DEF Fail, Row, Owns, Kept
  <2> QED
    BY <1>3, <1>4, <1>5, <2>1 DEF States, HeldStates, ClaimableStates
<1>13. ASSUME NEW w \in Workers, FailPermanently(j, w) PROVE IInv'
  <2>1. Kept("failed", [worker EXCEPT ![j] = None], artifact, order) /\ state[j] \in HeldStates
    BY <1>13 DEF FailPermanently, Row, Owns, Kept
  <2> QED
    BY <1>3, <1>5, <2>1 DEF States, HeldStates, ClaimableStates
<1> QED
  BY <1>6, <1>7, <1>8, <1>9, <1>10, <1>11, <1>12, <1>13

\* The sweep gives every expired job up or queues it again.
LEMMA SweepKeeps ==
  ASSUME IInv, RequeueExpired
  PROVE  IInv'
<1>1. TypeOK /\ \A k \in Jobs : JobInv(k) /\ RowInv(k)
  BY DEF IInv
<1> DEFINE lost == {j \in Expired : ShouldFailPermanently(attempts[j])}
           back == Expired \ lost
<1>2. lost \subseteq Jobs /\ back \subseteq Jobs /\ lost \cap back = {}
      /\ \A k \in lost \cup back : state[k] \in HeldStates
  BY DEF Expired
<1>3. /\ state' = [j \in Jobs |-> IF j \in lost THEN "failed"
                                  ELSE IF j \in back THEN "pending" ELSE state[j]]
      /\ worker' = [j \in Jobs |-> IF j \in back THEN None ELSE worker[j]]
      /\ \E ids \in SetToSeqs(back) : order' = AppendAll(order, ids)
      /\ UNCHANGED <<lease, attempts, artifact, due, claiming>>
  BY DEF RequeueExpired
<1> HIDE DEF lost, back
<1>4. PICK ids \in SetToSeqs(back) : order' = AppendAll(order, ids)
  BY <1>3
<1>5. ids \in Seq(Jobs) /\ Distinct(ids) /\ ToSet(ids) = back
  BY <1>2, PermutationFacts
<1>6. state' \in [Jobs -> States]
  BY <1>1, <1>3 DEF TypeOK, States
<1>7. \A k \in back \cup lost : ~HasChildren(k) => Nowhere(order, k)
  BY <1>1, <1>2 DEF JobInv, HeldStates
<1>8. order' \in Seq(Element) /\ \A k \in Jobs : JobInv(k)'
  <2>1. \A k \in Jobs : state'[k] = IF k \in ToSet(ids) THEN "pending"
                                   ELSE IF k \in lost THEN "failed" ELSE state[k]
    BY <1>2, <1>3, <1>5
  <2> QED
    BY <1>2, <1>4, <1>5, <1>6, <1>7, <2>1, ManyRows
<1>9. TypeOK'
  BY <1>1, <1>3, <1>6, <1>8 DEF TypeOK
<1>10. \A k \in Jobs : RowInv(k)'
  BY <1>1, <1>2, <1>3 DEF RowInv, HeldStates
<1> QED
  BY <1>8, <1>9, <1>10 DEF IInv

\* The steps that leave states and FIFO alone.
LEMMA FrameKeeps ==
  ASSUME IInv, UNCHANGED <<state, worker, attempts, artifact, order>>,
         due' \in SUBSET Jobs, claiming' \in [Workers -> Claim \cup {None}]
  PROVE  IInv'
<1>1. \A k \in Jobs : HasChildren(k)' <=> HasChildren(k)
  BY DEF HasChildren
<1> QED
  BY <1>1 DEF IInv, TypeOK, JobInv, RowInv

-----------------------------------------------------------------------------
\* At start there is no job and the FIFO is empty.
LEMMA InitInv == Init => IInv
<1> SUFFICES ASSUME Init PROVE IInv
  OBVIOUS
<1>1. order \in Seq(Element) /\ Len(order) = 0
  BY DEF Init
<1>2. TypeOK
  BY <1>1 DEF Init, TypeOK, States
<1>3. \A j \in Jobs : JobInv(j) /\ RowInv(j)
  BY <1>1 DEF Init, JobInv, RowInv, Nowhere, ClaimableStates, HeldStates
<1> QED
  BY <1>2, <1>3 DEF IInv

\* Every operation keeps the rows and the FIFO in step.
LEMMA StepInv == IInv /\ [Next]_vars => IInv'
<1> SUFFICES ASSUME IInv, [Next]_vars PROVE IInv'
  OBVIOUS
<1>1. claiming \in [Workers -> Claim \cup {None}] /\ order \in Seq(Element)
      /\ due \in SUBSET Jobs
  BY DEF IInv, TypeOK
<1>2. CASE UNCHANGED vars
  BY <1>1, <1>2, FrameKeeps DEF vars, row
<1>3. ASSUME NEW j \in Jobs, Submit(j) PROVE IInv'
  <2>1. <<j>> \in Seq(Jobs) /\ Distinct(<<j>>)
    BY DEF Distinct
  <2> QED
    BY <1>3, <2>1, SubmitKeeps DEF Submit
<1>4. ASSUME NEW ids \in Batches, SubmitBatch(ids) PROVE IInv'
  <2>1. PICK S \in SUBSET Jobs : ids \in SetToSeqs(S)
    BY DEF Batches
  <2> QED
    BY <1>4, <2>1, PermutationFacts, SubmitKeeps
<1>5. ASSUME NEW j \in Jobs, LeaseElapses(j) \/ NotBeforePasses(j) PROVE IInv'
  BY <1>1, <1>5, FrameKeeps DEF LeaseElapses, NotBeforePasses
<1>6. ASSUME NEW w \in Workers, NEW want \in Filters, Snapshot(w, want) PROVE IInv'
  <2>1. IdsOf(order) \in Seq(Jobs)
    <3>1. \A i \in 1..Len(order) : order[i] \in Element
      BY <1>1
    <3>2. \A i \in 1..Len(order) : order[i].job \in Jobs
      BY <3>1 DEF Element
    <3> QED
      BY <1>1, <3>2 DEF IdsOf
  <2>2. [ids |-> IdsOf(order), want |-> want, due |-> due] \in Claim
    BY <1>1, <2>1 DEF Claim
  <2> QED
    BY <1>1, <1>6, <2>2, FrameKeeps DEF Snapshot, row
<1>7. ASSUME NEW w \in Workers, ClaimNothing(w) PROVE IInv'
  BY <1>1, <1>7, FrameKeeps DEF ClaimNothing, row
<1>8. ASSUME NEW j \in Jobs, NEW w \in Workers, Renew(j, w) PROVE IInv'
  BY <1>1, <1>8, FrameKeeps DEF Renew
<1>9. ASSUME NEW j \in Jobs, Cancel(j) \/ Retry(j) PROVE IInv'
  BY <1>9, RowKeeps
<1>10. ASSUME NEW j \in Jobs, NEW w \in Workers,
              \/ ClaimFinalization(j, w) \/ Complete(j, w) \/ Rendered(j, w)
              \/ Fail(j, w) \/ FailPermanently(j, w)
       PROVE  IInv'
  BY <1>10, RowKeeps
<1> QED
  BY <1>2, <1>3, <1>4, <1>5, <1>6, <1>7, <1>8, <1>9, <1>10, ClaimFirstKeeps, SweepKeeps DEF Next

(* The inductive invariant: the rows are typed, and the state of each job    *)
(* fits the elements it has in the FIFO.                                     *)
THEOREM FifoInvariant == Spec => []IInv
BY InitInv, StepInv, PTL DEF Spec

(* No job falls out of the FIFO of the in-memory store and none is in it     *)
(* twice (appendOrderLocked and removeOrderLocked under every operation),    *)
(* except the anchors, which no claim takes.                                 *)
THEOREM FifoCorrect == Spec => []FifoHoldsEveryJob
<1>1. IInv => FifoHoldsEveryJob
  <2> SUFFICES ASSUME IInv, NEW j \in Jobs, ~HasChildren(j)
               PROVE  LET at == {i \in 1..Len(order) : order[i].job = j}
                      IN  /\ state[j] \in ClaimableStates =>
                               Cardinality(at) = 1 /\ \A i \in at : order[i].indexed
                          /\ state[j] = "running" => at = {}
    BY DEF FifoHoldsEveryJob
  <2> DEFINE at == {i \in 1..Len(order) : order[i].job = j}
  <2>1. JobInv(j)
    BY DEF IInv
  <2>2. ASSUME state[j] \in ClaimableStates
        PROVE  Cardinality(at) = 1 /\ \A i \in at : order[i].indexed
    <3>1. Once(order, j)
      BY <2>1, <2>2 DEF JobInv
    <3>2. PICK i \in 1..Len(order) : /\ order[i].job = j /\ order[i].indexed
                                     /\ \A k \in 1..Len(order) : order[k].job = j => k = i
      BY <3>1 DEF Once
    <3>3. at = {i}
      BY <3>2
    <3> QED
      BY <3>2, <3>3, FS_Singleton
  <2>3. state[j] = "running" => at = {}
    BY <2>1 DEF JobInv, Nowhere
  <2> QED
    BY <2>2, <2>3
<1> QED
  BY <1>1, FifoInvariant, PTL

\* A job that a claim may take is one the claim looks at.
LEMMA EligibleIsScanned ==
  ASSUME IInv, NEW w \in Workers, claiming[w] \in Claim, NEW j \in Jobs, CanTake(w, j)
  PROVE  \E i \in 1..Len(Scanned(w)) : TakesAt(w, i)
<1> DEFINE ids == claiming[w].ids
<1>1. state[j] \in ClaimableStates /\ ~HasChildren(j) /\ order \in Seq(Element)
  BY DEF CanTake, Eligible, IInv, TypeOK
<1>2. Once(order, j)
  BY <1>1 DEF IInv, JobInv
<1>3. PICK n \in 1..Len(order) : order[n].job = j /\ order[n].indexed
  BY <1>2 DEF Once
<1>4. HasIndex(j)
  BY <1>3 DEF HasIndex
<1>5. /\ ids \in Seq(Jobs) /\ Len(ids) \in Nat /\ Len(order) \in Nat
      /\ Len(Scanned(w)) = Len(ids) + Len(order)
      /\ \A i \in 1..Len(ids) : Scanned(w)[i] = ids[i]
      /\ \A i \in 1..Len(order) : Scanned(w)[Len(ids) + i] = order[i].job
  BY <1>1, ScannedFacts
<1>6. CASE j \in ToSet(ids)
  <2>1. PICK i \in 1..Len(ids) : ids[i] = j
    BY <1>5, <1>6 DEF ToSet
  <2>2. i \in 1..Len(Scanned(w)) /\ Scanned(w)[i] = j /\ i <= Len(ids)
    BY <1>5, <2>1
  <2>3. TakesAt(w, i)
    BY <1>4, <2>2 DEF TakesAt, PassesOver
  <2> QED
    BY <2>2, <2>3
<1>7. CASE j \notin ToSet(ids)
  <2> DEFINE i == Len(ids) + n
  <2>1. i \in 1..Len(Scanned(w)) /\ Scanned(w)[i] = j /\ ~(i <= Len(ids))
    BY <1>3, <1>5
  <2> HIDE DEF i
  <2>2. TakesAt(w, i)
    BY <1>7, <2>1 DEF TakesAt, PassesOver
  <2> QED
    BY <2>1, <2>2
<1> QED
  BY <1>6, <1>7

(* A claim of the in-memory store answers "no job" only when there is none   *)
(* for it, whatever came between its two locks (ClaimState).                 *)
THEOREM EmptyCorrect == Spec => EmptyOnlyWhenNothing
<1>1. ASSUME IInv, [Next]_vars, NEW w \in Workers,
             claiming[w] # None, claiming'[w] = None, state' = state, NEW j \in Jobs, CanTake(w, j)
      PROVE  FALSE
  <2>1. claiming \in [Workers -> Claim \cup {None}] /\ claiming[w] \in Claim /\ state \in [Jobs -> States]
    BY <1>1 DEF IInv, TypeOK
  <2>2. \E i \in 1..Len(Scanned(w)) : TakesAt(w, i)
    BY <1>1, <2>1, EligibleIsScanned
  <2>3. ~ClaimNothing(w)
    BY <2>2 DEF ClaimNothing
  <2>4. ASSUME NEW v \in Workers, ClaimFirst(v) PROVE FALSE
    <3>1. PICK i \in 1..Len(Scanned(v)) : TakesAt(v, i) /\ Row(Scanned(v)[i], "running", v, "live")
      BY <2>4 DEF ClaimFirst
    <3>2. Scanned(v)[i] \in Jobs
      <4>1. claiming[v] \in Claim /\ order \in Seq(Element)
        BY <1>1, <2>1, <2>4 DEF ClaimFirst, IInv, TypeOK
      <4>2. Scanned(v) \in Seq(Jobs)
        BY <4>1, ScannedFacts
      <4> QED
        BY <4>2
    <3>3. state[Scanned(v)[i]] \in ClaimableStates
      BY <3>1 DEF TakesAt, CanTake, Eligible
    <3>4. state'[Scanned(v)[i]] = "running"
      BY <2>1, <3>1, <3>2 DEF Row
    <3> QED
      BY <1>1, <3>3, <3>4 DEF ClaimableStates
  <2>5. ASSUME NEW v \in Workers, v # w, ClaimNothing(v) \/ \E want \in Filters : Snapshot(v, want)
        PROVE  FALSE
    BY <1>1, <2>1, <2>5 DEF ClaimNothing, Snapshot
  <2>6. ASSUME NEW want \in Filters, Snapshot(w, want) PROVE FALSE
    BY <1>1, <2>6 DEF Snapshot
  <2>7. claiming' # claiming
    BY <1>1
  <2>8. ASSUME NEW i \in Jobs, NEW v \in Workers,
               \/ Submit(i) \/ Cancel(i) \/ Retry(i) \/ LeaseElapses(i) \/ NotBeforePasses(i)
               \/ ClaimFinalization(i, v) \/ Complete(i, v) \/ Rendered(i, v)
               \/ Fail(i, v) \/ FailPermanently(i, v) \/ Renew(i, v)
        PROVE  claiming' = claiming
    BY <2>8 DEF Submit, SubmitBatch, Cancel, Retry, LeaseElapses, NotBeforePasses, ClaimFinalization,
                Complete, Rendered, Fail, FailPermanently, Renew
  <2>9. (\E ids \in Batches : SubmitBatch(ids)) \/ RequeueExpired \/ UNCHANGED vars => claiming' = claiming
    BY DEF SubmitBatch, RequeueExpired, vars
  <2> QED
    BY <1>1, <2>3, <2>4, <2>5, <2>6, <2>7, <2>8, <2>9 DEF Next
<1>2. IInv /\ [Next]_vars =>
        [\A w \in Workers :
           claiming[w] # None /\ claiming'[w] = None /\ state' = state =>
             ~\E j \in Jobs : CanTake(w, j)]_vars
  BY <1>1
<1> QED
  BY <1>2, FifoInvariant, PTL DEF Spec, EmptyOnlyWhenNothing

-----------------------------------------------------------------------------
(* The store implements the life cycle of JobLifecycle, row by row.          *)

Keeps(k) == attempts'[k] = attempts[k] /\ artifact'[k] = artifact[k]

(* What a step of the store may do to one row. *)
Arc(k) ==
  \/ state[k] = "absent" /\ state'[k] = "pending" /\ Keeps(k)
  \/ /\ state[k] \in ClaimableStates /\ state'[k] = "running"
     /\ attempts'[k] = attempts[k] + 1 /\ artifact'[k] = artifact[k]
  \/ state[k] \in {"pending", "running"} /\ state'[k] = "finalizing" /\ Keeps(k)
  \/ /\ state[k] \in HeldStates /\ ~ShouldFailPermanently(attempts[k])
     /\ state'[k] = "pending" /\ Keeps(k)
  \/ state[k] \in HeldStates /\ state'[k] = "failed" /\ Keeps(k)
  \/ /\ state[k] \in HeldStates /\ state'[k] \in {"rendered", "completed"}
     /\ attempts'[k] = attempts[k] /\ artifact'[k] = TRUE
  \/ state[k] \in ClaimableStates \cup HeldStates /\ state'[k] = "cancelled" /\ Keeps(k)
  \/ state[k] = "failed" /\ state'[k] = "pending" /\ Keeps(k)
  \/ state'[k] = state[k] /\ worker'[k] = worker[k] /\ Keeps(k)

(* Every arc of a row is an arc of the life cycle. *)
LEMMA JobArcs ==
  ASSUME NEW k \in Jobs, TypeOK, RowInv(k), RowInv(k)', Arc(k)
  PROVE  Lifecycle!JobStep(k)
<1>1. attempts[k] \in Nat /\ state[k] \in States /\ MaxAttempts \in Nat
  BY MemQueueAssumption DEF TypeOK
<1>2. state'[k] \in HeldStates => worker'[k] \in Workers
  BY DEF RowInv
<1> USE DEF Lifecycle!JobStep, Lifecycle!Becomes, PhaseOf, HeldStates, ClaimableStates, Keeps
<1>3. CASE state[k] = "absent" /\ state'[k] = "pending" /\ Keeps(k)
  BY <1>3 DEF Lifecycle!Accept, RowInv
<1>4. CASE /\ state[k] \in ClaimableStates /\ state'[k] = "running"
           /\ attempts'[k] = attempts[k] + 1 /\ artifact'[k] = artifact[k]
  BY <1>2, <1>4 DEF Lifecycle!Start
<1>5. CASE state[k] \in {"pending", "running"} /\ state'[k] = "finalizing" /\ Keeps(k)
  BY <1>2, <1>5 DEF Lifecycle!Assemble
<1>6. CASE /\ state[k] \in HeldStates /\ ~ShouldFailPermanently(attempts[k])
           /\ state'[k] = "pending" /\ Keeps(k)
  BY <1>1, <1>6 DEF Lifecycle!GiveBack, ShouldFailPermanently
<1>7. CASE state[k] \in HeldStates /\ state'[k] = "failed" /\ Keeps(k)
  BY <1>7 DEF Lifecycle!GiveUp
<1>8. CASE /\ state[k] \in HeldStates /\ state'[k] \in {"rendered", "completed"}
           /\ attempts'[k] = attempts[k] /\ artifact'[k] = TRUE
  BY <1>8 DEF Lifecycle!Park, Lifecycle!Finish
<1>9. CASE state[k] \in ClaimableStates \cup HeldStates /\ state'[k] = "cancelled" /\ Keeps(k)
  BY <1>9 DEF Lifecycle!Withdraw
<1>10. CASE state[k] = "failed" /\ state'[k] = "pending" /\ Keeps(k)
  BY <1>10 DEF Lifecycle!Reopen
<1>11. CASE state'[k] = state[k] /\ worker'[k] = worker[k] /\ Keeps(k)
  BY <1>11 DEF Lifecycle!Stay
<1> QED
  BY <1>3, <1>4, <1>5, <1>6, <1>7, <1>8, <1>9, <1>10, <1>11 DEF Arc

(* Every operation moves every row along one of the arcs. *)
LEMMA StepArcs == IInv /\ Next => \A k \in Jobs : Arc(k)
<1> SUFFICES ASSUME IInv, Next, NEW k \in Jobs PROVE Arc(k)
  OBVIOUS
<1>0. /\ state = [j \in Jobs |-> state[j]] /\ worker = [j \in Jobs |-> worker[j]]
      /\ attempts = [j \in Jobs |-> attempts[j]] /\ artifact = [j \in Jobs |-> artifact[j]]
      /\ state[k] \in States
  BY DEF IInv, TypeOK
<1> USE DEF Keeps, HeldStates, ClaimableStates
<1>1. ASSUME NEW ids, SubmitBatch(ids), k \in ToSet(ids) => state[k] = "absent" PROVE Arc(k)
  BY <1>0, <1>1 DEF SubmitBatch, Arc
<1>2. ASSUME NEW j \in Jobs, Submit(j) PROVE Arc(k)
  <2>1. k \in ToSet(<<j>>) => state[k] = "absent"
    BY <1>2 DEF Submit, SubmitBatch, ToSet
  <2> QED
    BY <1>1, <1>2, <2>1 DEF Submit
<1>3. ASSUME NEW ids \in Batches, SubmitBatch(ids) PROVE Arc(k)
  <2>1. PICK S \in SUBSET Jobs : ids \in SetToSeqs(S)
    BY DEF Batches
  <2>2. ids \in Seq(Jobs)
    BY <2>1, PermutationFacts
  <2>3. k \in ToSet(ids) => state[k] = "absent"
    BY <1>3, <2>2 DEF SubmitBatch, ToSet
  <2> QED
    BY <1>1, <1>3, <2>3
<1>4. ASSUME NEW j \in Jobs, Cancel(j) PROVE Arc(k)
  BY <1>0, <1>4 DEF Cancel, Row, Arc, TerminalStates, States
<1>5. ASSUME NEW j \in Jobs, Retry(j) PROVE Arc(k)
  BY <1>0, <1>5 DEF Retry, Row, Arc
<1>6. ASSUME NEW w \in Workers, ClaimFirst(w) PROVE Arc(k)
  <2>1. PICK i \in 1..Len(Scanned(w)) :
          /\ TakesAt(w, i) /\ Row(Scanned(w)[i], "running", w, "live")
          /\ attempts' = [attempts EXCEPT ![Scanned(w)[i]] = @ + 1]
    BY <1>6 DEF ClaimFirst
  <2> DEFINE j == Scanned(w)[i]
  <2>2. state[j] \in ClaimableStates /\ artifact' = artifact
    BY <1>6, <2>1 DEF TakesAt, CanTake, Eligible, ClaimFirst
  <2>3. /\ state' = [state EXCEPT ![j] = "running"] /\ worker' = [worker EXCEPT ![j] = w]
        /\ attempts' = [attempts EXCEPT ![j] = @ + 1]
    BY <2>1 DEF Row
  <2> HIDE DEF j
  <2> QED
    BY <1>0, <2>2, <2>3 DEF Arc
<1>7. ASSUME NEW w \in Workers, ClaimNothing(w) \/ \E want \in Filters : Snapshot(w, want) PROVE Arc(k)
  BY <1>0, <1>7 DEF ClaimNothing, Snapshot, row, Arc
<1>8. ASSUME NEW j \in Jobs, NEW w \in Workers, ClaimFinalization(j, w) PROVE Arc(k)
  BY <1>0, <1>8 DEF ClaimFinalization, Row, Arc
<1>9. ASSUME NEW j \in Jobs, NEW w \in Workers, Complete(j, w) PROVE Arc(k)
  BY <1>0, <1>9 DEF Complete, Owns, Arc
<1>10. ASSUME NEW j \in Jobs, NEW w \in Workers, Rendered(j, w) PROVE Arc(k)
  BY <1>0, <1>10 DEF Rendered, Owns, Row, Arc
<1>11. ASSUME NEW j \in Jobs, NEW w \in Workers, Fail(j, w) PROVE Arc(k)
  BY <1>0, <1>11 DEF Fail, Owns, Row, Arc
<1>12. ASSUME NEW j \in Jobs, NEW w \in Workers, FailPermanently(j, w) PROVE Arc(k)
  BY <1>0, <1>12 DEF FailPermanently, Owns, Row, Arc
<1>13. ASSUME NEW j \in Jobs, NEW w \in Workers, Renew(j, w) PROVE Arc(k)
  BY <1>0, <1>13 DEF Renew, Arc
<1>14. ASSUME NEW j \in Jobs, LeaseElapses(j) \/ NotBeforePasses(j) PROVE Arc(k)
  BY <1>0, <1>14 DEF LeaseElapses, NotBeforePasses, Arc
<1>15. CASE RequeueExpired
  BY <1>0, <1>15 DEF RequeueExpired, Expired, Arc
<1> QED
  BY <1>2, <1>3, <1>4, <1>5, <1>6, <1>7, <1>8, <1>9, <1>10, <1>11, <1>12, <1>13, <1>14, <1>15 DEF Next

(* The in-memory store implements the life cycle of JobLifecycle for every   *)
(* number of jobs, workers and attempts, as the PostgreSQL store does.       *)
THEOREM MemLifecycleCorrect == Spec => ImplementsLifecycle
<1>1. Init => Lifecycle!Init
  BY DEF Init, Lifecycle!Init, PhaseOf, ClaimableStates, HeldStates
<1>2. IInv /\ IInv' /\ [Next]_vars => [Lifecycle!Next]_(Lifecycle!vars)
  <2> SUFFICES ASSUME IInv, IInv', [Next]_vars PROVE [Lifecycle!Next]_(Lifecycle!vars)
    OBVIOUS
  <2>1. CASE Next
    <3>1. ASSUME NEW k \in Jobs PROVE Lifecycle!JobStep(k)
      BY <2>1, <3>1, StepArcs, JobArcs DEF IInv
    <3> QED
      BY <3>1 DEF Lifecycle!Next
  <2>2. CASE UNCHANGED vars
    BY <2>2 DEF vars, row, Lifecycle!vars, PhaseOf
  <2> QED
    BY <2>1, <2>2
<1> QED
  BY <1>1, <1>2, FifoInvariant, PTL DEF Spec, ImplementsLifecycle, Lifecycle!Spec
=============================================================================
