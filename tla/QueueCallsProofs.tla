---------------------------- MODULE QueueCallsProofs ----------------------------
(***************************************************************************)
(* Proofs about the calls to the queue: what a producer is told of its     *)
(* submissions is true for any manifests, and the ledger that the calls    *)
(* under a lease write is sound for any number of jobs, loops, attempts    *)
(* and faults.                                                             *)
(*                                                                         *)
(* None of the parts of LedgerIsSound is inductive.  The invariant says of *)
(* every call what it carries: the attempt its loop claimed, the render it *)
(* uploaded or took over, the answer it was given.  That the row, its      *)
(* artifact and its events agree needs nothing more.  That they tell of    *)
(* one render, and that an accepted report is the one served, is said of   *)
(* the jobs no render came to after its attempt was over: the store        *)
(* compares the worker id, and what tells the attempts of a job apart is   *)
(* that a claim makes a number no loop has.                                *)
(***************************************************************************)
EXTENDS LeaseCalls, QueueApi, FiniteSetTheorems, SequenceTheorems, TLAPS

\* The numbers up to n are n.
LEMMA CountUpTo ==
  ASSUME NEW n \in Nat
  PROVE  IsFiniteSet(1..n) /\ Cardinality(1..n) = n
<1>1. n \in Int /\ 1 \in Int
  OBVIOUS
<1>2. IsFiniteSet(1..n) /\ Cardinality(1..n) = IF 1 > n THEN 0 ELSE n - 1 + 1
  BY <1>1, FS_Interval
<1> QED
  BY <1>2

\* A sequence and one element more.
LEMMA OneMore ==
  ASSUME NEW S, NEW s \in Seq(S), NEW e \in S, NEW more, more = Append(s, e)
  PROVE  /\ more \in Seq(S) /\ Len(more) = Len(s) + 1 /\ more[Len(s) + 1] = e
         /\ \A k \in 1..Len(s) : more[k] = s[k]
         /\ \A k \in 1..Len(more) : k \in 1..Len(s) \/ k = Len(more)
         /\ more[Len(more)] = e
OBVIOUS

-----------------------------------------------------------------------------
(* Submission *)

\* Where a call of a run stands while the run may go on.
Going == {"send", "select", "insert", "reselect", "answered", "readback", "await", "ok"}

\* A run at manifest m, wave w, job n, with call c, answer a, told t, wait wt and its
\* counts f and s: what it was told is stored, what it was refused stays refused, and its
\* wait is for a job it was told of.
CallSound(m, w, n, c, a, t, wt, f, s) ==
  /\ c \in Going => m \in Manifests /\ w \in {1, 2} /\ n \in 1..WaveLength(m, w)
  /\ \A id \in t : Stored(id)
  /\ c \in Going /\ (n > 1 \/ c \in {"await", "ok"}) => WaveJob(m, w, 1).id \in t
  /\ c = "answered" /\ a \in {"created", "replayed", "conflict"} => Stored(WaveJob(m, w, n).id)
  /\ c = "reselect" /\ apiFaults = 0 => RefusedRow(WaveJob(m, w, n))
  /\ c = "answered" /\ a = "unavailable" /\ apiFaults = 0 =>
       /\ ~ByKey(WaveJob(m, w, n).key)
       /\ Taken(WaveJob(m, w, n)) \/ WaveJob(m, w, n).defect = "chunk"
  /\ c = "await" => w = 1 /\ WaveLength(m, 2) > 0
  /\ wt # "none" => c = "ok"
  /\ wt \in {"none", "round", "poll", "terminal", "unavailable", "broken"}
  /\ wt = "terminal" => WaveJob(m, w, 1).id \in DOMAIN ended
  /\ wt = "round" => f = 0
  /\ wt = "poll" => f <= s
  /\ wt = "unavailable" => s >= MaxStatusFailures
  /\ f \in Nat /\ s \in Nat
SoundAt(p) ==
  CallSound(batch[p], wave[p], place[p], call[p], answer[p], told[p], waited[p], failures[p], streak[p])

ByProducer(f) == f = [p \in Producers |-> f[p]]
ApiTyped ==
  /\ ByProducer(batch) /\ ByProducer(wave) /\ ByProducer(place) /\ ByProducer(call) /\ ByProducer(answer)
  /\ ByProducer(told) /\ ByProducer(waited) /\ ByProducer(failures) /\ ByProducer(streak)
  /\ apiFaults \in Nat
RowsInv ==
  /\ \A r \in rows : r.key = <<r.id, r.plan>>
  /\ \A r, s \in rows : r.id = s.id => r = s
ApiInv == ApiTyped /\ RowsInv /\ \A p \in Producers : SoundAt(p)

LEMMA ApiInvInit == ApiInit => ApiInv
<1> SUFFICES ASSUME ApiInit
             PROVE  ApiInv
  OBVIOUS
<1>1. ApiTyped /\ RowsInv
  BY DEF ApiInit, ApiTyped, RowsInv, ByProducer
<1>2. ASSUME NEW p \in Producers
      PROVE  SoundAt(p)
  BY DEF ApiInit, SoundAt, CallSound, Going
<1> QED
  BY <1>1, <1>2 DEF ApiInv

\* The key of a job is its id and its plan.
LEMMA KeyOfJob ==
  ASSUME NEW j \in Submittable
  PROVE  j.key = <<j.id, j.plan>>
BY DEF Submittable, Derived, IdempotencyKey

\* The jobs of a wave.
LEMMA JobOfWave ==
  ASSUME NEW m \in Manifests, NEW w \in {1, 2}
  PROVE  /\ WaveLength(m, w) \in Nat
         /\ \A n \in 1..WaveLength(m, w) : WaveJob(m, w, n) \in Submittable
         /\ m # << >> => 1 \in 1..WaveLength(m, 1)
<1>1. m \in Seq(Entries) /\ Len(m) \in Nat /\ DOMAIN m = 1..Len(m)
  BY ManifestAssumption
<1>2. PICK base : base = {i \in DOMAIN m : ~m[i].language}
  OBVIOUS
<1>3. base \subseteq 1..Len(m) /\ IsFiniteSet(1..Len(m)) /\ Cardinality(1..Len(m)) = Len(m)
  BY <1>1, <1>2, CountUpTo
<1>4. PICK b \in 0..Len(m) : b = Bases(m) /\ b = Cardinality(base) /\ IsFiniteSet(base)
  <2>1. IsFiniteSet(base) /\ Cardinality(base) <= Len(m) /\ Cardinality(base) \in Nat
    <3>1. IsFiniteSet(base) /\ Cardinality(base) <= Len(m)
      BY <1>3, FS_Subset
    <3> QED
      BY <3>1, FS_CardinalityType
  <2>2. Cardinality(base) \in 0..Len(m)
    BY <1>1, <2>1
  <2>3. Bases(m) = Cardinality(base)
    BY <1>2 DEF Bases
  <2> QED
    BY <2>1, <2>2, <2>3
<1>5. WaveLength(m, w) \in Nat
  BY <1>1, <1>4 DEF WaveLength
<1>6. ASSUME NEW n \in 1..WaveLength(m, w)
      PROVE  WaveJob(m, w, n) \in Submittable
  <2>1. CASE w = 1
    <3>1. n \in 1..Len(m)
      BY <1>1, <1>4, <2>1 DEF WaveLength
    <3>2. m[n] \in Entries
      BY <1>1, <3>1
    <3> QED
      BY <2>1, <3>2 DEF WaveJob, Submittable
  <2>2. CASE w = 2
    <3>1. b + n \in 1..Len(m)
      BY <1>1, <1>4, <2>2 DEF WaveLength
    <3>2. m[b + n] \in Entries
      BY <1>1, <3>1
    <3> QED
      BY <1>4, <2>2, <3>2 DEF WaveJob, Submittable
  <2> QED
    BY <2>1, <2>2
<1>7. ASSUME m # << >>
      PROVE  1 \in 1..WaveLength(m, 1)
  <2>1. 1 \in DOMAIN m
    BY <1>1, <1>7
  <2>2. base # {}
    BY <1>2, <1>7, <2>1, ManifestAssumption
  <2>3. b # 0
    BY <1>4, <2>2, FS_EmptySet
  <2> QED
    BY <1>1, <1>4, <2>3 DEF WaveLength
<1> QED
  BY <1>5, <1>6, <1>7

\* What the queue may do between two looks of a run: store a job it does not refuse, end a
\* job, and fail.
Grows ==
  /\ rows' = rows \/ \E j \in Submittable : ~RefusedRow(j) /\ rows' = rows \cup {Row(j)}
  /\ DOMAIN ended \subseteq DOMAIN ended'
  /\ apiFaults' \in Nat /\ apiFaults <= apiFaults'

LEMMA RowsKeep ==
  ASSUME RowsInv, Grows
  PROVE  RowsInv' /\ rows \subseteq rows'
<1>1. CASE rows' = rows
  BY <1>1 DEF RowsInv
<1>2. ASSUME NEW j \in Submittable, ~RefusedRow(j), rows' = rows \cup {Row(j)}
      PROVE  RowsInv' /\ rows \subseteq rows'
  <2>1. Row(j).key = <<Row(j).id, Row(j).plan>> /\ Row(j).id = j.id
    BY KeyOfJob DEF Row
  <2>2. \A r \in rows : r.id # Row(j).id
    BY <1>2, <2>1 DEF RefusedRow, Taken, Stored
  <2> QED
    BY <1>2, <2>1, <2>2 DEF RowsInv
<1> QED
  BY <1>1, <1>2 DEF Grows

\* What a run knows stays true while the others go on.
LEMMA RunKeeps ==
  ASSUME ApiTyped, RowsInv, Grows, NEW m, NEW w, NEW n, NEW c, NEW a, NEW t, NEW wt, NEW f, NEW s,
         CallSound(m, w, n, c, a, t, wt, f, s)
  PROVE  CallSound(m, w, n, c, a, t, wt, f, s)'
<1>1. rows \subseteq rows' /\ DOMAIN ended \subseteq DOMAIN ended' /\ (apiFaults' = 0 => apiFaults = 0)
  BY RowsKeep DEF Grows, ApiTyped
<1>2. PICK j : j = WaveJob(m, w, n)
  OBVIOUS
<1>3. ASSUME c = "answered", a = "unavailable", apiFaults' = 0
      PROVE  /\ ~ByKey(j.key)'
             /\ Taken(j)' \/ j.defect = "chunk"
  <2>1. ~ByKey(j.key) /\ (Taken(j) \/ j.defect = "chunk")
    BY <1>1, <1>2, <1>3 DEF CallSound
  <2>2. j \in Submittable
    BY <1>2, <1>3, JobOfWave DEF CallSound, Going
  <2>3. ASSUME NEW k \in Submittable, ~RefusedRow(k), rows' = rows \cup {Row(k)}
        PROVE  Row(k).key # j.key
    <3>1. SUFFICES ASSUME k.key = j.key
                   PROVE  FALSE
      BY DEF Row
    <3>2. k.id = j.id
      BY <2>2, <3>1, KeyOfJob
    <3>3. k.defect = j.defect
      BY <2>2, <3>1, ManifestAssumption
    <3> QED
      BY <2>1, <2>3, <3>2, <3>3 DEF RefusedRow, Taken
  <2>4. ~ByKey(j.key)'
    BY <2>1, <2>3 DEF ByKey, Grows
  <2>5. Taken(j) => Taken(j)'
    BY <1>1 DEF Taken, Stored
  <2> QED
    BY <2>1, <2>4, <2>5
<1>4. c = "reselect" /\ apiFaults' = 0 => RefusedRow(j)'
  BY <1>1, <1>2 DEF CallSound, RefusedRow, Taken, Stored, ByKey
<1>5. \A id : Stored(id) => Stored(id)'
  BY <1>1 DEF Stored
<1> QED
  BY <1>1, <1>2, <1>3, <1>4, <1>5 DEF CallSound

\* The run of one producer moves, the others stay.
Same(q) ==
  /\ batch'[q] = batch[q] /\ wave'[q] = wave[q] /\ place'[q] = place[q] /\ call'[q] = call[q]
  /\ answer'[q] = answer[q] /\ told'[q] = told[q] /\ waited'[q] = waited[q]
  /\ failures'[q] = failures[q] /\ streak'[q] = streak[q]

LEMMA OneRunMoves ==
  ASSUME ApiInv, ApiTyped', Grows, NEW p \in Producers, SoundAt(p)',
         \A q \in Producers : q # p => Same(q)
  PROVE  ApiInv'
<1>1. RowsInv' /\ ApiTyped /\ RowsInv
  BY RowsKeep DEF ApiInv
<1>2. ASSUME NEW q \in Producers, q # p
      PROVE  SoundAt(q)'
  <2>1. CallSound(batch[q], wave[q], place[q], call[q], answer[q], told[q], waited[q], failures[q], streak[q])
    BY DEF ApiInv, SoundAt
  <2>2. PICK m, w, n, c : m = batch[q] /\ w = wave[q] /\ n = place[q] /\ c = call[q]
    OBVIOUS
  <2>3. PICK a, t, wt, f, s : a = answer[q] /\ t = told[q] /\ wt = waited[q] /\ f = failures[q] /\ s = streak[q]
    OBVIOUS
  <2>4. CallSound(m, w, n, c, a, t, wt, f, s)
    BY <2>1, <2>2, <2>3
  <2>5. CallSound(m, w, n, c, a, t, wt, f, s)'
    BY <1>1, <2>4, RunKeeps
  <2>6. /\ batch'[q] = m /\ wave'[q] = w /\ place'[q] = n /\ call'[q] = c
        /\ answer'[q] = a /\ told'[q] = t /\ waited'[q] = wt /\ failures'[q] = f /\ streak'[q] = s
    BY <1>2, <2>2, <2>3 DEF Same
  <2> QED
    BY <2>5, <2>6 DEF SoundAt
<1> QED
  BY <1>1, <1>2 DEF ApiInv

\* Nothing but the call and the answer of a run change.
AnswerHolds(j, a) ==
  /\ a \in {"created", "replayed", "conflict"} => Stored(j.id)
  /\ a = "unavailable" /\ apiFaults = 0 => ~ByKey(j.key) /\ (Taken(j) \/ j.defect = "chunk")

LEMMA CallChanges ==
  ASSUME ApiInv, Grows, NEW p \in Producers, NEW c \in {"select", "insert", "reselect", "answered", "readback", "error"},
         NEW a, NEW j, j = Current(p),
         UNCHANGED <<batch, wave, place, told, waited, failures, streak>>,
         call[p] \in {"send", "select", "insert", "reselect", "answered", "readback", "await"},
         call' = [call EXCEPT ![p] = c], answer' = [answer EXCEPT ![p] = a],
         c = "answered" => AnswerHolds(j, a)',
         c = "reselect" => (apiFaults' = 0 => RefusedRow(j)')
  PROVE  ApiInv'
<1>1. ApiTyped' /\ call'[p] = c /\ answer'[p] = a
  BY DEF ApiInv, ApiTyped, ByProducer, Grows
<1>2. \A q \in Producers : q # p => Same(q)
  BY DEF Same, ApiInv, ApiTyped, ByProducer
<1>3. PICK m, w, n : m = batch[p] /\ w = wave[p] /\ n = place[p]
  OBVIOUS
<1>4. PICK t, f, s, b : t = told[p] /\ f = failures[p] /\ s = streak[p] /\ b = call[p]
  OBVIOUS
<1>5. PICK wt, e : wt = waited[p] /\ e = answer[p]
  OBVIOUS
<1>6. CallSound(m, w, n, b, e, t, wt, f, s)
  BY <1>3, <1>4, <1>5 DEF ApiInv, SoundAt
<1>7. CallSound(m, w, n, b, e, t, wt, f, s)'
  BY <1>6, RunKeeps DEF ApiInv
<1>8. j = WaveJob(m, w, n) /\ b \in Going /\ b # "ok" /\ (b = "await" => w = 1 /\ WaveLength(m, 2) > 0)
  BY <1>3, <1>4, <1>6 DEF Current, Going, CallSound
<1>9. CallSound(m, w, n, c, a, t, wt, f, s)'
  BY <1>7, <1>8 DEF CallSound, AnswerHolds, Going
<1>10. SoundAt(p)'
  BY <1>1, <1>3, <1>4, <1>5, <1>9 DEF SoundAt
<1> QED
  BY <1>1, <1>2, <1>10, OneRunMoves

\* A job that is found by its key is stored under its id.
LEMMA KeyIsStored ==
  ASSUME RowsInv, NEW j \in Submittable
  PROVE  /\ ByKey(j.key) => Stored(j.id)
         /\ RefusedRow(j) <=> Taken(j) \/ j.defect = "chunk"
<1>1. j.key = <<j.id, j.plan>>
  BY KeyOfJob
<1>2. ASSUME NEW r \in rows, r.key = j.key
      PROVE  r.id = j.id
  BY <1>1, <1>2 DEF RowsInv
<1> QED
  BY <1>2 DEF ByKey, Stored, RefusedRow, Taken

\* The job a run is at, while the run goes on.
LEMMA CurrentJob ==
  ASSUME ApiInv, NEW p \in Producers, call[p] \in Going
  PROVE  /\ Current(p) \in Submittable /\ place[p] \in 1..WaveLength(batch[p], wave[p])
         /\ WaveLength(batch[p], wave[p]) \in Nat /\ batch[p] \in Manifests /\ wave[p] \in {1, 2}
<1>1. batch[p] \in Manifests /\ wave[p] \in {1, 2} /\ place[p] \in 1..WaveLength(batch[p], wave[p])
  BY DEF ApiInv, SoundAt, CallSound
<1> QED
  BY <1>1, JobOfWave DEF Current

LEMMA ServerSteps ==
  ASSUME ApiInv, NEW p \in Producers,
         \/ PostJob(p) \/ SelectByKey(p) \/ InsertRow(p) \/ SelectAgain(p)
         \/ CommitIsLost(p) \/ SubmitInMemory(p) \/ StorageFails(p) \/ RunBreaks(p)
  PROVE  ApiInv'
<1>1. PICK j : j = Current(p)
  OBVIOUS
<1>2. /\ call[p] \in {"send", "select", "insert", "reselect", "answered", "readback", "await"}
      /\ UNCHANGED <<batch, wave, place, told, waited, failures, streak>> /\ ended' = ended
  BY DEF PostJob, SelectByKey, InsertRow, SelectAgain, CommitIsLost, SubmitInMemory, StorageFails, RunBreaks
<1>3. j \in Submittable
  BY <1>1, <1>2, CurrentJob DEF Going
<1>4. /\ ByKey(j.key) => Stored(j.id)
      /\ RefusedRow(j) <=> Taken(j) \/ j.defect = "chunk"
  BY <1>3, KeyIsStored DEF ApiInv
<1>5. apiFaults \in Nat /\ answer = [answer EXCEPT ![p] = answer[p]]
  BY DEF ApiInv, ApiTyped, ByProducer
<1>6. ASSUME NEW c \in {"select", "insert", "reselect", "answered", "readback", "error"}, NEW a, Grows,
             call' = [call EXCEPT ![p] = c], answer' = [answer EXCEPT ![p] = a],
             c = "answered" => AnswerHolds(j, a)',
             c = "reselect" => (apiFaults' = 0 => RefusedRow(j)')
      PROVE  ApiInv'
  BY <1>1, <1>2, <1>6, CallChanges
<1>7. CASE PostJob(p)
  <2>1. Grows
    BY <1>5, <1>7 DEF PostJob, Grows
  <2>2. \/ call' = [call EXCEPT ![p] = "error"] /\ answer' = answer
        \/ call' = [call EXCEPT ![p] = "select"] /\ answer' = answer
        \/ call' = [call EXCEPT ![p] = "answered"] /\ answer' = [answer EXCEPT ![p] = "invalid"]
    BY <1>7 DEF PostJob, CallMoves, Answers
  <2>3. AnswerHolds(j, "invalid")'
    BY DEF AnswerHolds
  <2> QED
    BY <1>5, <1>6, <2>1, <2>2, <2>3
<1>8. CASE SelectByKey(p)
  <2>1. Grows /\ rows' = rows
    BY <1>5, <1>8 DEF SelectByKey, Grows
  <2>2. \/ call' = [call EXCEPT ![p] = "insert"] /\ answer' = answer
        \/ call' = [call EXCEPT ![p] = "answered"] /\ answer' = [answer EXCEPT ![p] = "replayed"] /\ ByKey(j.key)
    BY <1>1, <1>8 DEF SelectByKey, CallMoves, Answers
  <2>3. ByKey(j.key) => AnswerHolds(j, "replayed")'
    BY <1>4, <2>1 DEF AnswerHolds, Stored
  <2> QED
    BY <1>5, <1>6, <2>1, <2>2, <2>3
<1>9. CASE InsertRow(p)
  <2>1. CASE RefusedRow(j)
    <3>1. Grows /\ rows' = rows /\ call' = [call EXCEPT ![p] = "reselect"] /\ answer' = answer
      BY <1>1, <1>5, <1>9, <2>1 DEF InsertRow, Grows, CallMoves
    <3>2. RefusedRow(j)'
      BY <2>1, <3>1 DEF RefusedRow, Taken, Stored, ByKey
    <3> QED
      BY <1>5, <1>6, <3>1, <3>2
  <2>2. CASE ~RefusedRow(j)
    <3>1. /\ rows' = rows \cup {Row(j)} /\ apiFaults' = apiFaults
          /\ call' = [call EXCEPT ![p] = "answered"] /\ answer' = [answer EXCEPT ![p] = "created"]
      BY <1>1, <1>9, <2>2 DEF InsertRow, Answers, CallMoves
    <3>2. Grows
      BY <1>2, <1>3, <1>5, <2>2, <3>1 DEF Grows
    <3>3. AnswerHolds(j, "created")'
      <4>1. Row(j) \in rows' /\ Row(j).id = j.id
        BY <3>1 DEF Row
      <4> QED
        BY <4>1 DEF AnswerHolds, Stored
    <3> QED
      BY <1>6, <3>1, <3>2, <3>3
  <2> QED
    BY <2>1, <2>2
<1>10. CASE SelectAgain(p)
  <2>1. Grows /\ rows' = rows /\ apiFaults' = apiFaults
    BY <1>5, <1>10 DEF SelectAgain, Grows
  <2>2. /\ call' = [call EXCEPT ![p] = "answered"]
        /\ answer' = [answer EXCEPT ![p] = IF ByKey(j.key) THEN "replayed" ELSE "unavailable"]
    BY <1>1, <1>10 DEF SelectAgain, Answers, CallMoves, WinnersRow
  <2>3. apiFaults = 0 => RefusedRow(j)
    BY <1>1, <1>10 DEF SelectAgain, ApiInv, SoundAt, CallSound, Current
  <2>4. ByKey(j.key) => AnswerHolds(j, "replayed")'
    BY <1>4, <2>1 DEF AnswerHolds, Stored
  <2>5. ~ByKey(j.key) => AnswerHolds(j, "unavailable")'
    BY <1>4, <2>1, <2>3 DEF AnswerHolds, Stored, Taken, ByKey
  <2> QED
    BY <1>6, <2>1, <2>2, <2>4, <2>5
<1>11. CASE CommitIsLost(p)
  <2>1. rows' = rows \cup {Row(j)} /\ ~RefusedRow(j) /\ apiFaults' = apiFaults + 1
    BY <1>1, <1>11 DEF CommitIsLost, ApiFault
  <2>2. Grows /\ apiFaults' # 0
    BY <1>2, <1>3, <1>5, <2>1 DEF Grows
  <2>3. \/ call' = [call EXCEPT ![p] = "reselect"] /\ answer' = answer
        \/ call' = [call EXCEPT ![p] = "answered"] /\ answer' = [answer EXCEPT ![p] = "unavailable"]
    BY <1>11 DEF CommitIsLost, CallMoves, Answers
  <2>4. AnswerHolds(j, "unavailable")'
    BY <2>2 DEF AnswerHolds
  <2> QED
    BY <1>5, <1>6, <2>2, <2>3, <2>4
<1>12. CASE SubmitInMemory(p)
  <2>1. apiFaults' = apiFaults /\ call' = [call EXCEPT ![p] = "answered"]
    BY <1>12 DEF SubmitInMemory, Answers, CallMoves
  <2>2. \/ answer' = [answer EXCEPT ![p] = "replayed"] /\ ByKey(j.key) /\ rows' = rows
        \/ answer' = [answer EXCEPT ![p] = "conflict"] /\ Taken(j) /\ rows' = rows
        \/ answer' = [answer EXCEPT ![p] = "unavailable"] /\ ~ByKey(j.key) /\ j.defect = "chunk" /\ rows' = rows
        \/ answer' = [answer EXCEPT ![p] = "created"] /\ ~RefusedRow(j) /\ rows' = rows \cup {Row(j)}
    BY <1>1, <1>12 DEF SubmitInMemory, Answers, RefusedRow
  <2>3. Grows
    BY <1>2, <1>3, <1>5, <2>1, <2>2 DEF Grows
  <2>4. CASE answer' = [answer EXCEPT ![p] = "replayed"] /\ ByKey(j.key) /\ rows' = rows
    <3>1. AnswerHolds(j, "replayed")'
      BY <1>4, <2>4 DEF AnswerHolds, Stored
    <3> QED
      BY <1>6, <2>1, <2>3, <2>4, <3>1
  <2>5. CASE answer' = [answer EXCEPT ![p] = "conflict"] /\ Taken(j) /\ rows' = rows
    <3>1. AnswerHolds(j, "conflict")'
      BY <2>5 DEF AnswerHolds, Stored, Taken
    <3> QED
      BY <1>6, <2>1, <2>3, <2>5, <3>1
  <2>6. CASE answer' = [answer EXCEPT ![p] = "unavailable"] /\ ~ByKey(j.key) /\ j.defect = "chunk" /\ rows' = rows
    <3>1. AnswerHolds(j, "unavailable")'
      BY <2>6 DEF AnswerHolds, ByKey
    <3> QED
      BY <1>6, <2>1, <2>3, <2>6, <3>1
  <2>7. CASE answer' = [answer EXCEPT ![p] = "created"] /\ ~RefusedRow(j) /\ rows' = rows \cup {Row(j)}
    <3>1. AnswerHolds(j, "created")'
      <4>1. Row(j) \in rows' /\ Row(j).id = j.id
        BY <2>7 DEF Row
      <4> QED
        BY <4>1 DEF AnswerHolds, Stored
    <3> QED
      BY <1>6, <2>1, <2>3, <2>7, <3>1
  <2> QED
    BY <2>2, <2>4, <2>5, <2>6, <2>7
<1>13. CASE StorageFails(p)
  <2>1. Grows /\ apiFaults' # 0
    BY <1>5, <1>13 DEF StorageFails, ApiFault, Grows
  <2>2. \/ call' = [call EXCEPT ![p] = "reselect"] /\ answer' = answer
        \/ call' = [call EXCEPT ![p] = "answered"] /\ answer' = [answer EXCEPT ![p] = "unavailable"]
    BY <1>13 DEF StorageFails, CallMoves, Answers, StorageFailureStatus
  <2>3. AnswerHolds(j, "unavailable")'
    BY <2>1 DEF AnswerHolds
  <2> QED
    BY <1>5, <1>6, <2>1, <2>2, <2>3
<1>14. CASE RunBreaks(p)
  <2>1. Grows /\ call' = [call EXCEPT ![p] = "error"] /\ answer' = answer
    BY <1>5, <1>14 DEF RunBreaks, ApiFault, Grows, CallMoves
  <2> QED
    BY <1>5, <1>6, <2>1
<1> QED
  BY <1>7, <1>8, <1>9, <1>10, <1>11, <1>12, <1>13, <1>14

\* A job that is stored is told, and the run goes on to the next one, to the wait for the
\* base, or to its end.
LEMMA RunProceeds ==
  ASSUME ApiInv, NEW p \in Producers, call[p] \in {"answered", "readback"}, NEW id, id = Current(p).id, Stored(id),
         Proceeds(p, id), UNCHANGED <<rows, ended, apiFaults, batch, wave, answer, waited, failures, streak>>
  PROVE  ApiInv'
<1>1. Grows /\ ApiTyped /\ RowsInv
  BY DEF Grows, ApiInv, ApiTyped
<1>2. PICK m, w, n : m = batch[p] /\ w = wave[p] /\ n = place[p]
  OBVIOUS
<1>3. PICK t, f, s, b : t = told[p] /\ f = failures[p] /\ s = streak[p] /\ b = call[p]
  OBVIOUS
<1>4. PICK wt, a : wt = waited[p] /\ a = answer[p]
  OBVIOUS
<1>5. CallSound(m, w, n, b, a, t, wt, f, s)
  BY <1>2, <1>3, <1>4 DEF ApiInv, SoundAt
<1>6. CallSound(m, w, n, b, a, t, wt, f, s)'
  BY <1>1, <1>5, RunKeeps
<1>7. PICK len \in Nat : len = WaveLength(m, w) /\ n \in 1..len
  BY <1>2, <1>3, CurrentJob DEF Going
<1>8. /\ wt = "none" /\ m \in Manifests /\ w \in {1, 2} /\ f \in Nat /\ s \in Nat
      /\ \A i \in t : Stored(i)'
      /\ n > 1 => WaveJob(m, w, 1).id \in t
  BY <1>3, <1>6 DEF CallSound, Going
<1>9. id = WaveJob(m, w, n).id /\ Stored(id)'
  BY <1>2 DEF Current, Stored
<1>10. ApiTyped' /\ told'[p] = t \cup {id}
  BY <1>1, <1>3 DEF Proceeds, CallMoves, ApiTyped, ByProducer
<1>11. \A q \in Producers : q # p => Same(q)
  BY <1>1 DEF Proceeds, CallMoves, ApiTyped, ByProducer, Same
<1>12. WaveJob(m, w, 1).id \in t \cup {id}
  <2>1. n = 1 \/ n > 1
    BY <1>7
  <2> QED
    BY <1>8, <1>9, <2>1
<1>13. PICK u : u = t \cup {id}
  OBVIOUS
<1>14. \A i \in u : Stored(i)'
  BY <1>8, <1>9, <1>13
<1>15. CASE n < len
  <2>1. place'[p] = n + 1 /\ call'[p] = "send"
    BY <1>1, <1>2, <1>7, <1>15 DEF Proceeds, CallMoves, ApiTyped, ByProducer
  <2>2. n + 1 \in 1..WaveLength(m, w)
    BY <1>7, <1>15
  <2>3. CallSound(m, w, n + 1, "send", a, u, wt, f, s)'
    BY <1>8, <1>12, <1>13, <1>14, <2>2 DEF CallSound, Going
  <2> QED
    BY <1>1, <1>2, <1>3, <1>4, <1>10, <1>11, <1>13, <2>1, <2>3, OneRunMoves DEF SoundAt
<1>16. CASE ~(n < len)
  <2>1. PICK c \in {"await", "ok"} :
          /\ c = IF w = 1 /\ WaveLength(m, 2) > 0 THEN "await" ELSE "ok"
          /\ call'[p] = c /\ place' = place
    BY <1>1, <1>2, <1>7, <1>16 DEF Proceeds, CallMoves, ApiTyped, ByProducer
  <2>2. CallSound(m, w, n, c, a, u, wt, f, s)'
    BY <1>7, <1>8, <1>12, <1>13, <1>14, <2>1 DEF CallSound, Going
  <2> QED
    BY <1>1, <1>2, <1>3, <1>4, <1>10, <1>11, <1>13, <2>1, <2>2, OneRunMoves DEF SoundAt
<1> QED
  BY <1>15, <1>16

LEMMA AnswerSteps ==
  ASSUME ApiInv, NEW p \in Producers, ReadAnswer(p) \/ ReadBack(p)
  PROVE  ApiInv'
<1>1. Grows /\ UNCHANGED <<rows, ended, apiFaults, batch, wave, answer, waited, failures, streak>>
  BY DEF ReadAnswer, ReadBack, Grows, ApiInv, ApiTyped
<1>2. call[p] \in {"answered", "readback"}
  BY DEF ReadAnswer, ReadBack
<1>3. CASE Stored(Current(p).id) /\ Proceeds(p, Current(p).id)
  BY <1>1, <1>2, <1>3, RunProceeds
<1>4. ASSUME NEW c \in {"readback", "error"}, call' = [call EXCEPT ![p] = c], UNCHANGED <<told, place>>
      PROVE  ApiInv'
  <2>1. PICK a, j : a = answer[p] /\ j = Current(p)
    OBVIOUS
  <2>2. answer' = [answer EXCEPT ![p] = a]
    BY <1>1, <2>1 DEF ApiInv, ApiTyped, ByProducer
  <2> QED
    BY <1>1, <1>2, <1>4, <2>1, <2>2, CallChanges
<1>5. CASE ReadAnswer(p)
  <2>1. answer[p] \in {"created", "replayed"} => Stored(Current(p).id)
    BY <1>5 DEF ReadAnswer, ApiInv, SoundAt, CallSound, Current
  <2>2. \/ answer[p] \in {"created", "replayed"} /\ Proceeds(p, Current(p).id)
        \/ call' = [call EXCEPT ![p] = "readback"] /\ UNCHANGED <<told, place>>
        \/ call' = [call EXCEPT ![p] = "error"] /\ UNCHANGED <<told, place>>
    BY <1>5 DEF ReadAnswer, CallMoves
  <2> QED
    BY <1>3, <1>4, <2>1, <2>2
<1>6. CASE ReadBack(p)
  <2>1. \/ Stored(Current(p).id) /\ Proceeds(p, Current(p).id)
        \/ call' = [call EXCEPT ![p] = "error"] /\ UNCHANGED <<told, place>>
    BY <1>6 DEF ReadBack, CallMoves
  <2> QED
    BY <1>3, <1>4, <2>1
<1> QED
  BY <1>5, <1>6

LEMMA RunSteps ==
  ASSUME ApiInv, NEW p \in Producers, StartRun(p) \/ AwaitBase(p)
  PROVE  ApiInv'
<1>1. Grows /\ ApiTyped /\ UNCHANGED <<rows, ended, apiFaults, failures, streak>>
  BY DEF StartRun, AwaitBase, Grows, ApiInv, ApiTyped
<1>2. ApiTyped' /\ \A q \in Producers : q # p => Same(q)
  BY <1>1 DEF StartRun, AwaitBase, CallMoves, ApiTyped, ByProducer, Same
<1>3. PICK f, s : f = failures[p] /\ s = streak[p] /\ f \in Nat /\ s \in Nat
  BY DEF ApiInv, SoundAt, CallSound
<1>4. CASE StartRun(p)
  <2>1. PICK m \in Manifests : /\ batch' = [batch EXCEPT ![p] = m]
                               /\ CallMoves(p, IF ExpandsWell(m) THEN "send" ELSE "error")
    BY <1>4 DEF StartRun
  <2>2. /\ batch'[p] = m /\ call'[p] = IF ExpandsWell(m) THEN "send" ELSE "error"
        /\ wave'[p] = 1 /\ place'[p] = 1 /\ told'[p] = {} /\ answer'[p] = "none" /\ waited'[p] = "none"
    BY <1>1, <1>4, <2>1 DEF StartRun, CallMoves, ApiTyped, ByProducer
  <2>3. ExpandsWell(m) => 1 \in 1..WaveLength(m, 1)
    BY <2>1, JobOfWave DEF ExpandsWell
  <2>4. PICK c \in {"send", "error"} : c = call'[p] /\ (c = "send" => 1 \in 1..WaveLength(m, 1))
    BY <2>2, <2>3
  <2>5. CallSound(m, 1, 1, c, "none", {}, "none", f, s)'
    BY <1>3, <2>4 DEF CallSound, Going
  <2>6. SoundAt(p)'
    BY <1>1, <1>3, <2>2, <2>4, <2>5 DEF SoundAt
  <2> QED
    BY <1>1, <1>2, <2>6, OneRunMoves
<1>5. CASE AwaitBase(p)
  <2>1. PICK m, t, a, wt : m = batch[p] /\ t = told[p] /\ a = answer[p] /\ wt = waited[p]
    OBVIOUS
  <2>2. CallSound(m, wave[p], place[p], "await", a, t, wt, f, s)
    BY <1>3, <1>5, <2>1 DEF AwaitBase, ApiInv, SoundAt
  <2>3. /\ m \in Manifests /\ WaveLength(m, 2) > 0 /\ wt = "none"
        /\ \A i \in t : Stored(i)'
    BY <1>1, <2>2 DEF CallSound, Going, Stored
  <2>4. WaveLength(m, 2) \in Nat
    BY <2>3, JobOfWave
  <2>5. UNCHANGED <<batch, answer, told, waited>>
    BY <1>5 DEF AwaitBase
  <2>6. CASE wave'[p] = 2 /\ place'[p] = 1 /\ call'[p] = "send"
    <3>1. 1 \in 1..WaveLength(m, 2)
      BY <2>3, <2>4
    <3>2. CallSound(m, 2, 1, "send", a, t, wt, f, s)'
      BY <1>3, <2>3, <3>1 DEF CallSound, Going
    <3>3. SoundAt(p)'
      BY <1>1, <1>3, <2>1, <2>5, <2>6, <3>2 DEF SoundAt
    <3> QED
      BY <1>1, <1>2, <3>3, OneRunMoves
  <2>7. CASE call'[p] = "error"
    <3>1. PICK w, n : w = wave'[p] /\ n = place'[p]
      OBVIOUS
    <3>2. CallSound(m, w, n, "error", a, t, wt, f, s)'
      BY <1>3, <2>3 DEF CallSound, Going
    <3>3. SoundAt(p)'
      BY <1>1, <1>3, <2>1, <2>5, <2>7, <3>1, <3>2 DEF SoundAt
    <3> QED
      BY <1>1, <1>2, <3>3, OneRunMoves
  <2>8. (wave'[p] = 2 /\ place'[p] = 1 /\ call'[p] = "send") \/ call'[p] = "error"
    BY <1>1, <1>5 DEF AwaitBase, CallMoves, ApiTyped, ByProducer
  <2> QED
    BY <2>6, <2>7, <2>8
<1> QED
  BY <1>4, <1>5

\* A wait moves; its job, which the run was told of, is stored.
LEMMA WaitSteps ==
  ASSUME ApiInv, NEW p \in Producers,
         \/ WaitTerminal(p) \/ WaitRound(p) \/ WaitRoundFails(p)
         \/ Poll(p) \/ StatusUnavailable(p) \/ PollBreaks(p)
  PROVE  ApiInv'
<1>1. UNCHANGED <<rows, ended, batch, wave, place, call, answer, told>>
  BY DEF WaitTerminal, WaitRound, WaitRoundFails, Poll, StatusUnavailable, PollBreaks
<1>2. Grows /\ ApiTyped
  <2>1. apiFaults' = apiFaults \/ apiFaults' = apiFaults + 1
    BY DEF WaitTerminal, WaitRound, WaitRoundFails, Poll, StatusUnavailable, PollBreaks, ApiFault
  <2> QED
    BY <1>1, <2>1 DEF Grows, ApiInv, ApiTyped
<1>3. ApiTyped' /\ \A q \in Producers : q # p => Same(q)
  BY <1>1, <1>2 DEF WaitTerminal, WaitRound, WaitRoundFails, Poll, StatusUnavailable, PollBreaks, WaitEnds,
                   ApiTyped, ByProducer, Same, Grows
<1>4. PICK m, w, n, t : m = batch[p] /\ w = wave[p] /\ n = place[p] /\ t = told[p]
  OBVIOUS
<1>5. PICK a, c, wt : a = answer[p] /\ c = call[p] /\ wt = waited[p]
  OBVIOUS
<1>6. PICK f \in Nat, s \in Nat : f = failures[p] /\ s = streak[p]
  BY DEF ApiInv, SoundAt, CallSound
<1>7. CallSound(m, w, n, c, a, t, wt, f, s)
  BY <1>4, <1>5, <1>6 DEF ApiInv, SoundAt
<1>8. CallSound(m, w, n, c, a, t, wt, f, s)'
  BY <1>2, <1>7, RunKeeps DEF ApiInv
<1>9. c = "ok"
  BY <1>5, <1>7 DEF CallSound, WaitTerminal, WaitRound, WaitRoundFails, Poll, StatusUnavailable, PollBreaks
<1>10. Waits(p) = WaveJob(m, w, 1).id /\ Stored(Waits(p))
  BY <1>4, <1>7, <1>9 DEF Waits, CallSound, Going
<1>11. ASSUME NEW to, NEW g, NEW k, to \in {"none", "round", "poll", "terminal", "unavailable", "broken"}, g \in Nat, k \in Nat,
              waited'[p] = to, failures'[p] = g, streak'[p] = k,
              to = "terminal" => Waits(p) \in DOMAIN ended,
              to = "round" => g = 0, to = "poll" => g <= k, to = "unavailable" => k >= MaxStatusFailures
       PROVE  ApiInv'
  <2>1. to = "terminal" => WaveJob(m, w, 1).id \in DOMAIN ended'
    BY <1>1, <1>10, <1>11
  <2>2. CallSound(m, w, n, c, a, t, to, g, k)'
    BY <1>8, <1>9, <1>11, <2>1 DEF CallSound
  <2>3. SoundAt(p)'
    BY <1>1, <1>4, <1>5, <1>11, <2>2 DEF SoundAt
  <2> QED
    BY <1>2, <1>3, <2>3, OneRunMoves
<1>12. CASE WaitTerminal(p)
  <2>1. waited'[p] = "round" /\ failures'[p] = 0 /\ streak'[p] = 0
    BY <1>2, <1>12 DEF WaitTerminal, WaitEnds, ApiTyped, ByProducer
  <2> QED
    BY <1>11, <2>1
<1>13. CASE WaitRound(p)
  <2>1. f = 0
    BY <1>5, <1>7, <1>13 DEF WaitRound, CallSound
  <2>2. failures'[p] = f /\ streak'[p] = s
    BY <1>6, <1>13 DEF WaitRound
  <2>3. waited'[p] = "poll" \/ (waited'[p] = "terminal" /\ Waits(p) \in DOMAIN ended)
    BY <1>2, <1>10, <1>13 DEF WaitRound, WaitEnds, ApiTyped, ByProducer
  <2> QED
    BY <1>6, <1>11, <2>1, <2>2, <2>3
<1>14. CASE WaitRoundFails(p)
  <2>1. f = 0
    BY <1>5, <1>7, <1>14 DEF WaitRoundFails, CallSound
  <2>2. waited'[p] = "poll" /\ failures'[p] = f /\ streak'[p] = s
    BY <1>2, <1>6, <1>14 DEF WaitRoundFails, WaitEnds, ApiTyped, ByProducer
  <2> QED
    BY <1>6, <1>11, <2>1, <2>2
<1>15. CASE Poll(p)
  <2>1. streak'[p] = 0 /\ wt = "poll"
    BY <1>2, <1>5, <1>15 DEF Poll, ApiTyped, ByProducer
  <2>2. \/ waited'[p] = "terminal" /\ Waits(p) \in DOMAIN ended /\ failures'[p] = f
        \/ waited'[p] = "poll" /\ failures'[p] = 0
    BY <1>2, <1>5, <1>6, <1>15, <2>1 DEF Poll, WaitEnds, Forgiven, ApiTyped, ByProducer
  <2> QED
    BY <1>6, <1>11, <2>1, <2>2
<1>16. CASE StatusUnavailable(p)
  <2>1. failures'[p] = f + 1 /\ streak'[p] = s + 1 /\ wt = "poll"
    BY <1>2, <1>5, <1>6, <1>16 DEF StatusUnavailable, ApiTyped, ByProducer
  <2>2. (waited'[p] = "unavailable" /\ f + 1 >= MaxStatusFailures) \/ waited'[p] = "poll"
    BY <1>2, <1>5, <1>6, <1>16, <2>1 DEF StatusUnavailable, WaitEnds, ApiTyped, ByProducer
  <2>3. f <= s
    BY <1>7, <2>1 DEF CallSound
  <2>4. f + 1 >= MaxStatusFailures => s + 1 >= MaxStatusFailures
    BY <1>6, <2>3, ApiAssumption
  <2> QED
    BY <1>6, <1>11, <2>1, <2>2, <2>3, <2>4
<1>17. CASE PollBreaks(p)
  <2>1. waited'[p] = "broken" /\ failures'[p] = f /\ streak'[p] = s
    BY <1>2, <1>6, <1>17 DEF PollBreaks, WaitEnds, ApiTyped, ByProducer
  <2> QED
    BY <1>6, <1>11, <2>1
<1> QED
  BY <1>12, <1>13, <1>14, <1>15, <1>16, <1>17

\* A step that moves no run.
LEMMA NoRunMoves ==
  ASSUME ApiInv, Grows, UNCHANGED <<batch, wave, place, call, answer, told, waited, failures, streak>>
  PROVE  ApiInv'
<1>1. RowsInv' /\ ApiTyped' /\ ApiTyped /\ RowsInv
  BY RowsKeep DEF ApiInv, ApiTyped, ByProducer, Grows
<1>2. ASSUME NEW q \in Producers
      PROVE  SoundAt(q)'
  <2>1. PICK m, w, n, c : m = batch[q] /\ w = wave[q] /\ n = place[q] /\ c = call[q]
    OBVIOUS
  <2>2. PICK a, t, wt, f, s : a = answer[q] /\ t = told[q] /\ wt = waited[q] /\ f = failures[q] /\ s = streak[q]
    OBVIOUS
  <2>3. CallSound(m, w, n, c, a, t, wt, f, s)
    BY <2>1, <2>2 DEF ApiInv, SoundAt
  <2>4. CallSound(m, w, n, c, a, t, wt, f, s)'
    BY <1>1, <2>3, RunKeeps
  <2> QED
    BY <2>1, <2>2, <2>4 DEF SoundAt
<1> QED
  BY <1>1, <1>2 DEF ApiInv

LEMMA ApiStep == ApiInv /\ [ApiNext]_apiVars => ApiInv'
<1> SUFFICES ASSUME ApiInv, [ApiNext]_apiVars
             PROVE  ApiInv'
  OBVIOUS
<1>1. ASSUME NEW p \in Producers,
             \/ StartRun(p) \/ PostJob(p) \/ SelectByKey(p) \/ InsertRow(p) \/ SelectAgain(p)
             \/ CommitIsLost(p) \/ SubmitInMemory(p) \/ StorageFails(p)
             \/ ReadAnswer(p) \/ ReadBack(p) \/ RunBreaks(p) \/ AwaitBase(p)
             \/ WaitTerminal(p) \/ WaitRound(p) \/ WaitRoundFails(p)
             \/ Poll(p) \/ StatusUnavailable(p) \/ PollBreaks(p)
      PROVE  ApiInv'
  BY <1>1, ServerSteps, AnswerSteps, RunSteps, WaitSteps
<1>2. ASSUME NEW r \in rows, JobEnds(r.id)
      PROVE  ApiInv'
  <2>1. Grows
    BY <1>2 DEF JobEnds, Grows, ApiInv, ApiTyped
  <2> QED
    BY <1>2, <2>1, NoRunMoves DEF JobEnds
<1>3. CASE UNCHANGED apiVars
  <2>1. Grows
    BY <1>3 DEF apiVars, Grows, ApiInv, ApiTyped
  <2> QED
    BY <1>3, <2>1, NoRunMoves DEF apiVars
<1> QED
  BY <1>1, <1>2, <1>3 DEF ApiNext

LEMMA ApiTells == ApiInv => SubmissionIsHonest
<1> SUFFICES ASSUME ApiInv
             PROVE  SubmissionIsHonest
  OBVIOUS
<1>1. ASSUME NEW p \in Producers
      PROVE  /\ \A id \in told[p] : Stored(id)
             /\ call[p] = "answered" /\ answer[p] = "conflict" => Stored(Current(p).id)
             /\ apiFaults = 0 /\ call[p] = "answered" /\ answer[p] = "unavailable" => ~ByKey(Current(p).key)
             /\ waited[p] = "terminal" => Waits(p) \in DOMAIN ended
             /\ waited[p] # "notFound"
  BY DEF ApiInv, SoundAt, CallSound, Current, Waits
<1>2. ASSUME NEW p \in Producers, waited[p] = "unavailable"
      PROVE  streak[p] >= MaxStatusFailures
  BY <1>2 DEF ApiInv, SoundAt, CallSound
<1>3. \A r, s \in rows : r.id = s.id \/ r.key = s.key => r = s
  BY DEF ApiInv, RowsInv
<1> QED
  BY <1>1, <1>2, <1>3 DEF SubmissionIsHonest

-----------------------------------------------------------------------------
(* The calls under a lease and the ledger they write *)

Renders == [key : Nat, link : Nat, metrics : Nat, trace : Nat]
LoopType ==
  [at : {"idle", "call", "prep", "gpu", "post", "upload"}, op : {"none", "claim", "complete", "rendered", "fail"},
   stage : {"none", "sent", "reading", "answered"}, answer : {"none", "ok", "empty", "error", "conflict"},
   job : LeaseJobs \cup {"none"}, attempt : Nat, workspace : BOOLEAN, art : Renders, claimed : Renders]
Holders == (UNION {{p[r] : r \in Loops} : p \in Processes}) \cup {Nobody}
RowType ==
  [state : {"pending", "running", "rendered", "completed", "failed", "cancelled"},
   holder : Holders, attempt : Nat, linked : BOOLEAN, late : BOOLEAN]
ReadType ==
  [at : {"row", "artifact", "metrics", "trace", "served"}, job : LeaseJobs \cup {"none"}, art : Renders,
   state : {"none", "pending", "running", "rendered", "completed", "failed", "cancelled"}]
EventType ==
  [type : {"job_claimed", "job_completed", "job_rendered", "job_requeued", "job_failed", "job_cancelled"}, attempt : Nat]
LeaseTyped ==
  /\ leased \in [LeaseJobs -> RowType] /\ loop \in [Loops -> LoopType] /\ shown \in ReadType
  /\ filed \in [LeaseJobs -> Seq(Renders)]
  /\ measured \in [LeaseJobs -> Seq(Nat)] /\ traces \in [LeaseJobs -> Seq(Nat)]

\* The row of an artifact is written with its metrics and linked, and a completed job has a
\* published artifact; if no attempt was mistaken for another it is of one render, with what
\* was measured of it.
RowFiled(l, f, m, t) ==
  IF f = <<>>
  THEN m = <<>> /\ t = <<>> /\ ~l.linked /\ l.state \notin {"rendered", "completed"}
  ELSE /\ Len(f) = 1 /\ f[1].key # NoRender /\ Newest(m) # NoRender /\ l.linked
       /\ l.state = "completed" => f[1].link # NoRender
RowFenced(f, m, t) ==
  f # <<>> => /\ f[1].link \in {NoRender, f[1].key} /\ Newest(m) = f[1].key
              /\ Newest(t) \in {NoRender, f[1].key}

\* A loop that works on a job, reports it, or has been told of its claim; one whose claim
\* has brought a job; and one that has a render to report.
KnowsJob(c) ==
  \/ c.at \in {"prep", "gpu", "post", "upload"} \/ (c.at = "call" /\ IsReport(c.op))
  \/ c.at = "call" /\ c.op = "claim" /\ c.stage = "answered" /\ c.answer = "ok"
HasJob(c) == KnowsJob(c) \/ c.stage = "reading"
Carries(c) == c.at \in {"post", "upload"} \/ (c.at = "call" /\ c.op \in {"complete", "rendered"})

\* The call of a loop by itself, and beside the row of its job.
CallSane(c) ==
  /\ c.at # "call" => c.op = "none" /\ c.stage = "none" /\ c.answer = "none"
  /\ c.stage = "reading" => c.at = "call" /\ c.op = "claim" /\ c.answer = "none"
  /\ HasJob(c) => c.job \in LeaseJobs /\ c.attempt # 0
  /\ c.at \in {"prep", "gpu", "idle"} => c.claimed = NoArtifact
  /\ c.at = "call" /\ c.op = "claim" /\ c.stage # "answered" => c.claimed = NoArtifact
  /\ KnowsJob(c) /\ c.claimed # NoArtifact => c.claimed.key # NoRender
  /\ Carries(c) => c.art.key # NoRender /\ (c.claimed = NoArtifact => c.art.metrics # NoRender)
  /\ c.at = "call" /\ c.op = "complete" => c.art.link = c.art.key
CallMatches(c, l, f) ==
  /\ c.attempt <= l.attempt
  /\ c.stage = "reading" \/ c.claimed # NoArtifact => f # <<>>
  /\ c.op = "complete" /\ c.answer = "ok" => l.state = "completed" /\ f # <<>>

\* The loop of the attempt that runs carries the render that was filed when it claimed, or
\* its own while nothing is filed.
CallFenced(c, l, f) ==
  /\ Carries(c) => /\ OneRender(c.art)
                   /\ IF c.claimed = NoArtifact THEN c.art.metrics = c.art.key ELSE c.art.key = c.claimed.key
  /\ KnowsJob(c) /\ c.claimed # NoArtifact => c.claimed.key = f[1].key /\ OneRender(c.claimed)
  /\ KnowsJob(c) /\ c.claimed = NoArtifact /\ l.state = "running" /\ c.attempt = l.attempt => f = <<>>
  /\ c.op = "complete" /\ c.answer = "ok" => f[1].key = c.art.key

\* What a producer has read so far.
ReadSane(v, l, f) ==
  /\ f # <<>> /\ (v.state = "completed" => l.state = "completed")
  /\ v.at \in {"metrics", "trace", "served"} => (v.state = "completed" => v.art.link # NoRender)
  /\ v.at \in {"trace", "served"} => v.art.metrics # NoRender
ReadFenced(v, f) ==
  /\ v.at \in {"metrics", "trace", "served"} => v.art.key = f[1].key /\ v.art.link \in {NoRender, v.art.key}
  /\ v.at \in {"trace", "served"} => v.art.metrics = v.art.key
  /\ v.at = "served" => v.art.trace \in {NoRender, v.art.key}

RowsFiled == \A j \in LeaseJobs : RowFiled(leased[j], filed[j], measured[j], traces[j])
CallsHeld ==
  \A r \in Loops : /\ CallSane(loop[r])
                   /\ HasJob(loop[r]) => CallMatches(loop[r], leased[loop[r].job], filed[loop[r].job])
ReadHeld == shown.at # "row" => shown.job \in LeaseJobs /\ ReadSane(shown, leased[shown.job], filed[shown.job])
LedgerInv == LeaseTyped /\ RowsFiled /\ CallsHeld /\ ReadHeld

RowsFenced == \A j \in LeaseJobs \ mixed : RowFenced(filed[j], measured[j], traces[j])
CallsFenced ==
  \A r \in Loops : HasJob(loop[r]) /\ loop[r].job \notin mixed =>
                     CallFenced(loop[r], leased[loop[r].job], filed[loop[r].job])
ReadIsFenced == shown.at # "row" /\ shown.job \notin mixed => ReadFenced(shown, filed[shown.job])
FencedInv == RowsFenced /\ CallsFenced /\ ReadIsFenced
Fences(j) == FencedInv /\ j \notin mixed

\* The events of a job, and what they say of its row.
EventsInv ==
  /\ happened \in [LeaseJobs -> Seq(EventType)]
  /\ \A j \in LeaseJobs :
       /\ EventsTell(happened[j], leased[j].attempt, AttemptsOver(j), leased[j].state)
       /\ leased[j].state \in {"running", "rendered", "completed"} => leased[j].attempt # 0
       /\ leased[j].state # "cancelled" => Len(happened[j]) = leased[j].attempt + AttemptsOver(j)

LEMMA EventsInvInit == LeaseInit => EventsInv
BY DEF LeaseInit, EventsInv, AttemptsOver, EventsTell

\* A claim, what ends the attempt that runs, or a cancellation between two attempts.
EventFits(e, n, over, n2, over2) ==
  \/ over = n /\ n2 = n + 1 /\ over2 = n /\ e = [type |-> "job_claimed", attempt |-> n + 1]
  \/ over + 1 = n /\ n2 = n /\ over2 = n /\ e.type # "job_claimed" /\ e.attempt = n
  \/ over = n /\ n2 = n /\ over2 = n /\ e = [type |-> "job_cancelled", attempt |-> 0]

\* One event more: what the events tell of the row it leaves.
EventAdds(past, e, len, n2, over2) ==
  /\ Append(past, e) \in Seq(EventType)
  /\ EventsTell(Append(past, e), n2, over2, Says[e.type])
  /\ Len(Append(past, e)) = len + 1
LEMMA OneEvent ==
  ASSUME NEW past \in Seq(EventType), NEW e \in EventType, NEW n \in Nat, NEW over \in Nat, NEW old,
         EventsTell(past, n, over, old), Len(past) = n + over,
         NEW n2 \in Nat, NEW over2 \in Nat,
         EventFits(e, n, over, n2, over2)
  PROVE  EventAdds(past, e, n + over, n2, over2)
<1>1. PICK more : more = Append(past, e)
  OBVIOUS
<1>2. PICK len \in Nat : len = Len(past) /\ len = n + over
  OBVIOUS
<1>3. /\ more \in Seq(EventType) /\ Len(more) = len + 1 /\ more[len + 1] = e
      /\ \A k \in 1..len : more[k] = past[k]
  <2>1. /\ more \in Seq(EventType) /\ Len(more) = Len(past) + 1 /\ more[Len(past) + 1] = e
        /\ \A k \in 1..Len(past) : more[k] = past[k]
    BY <1>1, OneMore
  <2> QED
    BY <1>2, <2>1
<1> USE DEF EventFits
<1>4. ASSUME NEW a \in 1..n2
      PROVE  more[2 * a - 1] = [type |-> "job_claimed", attempt |-> a]
  <2>1. CASE a \in 1..n
    <3>1. 2 * a - 1 \in 1..len
      BY <1>2, <2>1
    <3>2. past[2 * a - 1] = [type |-> "job_claimed", attempt |-> a]
      BY <2>1 DEF EventsTell
    <3> QED
      BY <1>3, <3>1, <3>2
  <2>2. CASE a \notin 1..n
    <3>1. over = n /\ a = n + 1 /\ e = [type |-> "job_claimed", attempt |-> n + 1]
      BY <2>2
    <3>2. 2 * a - 1 = len + 1
      BY <1>2, <3>1
    <3> QED
      BY <1>3, <3>1, <3>2
  <2> QED
    BY <2>1, <2>2
<1>5. ASSUME NEW a \in 1..over2
      PROVE  more[2 * a].type # "job_claimed" /\ more[2 * a].attempt = a
  <2>1. CASE a \in 1..over
    <3>1. 2 * a \in 1..len
      BY <1>2, <2>1
    <3>2. past[2 * a].type # "job_claimed" /\ past[2 * a].attempt = a
      BY <2>1 DEF EventsTell
    <3> QED
      BY <1>3, <3>1, <3>2
  <2>2. CASE a \notin 1..over
    <3>1. over + 1 = n /\ a = n /\ e.type # "job_claimed" /\ e.attempt = n
      BY <2>2
    <3>2. 2 * a = len + 1
      BY <1>2, <3>1
    <3> QED
      BY <1>3, <3>1, <3>2
  <2> QED
    BY <2>1, <2>2
<1>6. /\ Len(more) - (n2 + over2) \in {0, 1}
      /\ Len(more) > n2 + over2 => e = [type |-> "job_cancelled", attempt |-> 0]
  BY <1>2, <1>3
<1>7. more # <<>> /\ more[Len(more)] = e
  BY <1>2, <1>3
<1>8. EventsTell(more, n2, over2, Says[e.type])
  BY <1>4, <1>5, <1>6, <1>7 DEF EventsTell
<1> QED
  BY <1>1, <1>2, <1>3, <1>8 DEF EventAdds

\* A row that moves with its event, and one that does not move.
RowMoves(j, e) ==
  /\ happened' = [happened EXCEPT ![j] = Append(@, e)]
  /\ \/ /\ leased[j].state \in {"pending", "rendered"} /\ leased'[j].state = "running"
        /\ leased'[j].attempt = leased[j].attempt + 1
        /\ e = [type |-> "job_claimed", attempt |-> leased[j].attempt + 1]
     \/ /\ leased[j].state = "running" /\ leased'[j].attempt = leased[j].attempt
        /\ e.type # "job_claimed" /\ leased'[j].state = Says[e.type] /\ e.attempt = leased[j].attempt
     \/ /\ leased[j].state \in {"pending", "rendered"} /\ leased'[j].attempt = leased[j].attempt
        /\ leased'[j].state = "cancelled" /\ e = [type |-> "job_cancelled", attempt |-> 0]

LEMMA EventsAfterMove ==
  ASSUME EventsInv, LeaseTyped, NEW j \in LeaseJobs, NEW e \in EventType, RowMoves(j, e),
         leased' \in [LeaseJobs -> RowType], \A k \in LeaseJobs : k # j => leased'[k] = leased[k],
         NEW n, n = leased[j].attempt, NEW over, over = AttemptsOver(j)
  PROVE  EventsInv'
<1>1. n \in Nat
  BY DEF LeaseTyped, RowType
<1>2. PICK past \in Seq(EventType) : past = happened[j] /\ happened'[j] = Append(past, e)
  BY DEF EventsInv, RowMoves
<1>3. leased[j].state # "cancelled" /\ over \in Nat /\ Len(past) = n + over
  <2>1. leased[j].state \in {"pending", "rendered", "running"}
    BY DEF RowMoves
  <2>2. leased[j].state = "running" => n # 0
    BY <1>1 DEF EventsInv
  <2> QED
    BY <1>1, <1>2, <2>1, <2>2 DEF EventsInv, AttemptsOver
<1>4. EventsTell(past, n, over, leased[j].state)
  BY <1>1, <1>2 DEF EventsInv
<1>5. PICK n2, over2, to : n2 = leased'[j].attempt /\ over2 = AttemptsOver(j)' /\ to = leased'[j].state
  OBVIOUS
<1>6. over2 = IF to = "running" THEN n2 - 1 ELSE n2
  BY <1>5 DEF AttemptsOver
<1>7. over = IF leased[j].state = "running" THEN n - 1 ELSE n
  BY DEF AttemptsOver
<1>8. /\ n2 \in Nat /\ over2 \in Nat /\ to = Says[e.type]
      /\ \/ over = n /\ n2 = n + 1 /\ over2 = n /\ e = [type |-> "job_claimed", attempt |-> n + 1]
         \/ over + 1 = n /\ n2 = n /\ over2 = n /\ e.type # "job_claimed" /\ e.attempt = n
         \/ over = n /\ n2 = n /\ over2 = n /\ e = [type |-> "job_cancelled", attempt |-> 0]
      /\ to \in {"running", "rendered", "completed"} => n2 # 0
      /\ to # "cancelled" => n2 + over2 = n + over + 1
  <2>1. CASE to = "running" /\ e = [type |-> "job_claimed", attempt |-> n + 1] /\ n2 = n + 1 /\ leased[j].state # "running"
    <3>1. e.type = "job_claimed"
      BY <2>1
    <3>2. to = Says[e.type]
      BY <2>1, <3>1 DEF Says
    <3>3. over = n /\ over2 = n /\ n2 # 0 /\ n2 \in Nat
      BY <1>1, <1>6, <1>7, <2>1
    <3>4. n2 + over2 = n + over + 1
      BY <1>1, <2>1, <3>3
    <3> QED
      BY <1>1, <2>1, <3>2, <3>3, <3>4
  <2>2. CASE leased[j].state = "running" /\ n2 = n /\ e.type # "job_claimed" /\ to = Says[e.type] /\ e.attempt = n
    <3>1. to # "running"
      BY <2>2 DEF Says, EventType
    <3>2. n # 0
      BY <2>2 DEF EventsInv
    <3> QED
      BY <1>1, <1>6, <1>7, <2>2, <3>1, <3>2
  <2>3. CASE leased[j].state # "running" /\ n2 = n /\ to = "cancelled" /\ e = [type |-> "job_cancelled", attempt |-> 0]
    <3>1. e.type = "job_cancelled"
      BY <2>3
    <3>2. to = Says[e.type]
      BY <2>3, <3>1 DEF Says
    <3> QED
      BY <1>1, <1>6, <1>7, <2>3, <3>2
  <2> QED
    BY <1>5, <2>1, <2>2, <2>3 DEF RowMoves
<1>9. /\ Append(past, e) \in Seq(EventType)
      /\ EventsTell(Append(past, e), n2, over2, Says[e.type])
      /\ Len(Append(past, e)) = n + over + 1
  <2>1. n \in Nat /\ over \in Nat /\ n2 \in Nat /\ over2 \in Nat /\ Len(past) = n + over
    BY <1>1, <1>3, <1>8
  <2>2. EventFits(e, n, over, n2, over2)
    BY <1>8 DEF EventFits
  <2>3. PICK old : EventsTell(past, n, over, old)
    BY <1>4
  <2>4. EventAdds(past, e, n + over, n2, over2)
    BY <2>1, <2>2, <2>3, OneEvent
  <2> QED
    BY <2>4 DEF EventAdds
<1>10. happened' \in [LeaseJobs -> Seq(EventType)]
  BY <1>2, <1>9 DEF EventsInv, RowMoves
<1>11. ASSUME NEW k \in LeaseJobs, k # j
      PROVE  happened'[k] = happened[k] /\ leased'[k] = leased[k] /\ AttemptsOver(k)' = AttemptsOver(k)
  BY <1>11 DEF EventsInv, RowMoves, AttemptsOver
<1>12. ASSUME NEW k \in LeaseJobs
      PROVE  /\ EventsTell(happened'[k], leased'[k].attempt, AttemptsOver(k)', leased'[k].state)
             /\ leased'[k].state \in {"running", "rendered", "completed"} => leased'[k].attempt # 0
             /\ leased'[k].state # "cancelled" => Len(happened'[k]) = leased'[k].attempt + AttemptsOver(k)'
  <2>1. CASE k = j
    BY <1>2, <1>5, <1>8, <1>9, <2>1
  <2>2. CASE k # j
    BY <1>11, <2>2 DEF EventsInv
  <2> QED
    BY <2>1, <2>2
<1> QED
  BY <1>10, <1>12 DEF EventsInv, EventsTell

LEMMA EventsStay ==
  ASSUME EventsInv, happened' = happened,
         \A j \in LeaseJobs : leased'[j].state = leased[j].state /\ leased'[j].attempt = leased[j].attempt
  PROVE  EventsInv'
<1>1. ASSUME NEW j \in LeaseJobs
      PROVE  /\ EventsTell(happened'[j], leased'[j].attempt, AttemptsOver(j)', leased'[j].state)
             /\ leased'[j].state \in {"running", "rendered", "completed"} => leased'[j].attempt # 0
             /\ leased'[j].state # "cancelled" => Len(happened'[j]) = leased'[j].attempt + AttemptsOver(j)'
  <2>1. AttemptsOver(j)' = AttemptsOver(j)
    BY DEF AttemptsOver
  <2> QED
    BY <2>1 DEF EventsInv
<1> QED
  BY <1>1 DEF EventsInv, EventsTell

\* What closes an attempt leaves the state its event tells.
LEMMA FailureTells ==
  ASSUME NEW j \in LeaseJobs
  PROVE  /\ FailureEvent(j) \in {"job_failed", "job_requeued"} /\ Says[FailureEvent(j)] = AfterFailure(j)
         /\ AfterFailure(j) \in {"failed", "pending"}
BY DEF FailureEvent, AfterFailure, Says

LEMMA NoArtifactIsRender == NoArtifact \in Renders /\ NoArtifact.key = NoRender
BY DEF NoArtifact, Renders, NoRender

\* What a producer and the other loops know is untouched by a step of one loop.
LEMMA OneLoopMoves ==
  ASSUME LedgerInv, NEW r \in Loops, NEW c \in LoopType, loop' = [loop EXCEPT ![r] = c],
         UNCHANGED <<leased, filed, measured, traces, shown, mixed>>, CallSane(c),
         HasJob(c) => CallMatches(c, leased[c.job], filed[c.job])
  PROVE  /\ LedgerInv'
         /\ FencedInv /\ (HasJob(c) /\ c.job \notin mixed => CallFenced(c, leased[c.job], filed[c.job])) => FencedInv'
<1>1. loop' \in [Loops -> LoopType] /\ loop'[r] = c /\ \A s \in Loops : s # r => loop'[s] = loop[s]
  BY DEF LedgerInv, LeaseTyped
<1>2. LeaseTyped'
  BY <1>1 DEF LedgerInv, LeaseTyped
<1>3. ASSUME NEW s \in Loops
      PROVE  /\ CallSane(loop'[s])
             /\ HasJob(loop'[s]) => CallMatches(loop'[s], leased'[loop'[s].job], filed'[loop'[s].job])
  <2>1. CASE s = r
    BY <1>1, <2>1
  <2>2. CASE s # r
    BY <1>1, <2>2 DEF LedgerInv, RowsFiled, CallsHeld, ReadHeld
  <2> QED
    BY <2>1, <2>2
<1>4. LedgerInv'
  <2>1. RowsFiled'
    BY <1>2, <1>3 DEF LedgerInv, RowsFiled
  <2>2. CallsHeld'
    BY <1>2, <1>3 DEF LedgerInv, CallsHeld
  <2>3. ReadHeld'
    BY <1>2, <1>3 DEF LedgerInv, ReadHeld
  <2> QED
    BY <1>2, <1>3, <2>1, <2>2, <2>3 DEF LedgerInv
<1>5. ASSUME FencedInv, HasJob(c) /\ c.job \notin mixed => CallFenced(c, leased[c.job], filed[c.job])
      PROVE  FencedInv'
  <2>1. ASSUME NEW s \in Loops
        PROVE  HasJob(loop'[s]) /\ loop'[s].job \notin mixed =>
                 CallFenced(loop'[s], leased'[loop'[s].job], filed'[loop'[s].job])
    <3>1. CASE s = r
      BY <1>1, <1>5, <3>1
    <3>2. CASE s # r
      BY <1>1, <1>5, <3>2 DEF FencedInv, RowsFenced, CallsFenced, ReadIsFenced
    <3> QED
      BY <3>1, <3>2
  <2> QED
    <3>1. RowsFenced'
      BY <1>5, <2>1 DEF FencedInv, RowsFenced
    <3>2. CallsFenced'
      BY <1>5, <2>1 DEF FencedInv, CallsFenced
    <3>3. ReadIsFenced'
      BY <1>5, <2>1 DEF FencedInv, ReadIsFenced
    <3> QED
      BY <1>5, <2>1, <3>1, <3>2, <3>3 DEF FencedInv
<1> QED
  BY <1>4, <1>5

\* What a step makes of the call of one loop.
CallGoes(r, c) ==
  /\ c \in LoopType /\ loop' = [loop EXCEPT ![r] = c] /\ CallSane(c)
  /\ HasJob(c) => CallMatches(c, leased[c.job], filed[c.job])
  /\ Fences(c.job) /\ HasJob(c) => CallFenced(c, leased[c.job], filed[c.job])

LEMMA CallGoesKeeps ==
  ASSUME LedgerInv, NEW r \in Loops, NEW c, CallGoes(r, c), UNCHANGED <<leased, filed, measured, traces, shown, mixed>>
  PROVE  LedgerInv' /\ (FencedInv => FencedInv')
BY OneLoopMoves DEF CallGoes, Fences

\* A loop that is idle, or was refused its claim.
LEMMA GoesIdle ==
  ASSUME LedgerInv, NEW r \in Loops, loop' = [loop EXCEPT ![r] = IdleLoop]
  PROVE  CallGoes(r, IdleLoop)
<1>1. IdleLoop \in LoopType
  BY NoArtifactIsRender DEF IdleLoop, LoopType
<1>2. CallSane(IdleLoop) /\ ~HasJob(IdleLoop)
  BY DEF IdleLoop, CallSane, HasJob, KnowsJob, Carries, IsReport
<1> QED
  BY <1>1, <1>2 DEF CallGoes

\* The call of a loop, and what holds of it.
LEMMA CallOf ==
  ASSUME LedgerInv, NEW r \in Loops, NEW c, c = loop[r]
  PROVE  /\ c \in LoopType /\ CallSane(c) /\ (HasJob(c) => CallMatches(c, leased[c.job], filed[c.job]))
         /\ Fences(c.job) /\ HasJob(c) => CallFenced(c, leased[c.job], filed[c.job])
BY DEF LedgerInv, CallsHeld, LeaseTyped, FencedInv, RowsFenced, CallsFenced, ReadIsFenced, Fences

LEMMA ClaimCalls ==
  ASSUME LedgerInv, NEW r \in Loops,
         StartClaim(r) \/ NothingToClaim(r) \/ ReadArtifactFails(r) \/ ReadArtifact(r) \/ ConcludeClaim(r)
  PROVE  \E c \in LoopType : CallGoes(r, c)
<1>1. PICK c : c = loop[r]
  OBVIOUS
<1>2. /\ c \in LoopType /\ CallSane(c) /\ (HasJob(c) => CallMatches(c, leased[c.job], filed[c.job]))
      /\ Fences(c.job) /\ HasJob(c) => CallFenced(c, leased[c.job], filed[c.job])
  BY <1>1, CallOf
<1>3. CASE StartClaim(r)
  <2>1. PICK d : d = [IdleLoop EXCEPT !.at = "call", !.op = "claim", !.stage = "sent"]
    OBVIOUS
  <2>2. /\ d.at = "call" /\ d.op = "claim" /\ d.stage = "sent" /\ d.answer = "none" /\ d.claimed = NoArtifact
        /\ d \in LoopType
    BY <2>1, NoArtifactIsRender DEF IdleLoop, LoopType
  <2>3. CallSane(d) /\ ~HasJob(d)
    BY <2>2 DEF CallSane, HasJob, KnowsJob, Carries, IsReport
  <2> QED
    BY <1>3, <2>1, <2>2, <2>3 DEF CallGoes, StartClaim
<1>4. CASE NothingToClaim(r)
  <2>1. PICK d : d = [c EXCEPT !.stage = "answered", !.answer = "empty"]
    OBVIOUS
  <2>2. c.at = "call" /\ c.op = "claim" /\ c.stage = "sent" /\ loop' = [loop EXCEPT ![r] = d]
    BY <1>1, <1>4, <2>1 DEF NothingToClaim, Sent, Answered
  <2>3. d \in LoopType /\ d.at = "call" /\ d.op = "claim" /\ d.stage = "answered" /\ d.answer = "empty" /\ d.claimed = c.claimed
    BY <1>2, <2>1, <2>2 DEF LoopType
  <2>4. CallSane(d) /\ ~HasJob(d)
    BY <2>3 DEF CallSane, HasJob, KnowsJob, Carries, IsReport
  <2> QED
    BY <2>2, <2>3, <2>4 DEF CallGoes
<1>5. CASE ReadArtifactFails(r)
  <2>1. PICK d : d = [c EXCEPT !.stage = "answered", !.answer = "error"]
    OBVIOUS
  <2>2. c.stage = "reading" /\ loop' = [loop EXCEPT ![r] = d]
    BY <1>1, <1>5, <2>1 DEF ReadArtifactFails, Answered
  <2>3. c.at = "call" /\ c.op = "claim"
    BY <1>2, <2>2 DEF CallSane
  <2>4. d \in LoopType /\ d.at = "call" /\ d.op = "claim" /\ d.stage = "answered" /\ d.answer = "error"
    BY <1>2, <2>1, <2>3 DEF LoopType
  <2>5. CallSane(d) /\ ~HasJob(d)
    BY <2>4 DEF CallSane, HasJob, KnowsJob, Carries, IsReport
  <2> QED
    BY <2>2, <2>4, <2>5 DEF CallGoes
<1>6. CASE ReadArtifact(r)
  <2>1. PICK j, kept : j = c.job /\ kept = StoredArtifact(j)
    OBVIOUS
  <2>2. PICK d : d = [c EXCEPT !.stage = "answered", !.answer = "ok", !.claimed = kept]
    OBVIOUS
  <2>3. c.stage = "reading" /\ loop' = [loop EXCEPT ![r] = d]
    BY <1>1, <1>6, <2>1, <2>2 DEF ReadArtifact
  <2>4. c.at = "call" /\ c.op = "claim" /\ HasJob(c) /\ j \in LeaseJobs /\ c.attempt # 0
    BY <1>2, <2>1, <2>3 DEF CallSane, HasJob
  <2>5. filed[j] # <<>> /\ filed[j][1] \in Renders /\ filed[j][1].key # NoRender
    <3>1. filed[j] # <<>> /\ filed[j] \in Seq(Renders) /\ Len(filed[j]) = 1
      BY <1>2, <2>1, <2>3, <2>4 DEF CallMatches, LedgerInv, RowsFiled, CallsHeld, ReadHeld, LeaseTyped, RowFiled
    <3> QED
      BY <2>4, <3>1 DEF LedgerInv, RowsFiled, CallsHeld, ReadHeld, RowFiled
  <2>6. Newest(measured[j]) \in Nat /\ Newest(traces[j]) \in Nat
    BY <2>4 DEF LedgerInv, LeaseTyped, Newest, NoRender
  <2>7. /\ kept \in Renders /\ kept.key = filed[j][1].key /\ kept.link = filed[j][1].link
        /\ kept.metrics = Newest(measured[j]) /\ kept.trace = Newest(traces[j])
    BY <2>1, <2>5, <2>6 DEF StoredArtifact, Renders
  <2>8. /\ d \in LoopType /\ d.at = "call" /\ d.op = "claim" /\ d.stage = "answered" /\ d.answer = "ok"
        /\ d.claimed = kept /\ d.job = j /\ d.attempt = c.attempt
    BY <1>2, <2>1, <2>2, <2>4, <2>7 DEF LoopType
  <2>9. CallSane(d)
    BY <2>4, <2>5, <2>7, <2>8 DEF CallSane, HasJob, KnowsJob, Carries, IsReport
  <2>10. CallMatches(d, leased[d.job], filed[d.job])
    BY <1>2, <2>1, <2>4, <2>5, <2>8 DEF CallMatches
  <2>11. ASSUME Fences(d.job)
         PROVE  CallFenced(d, leased[d.job], filed[d.job])
    <3>1. OneRender(kept)
      BY <2>4, <2>5, <2>7, <2>8, <2>11 DEF Fences, FencedInv, RowsFenced, CallsFenced, ReadIsFenced, RowFenced, OneRender
    <3>2. kept # NoArtifact
      BY <2>5, <2>7, NoArtifactIsRender
    <3> QED
      BY <2>7, <2>8, <3>1, <3>2 DEF CallFenced, Carries, IsReport, KnowsJob
  <2> QED
    BY <2>3, <2>8, <2>9, <2>10, <2>11 DEF CallGoes
<1>7. CASE ConcludeClaim(r)
  <2>1. c.at = "call" /\ c.op = "claim" /\ c.stage = "answered" /\ loop' = [loop EXCEPT ![r] = TakesUp(r)]
    BY <1>1, <1>7 DEF ConcludeClaim
  <2>2. CASE c.answer # "ok"
    <3>1. loop' = [loop EXCEPT ![r] = IdleLoop] /\ IdleLoop \in LoopType
      BY <1>1, <2>1, <2>2, NoArtifactIsRender DEF TakesUp, IdleLoop, LoopType
    <3> QED
      BY <3>1, GoesIdle
  <2>3. CASE c.answer = "ok" /\ c.claimed = NoArtifact
    <3>1. PICK d : d = [c EXCEPT !.op = "none", !.stage = "none", !.answer = "none", !.at = "prep"]
      OBVIOUS
    <3>2. /\ d \in LoopType /\ d.at = "prep" /\ d.op = "none" /\ d.stage = "none" /\ d.answer = "none"
          /\ d.claimed = c.claimed /\ d.job = c.job /\ d.attempt = c.attempt
      BY <1>2, <3>1 DEF LoopType
    <3>3. TakesUp(r) = d
      BY <1>1, <1>2, <2>3, <3>1 DEF TakesUp, LoopType
    <3>4. KnowsJob(c) /\ HasJob(c)
      BY <2>1, <2>3 DEF HasJob, KnowsJob
    <3>5. CallSane(d) /\ CallMatches(d, leased[d.job], filed[d.job])
      BY <1>2, <2>3, <3>2, <3>4 DEF CallSane, CallMatches, HasJob, Carries
    <3>6. Fences(d.job) => CallFenced(d, leased[d.job], filed[d.job])
      BY <1>2, <2>3, <3>2, <3>4 DEF CallFenced, Carries
    <3> QED
      BY <2>1, <3>2, <3>3, <3>5, <3>6 DEF CallGoes
  <2>4. CASE c.answer = "ok" /\ c.claimed # NoArtifact
    <3>1. PICK art : art = [c.claimed EXCEPT !.metrics = NoRender]
      OBVIOUS
    <3> c.claimed \in Renders /\ NoRender \in Nat
      BY <1>2 DEF LoopType, NoRender
    <3>1a. /\ art \in Renders /\ art.key = c.claimed.key
           /\ art.link = c.claimed.link /\ art.metrics = NoRender /\ art.trace = c.claimed.trace
      BY <3>1 DEF Renders
    <3>2. PICK d : d = [c EXCEPT !.op = "none", !.stage = "none", !.answer = "none", !.at = "upload", !.art = art]
      OBVIOUS
    <3>3. /\ d \in LoopType /\ d.at = "upload" /\ d.op = "none" /\ d.stage = "none" /\ d.answer = "none"
          /\ d.claimed = c.claimed /\ d.job = c.job /\ d.attempt = c.attempt /\ d.art = art
      BY <1>2, <3>1a, <3>2 DEF LoopType
    <3>4. TakesUp(r) = d
      BY <1>1, <1>2, <2>4, <3>1, <3>2 DEF TakesUp, LoopType
    <3>5. KnowsJob(c) /\ HasJob(c)
      BY <2>1, <2>4 DEF HasJob, KnowsJob
    <3>6. CallSane(d) /\ CallMatches(d, leased[d.job], filed[d.job])
      BY <1>2, <2>4, <3>1a, <3>3, <3>5 DEF CallSane, CallMatches, HasJob, Carries
    <3>7. Fences(d.job) => CallFenced(d, leased[d.job], filed[d.job])
      BY <1>2, <2>4, <3>1a, <3>3, <3>5 DEF CallFenced, Carries, OneRender
    <3> QED
      BY <2>1, <3>3, <3>4, <3>6, <3>7 DEF CallGoes
  <2> QED
    BY <2>2, <2>3, <2>4
<1> QED
  BY <1>3, <1>4, <1>5, <1>6, <1>7

\* A call with which a report is sent.
SentAs(c, op, art) == [c EXCEPT !.at = "call", !.op = op, !.stage = "sent", !.answer = "none", !.art = art]
IsSent(d, c, op, art) ==
  /\ d \in LoopType /\ d.at = "call" /\ d.op = op /\ d.stage = "sent" /\ d.answer = "none" /\ d.art = art
  /\ d.claimed = c.claimed /\ d.job = c.job /\ d.attempt = c.attempt
LEMMA SentCall ==
  ASSUME NEW c \in LoopType, NEW op \in {"complete", "rendered", "fail"}, NEW art \in Renders, NEW d,
         d = SentAs(c, op, art)
  PROVE  IsSent(d, c, op, art)
BY DEF LoopType, SentAs, IsSent

\* A loop that sends a report: of a failure, or of the render it carries.
LEMMA ReportIsSent ==
  ASSUME LedgerInv, NEW r \in Loops, NEW c, c = loop[r], KnowsJob(c), NEW op \in {"complete", "rendered", "fail"},
         NEW art \in Renders, Sends(r, op, art),
         op # "fail" => art.key # NoRender /\ (c.claimed = NoArtifact => art.metrics # NoRender),
         op = "complete" => art.link = art.key,
         Fences(c.job) /\ op # "fail" =>
           OneRender(art) /\ (IF c.claimed = NoArtifact THEN art.metrics = art.key ELSE art.key = c.claimed.key)
  PROVE  \E d \in LoopType : CallGoes(r, d)
<1>1. /\ c \in LoopType /\ CallSane(c) /\ CallMatches(c, leased[c.job], filed[c.job]) /\ HasJob(c)
      /\ Fences(c.job) => CallFenced(c, leased[c.job], filed[c.job])
  BY CallOf DEF HasJob
<1>2. PICK d : d = SentAs(c, op, art)
  OBVIOUS
<1>3. loop' = [loop EXCEPT ![r] = d]
  BY <1>2 DEF Sends, SentAs
<1>4. /\ d \in LoopType /\ d.at = "call" /\ d.op = op /\ d.stage = "sent" /\ d.answer = "none" /\ d.art = art
      /\ d.claimed = c.claimed /\ d.job = c.job /\ d.attempt = c.attempt
  <2>1. IsSent(d, c, op, art)
    BY <1>1, <1>2, SentCall
  <2> QED
    BY <2>1 DEF IsSent
<1>5. CallSane(d)
  BY <1>1, <1>4 DEF CallSane, HasJob, KnowsJob, Carries, IsReport
<1>6. CallMatches(d, leased[d.job], filed[d.job])
  BY <1>1, <1>4 DEF CallMatches
<1>7. Fences(d.job) => CallFenced(d, leased[d.job], filed[d.job])
  BY <1>1, <1>4 DEF CallFenced, Carries, KnowsJob
<1> QED
  BY <1>3, <1>4, <1>5, <1>6, <1>7 DEF CallGoes

\* What a loop that gives up its work reports as rendered is the render it carries.
LEMMA DurableIsCarried ==
  ASSUME LedgerInv, NEW r \in Loops, NEW c, c = loop[r], Carries(c), KnowsJob(c), NEW art, art = DurableArtifact(r)
  PROVE  /\ art \in Renders /\ art.key # NoRender /\ (c.claimed = NoArtifact => art.metrics # NoRender)
         /\ Fences(c.job) => /\ OneRender(art)
                             /\ IF c.claimed = NoArtifact THEN art.metrics = art.key ELSE art.key = c.claimed.key
<1>1. /\ c \in LoopType /\ CallSane(c) /\ HasJob(c)
      /\ Fences(c.job) => CallFenced(c, leased[c.job], filed[c.job])
  BY CallOf DEF HasJob
<1>2. CASE c.claimed # NoArtifact
  <2>1. art = c.claimed
    BY <1>2 DEF DurableArtifact
  <2> QED
    BY <1>1, <1>2, <2>1 DEF CallSane, CallFenced, LoopType
<1>3. CASE c.claimed = NoArtifact
  <2>1. art = c.art
    BY <1>3 DEF DurableArtifact
  <2> QED
    BY <1>1, <1>3, <2>1 DEF CallSane, CallFenced, LoopType
<1> QED
  BY <1>2, <1>3

LEMMA WorkCalls ==
  ASSUME LedgerInv, NEW r \in Loops,
         \/ OpenWorkspace(r) \/ PrepareFails(r) \/ FinishRender(r) \/ RenderFails(r)
         \/ PublishArtifact(r) \/ PublishFails(r) \/ RenewConflicts(r)
  PROVE  \E c \in LoopType : CallGoes(r, c)
<1>1. PICK c : c = loop[r]
  OBVIOUS
<1>2. /\ c \in LoopType /\ CallSane(c) /\ (HasJob(c) => CallMatches(c, leased[c.job], filed[c.job]))
      /\ Fences(c.job) /\ HasJob(c) => CallFenced(c, leased[c.job], filed[c.job])
  BY <1>1, CallOf
<1>3. /\ c.at \in {"prep", "gpu", "post", "upload"} /\ KnowsJob(c) /\ HasJob(c)
      /\ (c.at \in {"post", "upload"} => Carries(c))
  BY <1>1 DEF OpenWorkspace, PrepareFails, FinishRender, RenderFails, PublishArtifact, PublishFails, RenewConflicts,
              Working, KnowsJob, HasJob, Carries
<1>4. NoArtifact \in Renders
  BY NoArtifactIsRender
<1>5. ASSUME Sends(r, "fail", NoArtifact)
      PROVE  \E d \in LoopType : CallGoes(r, d)
  BY <1>1, <1>3, <1>4, <1>5, ReportIsSent
<1>6. ASSUME c.at \in {"post", "upload"}, Sends(r, "rendered", DurableArtifact(r))
      PROVE  \E d \in LoopType : CallGoes(r, d)
  <2>1. PICK art : art = DurableArtifact(r)
    OBVIOUS
  <2>2. /\ art \in Renders /\ art.key # NoRender /\ (c.claimed = NoArtifact => art.metrics # NoRender)
        /\ Fences(c.job) => /\ OneRender(art)
                            /\ IF c.claimed = NoArtifact THEN art.metrics = art.key ELSE art.key = c.claimed.key
    BY <1>1, <1>3, <1>6, <2>1, DurableIsCarried
  <2>3. Sends(r, "rendered", art)
    BY <1>6, <2>1
  <2> QED
    BY <1>1, <1>3, <2>2, <2>3, ReportIsSent
<1>7. CASE OpenWorkspace(r)
  <2>1. PICK d : d = [c EXCEPT !.at = "gpu", !.workspace = TRUE]
    OBVIOUS
  <2>2. c.at = "prep" /\ loop' = [loop EXCEPT ![r] = d]
    BY <1>1, <1>7, <2>1 DEF OpenWorkspace
  <2>3. /\ d \in LoopType /\ d.at = "gpu" /\ d.op = c.op /\ d.stage = c.stage /\ d.answer = c.answer
        /\ d.claimed = c.claimed /\ d.job = c.job /\ d.attempt = c.attempt
    BY <1>2, <2>1 DEF LoopType
  <2>4. CallSane(d) /\ CallMatches(d, leased[d.job], filed[d.job])
    BY <1>2, <1>3, <2>2, <2>3 DEF CallSane, CallMatches, HasJob, Carries
  <2>5. Fences(d.job) => CallFenced(d, leased[d.job], filed[d.job])
    BY <1>2, <1>3, <2>2, <2>3 DEF CallFenced, Carries, CallSane
  <2> QED
    BY <2>2, <2>3, <2>4, <2>5 DEF CallGoes
<1>8. CASE FinishRender(r)
  <2>1. PICK n \in Nat : n = c.attempt /\ n # 0
    BY <1>2, <1>3 DEF CallSane, LoopType
  <2>2. PICK t \in {NoRender, n} :
          loop' = [loop EXCEPT ![r] = [c EXCEPT !.at = "post",
                     !.art = [key |-> n, link |-> NoRender, metrics |-> n, trace |-> t]]]
    <3>1. PICK traced \in BOOLEAN :
            loop' = [loop EXCEPT ![r] = [loop[r] EXCEPT !.at = "post",
                       !.art = [key |-> loop[r].attempt, link |-> NoRender, metrics |-> loop[r].attempt,
                                trace |-> IF traced THEN loop[r].attempt ELSE NoRender]]]
      BY <1>8 DEF FinishRender
    <3> QED
      BY <1>1, <2>1, <3>1
  <2>3. PICK art : art = [key |-> n, link |-> NoRender, metrics |-> n, trace |-> t]
    OBVIOUS
  <2>4. art \in Renders /\ art.key = n /\ art.link = NoRender /\ art.metrics = n /\ art.trace = t
    BY <2>1, <2>3 DEF Renders, NoRender
  <2>5. PICK d : d = [c EXCEPT !.at = "post", !.art = art]
    OBVIOUS
  <2>6. /\ d \in LoopType /\ d.at = "post" /\ d.op = c.op /\ d.stage = c.stage /\ d.answer = c.answer
        /\ d.claimed = c.claimed /\ d.job = c.job /\ d.attempt = c.attempt /\ d.art = art
    BY <1>2, <2>4, <2>5 DEF LoopType
  <2>7. c.claimed = NoArtifact /\ c.at = "gpu" /\ c.op = "none"
    BY <1>1, <1>2, <1>8 DEF FinishRender, CallSane
  <2>8. CallSane(d) /\ CallMatches(d, leased[d.job], filed[d.job])
    BY <1>2, <1>3, <2>1, <2>4, <2>6, <2>7 DEF CallSane, CallMatches, HasJob, NoRender
  <2>9. Fences(d.job) => CallFenced(d, leased[d.job], filed[d.job])
    BY <1>2, <1>3, <2>4, <2>6, <2>7 DEF CallFenced, OneRender
  <2>10. loop' = [loop EXCEPT ![r] = d]
    BY <2>2, <2>3, <2>5
  <2> QED
    BY <2>6, <2>8, <2>9, <2>10 DEF CallGoes
<1>9. CASE PublishArtifact(r)
  <2>1. c.at \in {"post", "upload"} /\ Carries(c)
    BY <1>1, <1>3, <1>9 DEF PublishArtifact
  <2>2. PICK art : art = [c.art EXCEPT !.link = c.art.key]
    OBVIOUS
  <2>3. art \in Renders /\ art.key = c.art.key /\ art.link = art.key /\ art.metrics = c.art.metrics /\ art.trace = c.art.trace
    <3>1. c.art \in Renders
      BY <1>2 DEF LoopType
    <3> QED
      BY <2>2, <3>1 DEF Renders
  <2>4. art.key # NoRender /\ (c.claimed = NoArtifact => art.metrics # NoRender)
    BY <1>2, <2>1, <2>3 DEF CallSane
  <2>5. Fences(c.job) => /\ OneRender(art)
                         /\ IF c.claimed = NoArtifact THEN art.metrics = art.key ELSE art.key = c.claimed.key
    BY <1>2, <1>3, <2>1, <2>3 DEF CallFenced, OneRender
  <2>6. Sends(r, "complete", art)
    BY <1>1, <1>9, <2>2 DEF PublishArtifact
  <2> QED
    BY <1>1, <1>3, <2>3, <2>4, <2>5, <2>6, ReportIsSent
<1>10. CASE PublishFails(r)
  BY <1>1, <1>6, <1>10 DEF PublishFails
<1>11. CASE PrepareFails(r) \/ RenderFails(r)
  BY <1>5, <1>11 DEF PrepareFails, RenderFails
<1>12. CASE RenewConflicts(r)
  <2>1. \/ c.at = "prep" /\ loop' = [loop EXCEPT ![r] = IdleLoop]
        \/ c.at = "gpu" /\ Sends(r, "fail", NoArtifact)
        \/ c.at \in {"post", "upload"} /\ Sends(r, "rendered", DurableArtifact(r))
    BY <1>1, <1>3, <1>12 DEF RenewConflicts, Aborts
  <2>2. IdleLoop \in LoopType
    BY NoArtifactIsRender DEF IdleLoop, LoopType
  <2> QED
    BY <1>5, <1>6, <2>1, <2>2, GoesIdle
<1> QED
  BY <1>7, <1>8, <1>9, <1>10, <1>11, <1>12

LEMMA ReportCalls ==
  ASSUME LedgerInv, NEW r \in Loops, ReportConflicts(r) \/ AnswerIsLost(r) \/ ConcludeReport(r)
  PROVE  \E c \in LoopType : CallGoes(r, c)
<1>1. PICK c : c = loop[r]
  OBVIOUS
<1>2. /\ c \in LoopType /\ CallSane(c) /\ (HasJob(c) => CallMatches(c, leased[c.job], filed[c.job]))
      /\ Fences(c.job) /\ HasJob(c) => CallFenced(c, leased[c.job], filed[c.job])
  BY <1>1, CallOf
<1>3. ASSUME NEW refusal \in {"conflict", "error"}, c.at = "call", c.op # "claim" \/ c.stage = "answered",
             loop' = [loop EXCEPT ![r] = [c EXCEPT !.stage = "answered", !.answer = refusal]]
      PROVE  \E d \in LoopType : CallGoes(r, d)
  <2>1. PICK d : d = [c EXCEPT !.stage = "answered", !.answer = refusal]
    OBVIOUS
  <2>2. /\ d \in LoopType /\ d.at = "call" /\ d.op = c.op /\ d.stage = "answered" /\ d.answer = refusal /\ d.art = c.art
        /\ d.claimed = c.claimed /\ d.job = c.job /\ d.attempt = c.attempt
    BY <1>2, <1>3, <2>1 DEF LoopType
  <2>3. HasJob(d) => KnowsJob(d) /\ KnowsJob(c) /\ HasJob(c)
    BY <1>3, <2>2 DEF HasJob, KnowsJob
  <2>4. CallSane(d) /\ (HasJob(d) => CallMatches(d, leased[d.job], filed[d.job]))
    BY <1>2, <1>3, <2>2, <2>3 DEF CallSane, CallMatches, HasJob, Carries, KnowsJob, IsReport
  <2>5. Fences(d.job) /\ HasJob(d) => CallFenced(d, leased[d.job], filed[d.job])
    BY <1>2, <1>3, <2>2, <2>3 DEF CallFenced, Carries
  <2> QED
    BY <1>3, <2>1, <2>2, <2>4, <2>5 DEF CallGoes
<1>4. CASE ReportConflicts(r)
  BY <1>1, <1>3, <1>4 DEF ReportConflicts, ReportSent, Answered, IsReport
<1>5. CASE AnswerIsLost(r)
  BY <1>1, <1>3, <1>5 DEF AnswerIsLost, Answered
<1>6. CASE ConcludeReport(r)
  <2>1. /\ c.at = "call" /\ IsReport(c.op) /\ KnowsJob(c)
        /\ \/ c.op = "complete" /\ Sends(r, "rendered", DurableArtifact(r))
           \/ loop' = [loop EXCEPT ![r] = IdleLoop]
    BY <1>1, <1>6 DEF ConcludeReport, FallsBack, KnowsJob
  <2>2. CASE c.op = "complete" /\ Sends(r, "rendered", DurableArtifact(r))
    <3>1. PICK art : art = DurableArtifact(r)
      OBVIOUS
    <3>2. Carries(c)
      BY <2>1, <2>2 DEF Carries
    <3>3. /\ art \in Renders /\ art.key # NoRender /\ (c.claimed = NoArtifact => art.metrics # NoRender)
          /\ Fences(c.job) => /\ OneRender(art)
                              /\ IF c.claimed = NoArtifact THEN art.metrics = art.key ELSE art.key = c.claimed.key
      BY <1>1, <2>1, <3>1, <3>2, DurableIsCarried
    <3>4. Sends(r, "rendered", art)
      BY <2>2, <3>1
    <3> QED
      BY <1>1, <2>1, <3>3, <3>4, ReportIsSent
  <2>3. CASE loop' = [loop EXCEPT ![r] = IdleLoop]
    <3>1. IdleLoop \in LoopType
      BY NoArtifactIsRender DEF IdleLoop, LoopType
    <3> QED
      BY <2>3, <3>1, GoesIdle
  <2> QED
    BY <2>1, <2>2, <2>3
<1> QED
  BY <1>4, <1>5, <1>6

LEMMA WorkerDiesKeeps ==
  ASSUME LedgerInv, NEW w, WorkerDies(w)
  PROVE  LedgerInv' /\ (FencedInv => FencedInv')
<1>1. /\ loop' = [r \in Loops |-> IF workerOf[r] = w THEN IdleLoop ELSE loop[r]]
      /\ UNCHANGED <<leased, filed, measured, traces, shown, mixed>>
  BY DEF WorkerDies, filedVars
<1>2. IdleLoop \in LoopType /\ CallSane(IdleLoop) /\ ~HasJob(IdleLoop)
  BY NoArtifactIsRender DEF IdleLoop, LoopType, CallSane, HasJob, KnowsJob, Carries, IsReport
<1>3. LeaseTyped'
  BY <1>1, <1>2 DEF LedgerInv, LeaseTyped
<1>4. ASSUME NEW s \in Loops
      PROVE  /\ CallSane(loop'[s])
             /\ HasJob(loop'[s]) => CallMatches(loop'[s], leased'[loop'[s].job], filed'[loop'[s].job])
             /\ FencedInv /\ HasJob(loop'[s]) /\ loop'[s].job \notin mixed =>
                  CallFenced(loop'[s], leased'[loop'[s].job], filed'[loop'[s].job])
  <2>1. CASE workerOf[s] = w
    BY <1>1, <1>2, <2>1
  <2>2. CASE workerOf[s] # w
    BY <1>1, <2>2 DEF LedgerInv, RowsFiled, CallsHeld, ReadHeld, FencedInv, RowsFenced, CallsFenced, ReadIsFenced
  <2> QED
    BY <2>1, <2>2
<1>5. LedgerInv'
  <2>1. RowsFiled'
    BY <1>1, <1>3, <1>4 DEF LedgerInv, RowsFiled
  <2>2. CallsHeld'
    BY <1>1, <1>3, <1>4 DEF LedgerInv, CallsHeld
  <2>3. ReadHeld'
    BY <1>1, <1>3, <1>4 DEF LedgerInv, ReadHeld
  <2> QED
    BY <1>1, <1>3, <1>4, <2>1, <2>2, <2>3 DEF LedgerInv
<1>6. FencedInv => FencedInv'
  <2> SUFFICES ASSUME FencedInv
               PROVE  FencedInv'
    OBVIOUS
  <2>1. RowsFenced'
    BY <1>1, <1>4 DEF FencedInv, RowsFenced
  <2>2. CallsFenced'
    BY <1>1, <1>4 DEF FencedInv, CallsFenced
  <2>3. ReadIsFenced'
    BY <1>1, <1>4 DEF FencedInv, ReadIsFenced
  <2> QED
    BY <1>1, <1>4, <2>1, <2>2, <2>3 DEF FencedInv
<1> QED
  BY <1>5, <1>6

\* A row that moves while nothing is filed: it stays completed, and it runs the attempt it
\* ran before.
LEMMA RowGoes ==
  ASSUME LedgerInv, NEW j \in LeaseJobs, NEW row \in RowType, leased' = [leased EXCEPT ![j] = row],
         UNCHANGED <<loop, filed, measured, traces, shown, mixed>>,
         row.linked = leased[j].linked, row.attempt = leased[j].attempt,
         row.state \in {"rendered", "completed"} => row.state = leased[j].state,
         leased[j].state # "completed" \/ row.state = "completed",
         row.state = "running" => leased[j].state = "running"
  PROVE  LedgerInv' /\ (FencedInv => FencedInv')
<1>1. LeaseTyped' /\ leased'[j] = row /\ \A k \in LeaseJobs : k # j => leased'[k] = leased[k]
  BY DEF LedgerInv, LeaseTyped
<1>2. ASSUME NEW k \in LeaseJobs
      PROVE  RowFiled(leased'[k], filed[k], measured[k], traces[k])
  <2>1. CASE k = j
    <3>1. RowFiled(leased[j], filed[j], measured[j], traces[j])
      BY DEF LedgerInv, RowsFiled, CallsHeld, ReadHeld
    <3> QED
      BY <1>1, <2>1, <3>1 DEF RowFiled
  <2>2. CASE k # j
    BY <1>1, <2>2 DEF LedgerInv, RowsFiled, CallsHeld, ReadHeld
  <2> QED
    BY <2>1, <2>2
<1>3. ASSUME NEW s \in Loops, HasJob(loop[s])
      PROVE  /\ CallMatches(loop[s], leased'[loop[s].job], filed[loop[s].job])
             /\ FencedInv /\ loop[s].job \notin mixed => CallFenced(loop[s], leased'[loop[s].job], filed[loop[s].job])
  <2>1. PICK c, k : c = loop[s] /\ k = loop[s].job
    OBVIOUS
  <2>2. /\ CallMatches(c, leased[k], filed[k]) /\ k \in LeaseJobs
        /\ FencedInv /\ k \notin mixed => CallFenced(c, leased[k], filed[k])
    BY <1>3, <2>1 DEF LedgerInv, RowsFiled, CallsHeld, ReadHeld,
                      FencedInv, RowsFenced, CallsFenced, ReadIsFenced, CallSane
  <2>3. CASE k = j
    <3>1. leased'[k] = row
      BY <1>1, <2>3
    <3> QED
      BY <2>1, <2>2, <2>3, <3>1 DEF CallMatches, CallFenced
  <2>4. CASE k # j
    BY <1>1, <2>1, <2>2, <2>4
  <2> QED
    BY <2>3, <2>4
<1>4. ASSUME shown.at # "row"
      PROVE  shown.job \in LeaseJobs /\ ReadSane(shown, leased'[shown.job], filed[shown.job])
  <2>1. shown.job \in LeaseJobs /\ ReadSane(shown, leased[shown.job], filed[shown.job])
    BY <1>4 DEF LedgerInv, RowsFiled, CallsHeld, ReadHeld
  <2>2. leased[shown.job].state = "completed" => leased'[shown.job].state = "completed"
    BY <1>1, <2>1
  <2> QED
    BY <2>1, <2>2 DEF ReadSane
<1>5. LedgerInv'
  <2>1. RowsFiled'
    BY <1>2 DEF LedgerInv, RowsFiled
  <2>2. CallsHeld'
    BY <1>3 DEF LedgerInv, CallsHeld
  <2>3. ReadHeld'
    BY <1>4 DEF LedgerInv, ReadHeld
  <2> QED
    BY <1>1, <2>1, <2>2, <2>3 DEF LedgerInv
<1>6. FencedInv => FencedInv'
  <2> SUFFICES ASSUME FencedInv
               PROVE  FencedInv'
    OBVIOUS
  <2>1. RowsFenced'
    BY DEF FencedInv, RowsFenced
  <2>2. CallsFenced'
    BY <1>3 DEF FencedInv, CallsFenced
  <2>3. ReadIsFenced'
    BY DEF FencedInv, ReadIsFenced
  <2> QED
    BY <2>1, <2>2, <2>3 DEF FencedInv
<1> QED
  BY <1>5, <1>6

LEMMA NobodyHolds == Nobody \in Holders
BY DEF Holders

\* What one step makes of the row of a job.
LEMMA ClosedRow ==
  ASSUME LedgerInv, NEW j \in LeaseJobs, NEW to \in {"pending", "failed", "cancelled"}, Closes(j, to)
  PROVE  \E row \in RowType : /\ leased' = [leased EXCEPT ![j] = row] /\ row.state = to
                              /\ row.attempt = leased[j].attempt /\ row.linked = leased[j].linked
<1>1. PICK l : l = leased[j] /\ l \in RowType
  BY DEF LedgerInv, LeaseTyped
<1>2. PICK row : row = [l EXCEPT !.state = to, !.holder = Nobody, !.late = FALSE]
  OBVIOUS
<1>3. row \in RowType /\ row.state = to /\ row.attempt = l.attempt /\ row.linked = l.linked
  BY <1>1, <1>2, NobodyHolds DEF RowType
<1>4. leased' = [leased EXCEPT ![j] = row]
  BY <1>1, <1>2 DEF Closes
<1> QED
  BY <1>1, <1>3, <1>4

LEMMA RowStepsKeep ==
  ASSUME LedgerInv, \/ \E j \in LeaseJobs : LeaseRunsOut(j) \/ SweepExpired(j) \/ CancelJob(j)
                    \/ \E r \in Loops : RenewLease(r)
  PROVE  LedgerInv' /\ (FencedInv => FencedInv')
<1>1. UNCHANGED <<loop, filed, measured, traces, shown, mixed>>
  BY DEF LeaseRunsOut, SweepExpired, CancelJob, RenewLease, filedVars
<1>2. ASSUME NEW j \in LeaseJobs, NEW b \in BOOLEAN, leased' = [leased EXCEPT ![j].late = b]
      PROVE  LedgerInv' /\ (FencedInv => FencedInv')
  <2>1. PICK l : l = leased[j] /\ l \in RowType
    BY DEF LedgerInv, LeaseTyped
  <2>2. PICK row : row = [l EXCEPT !.late = b]
    OBVIOUS
  <2>3. row \in RowType /\ row.state = l.state /\ row.attempt = l.attempt /\ row.linked = l.linked
    BY <2>1, <2>2 DEF RowType
  <2>4. leased' = [leased EXCEPT ![j] = row]
    BY <1>2, <2>1, <2>2
  <2> QED
    BY <1>1, <2>1, <2>3, <2>4, RowGoes
<1>3. ASSUME NEW j \in LeaseJobs, NEW to \in {"pending", "failed", "cancelled"}, Closes(j, to),
             leased[j].state # "completed"
      PROVE  LedgerInv' /\ (FencedInv => FencedInv')
  <2>1. PICK row \in RowType : /\ leased' = [leased EXCEPT ![j] = row] /\ row.state = to
                               /\ row.attempt = leased[j].attempt /\ row.linked = leased[j].linked
    BY <1>3, ClosedRow
  <2> QED
    BY <1>1, <1>3, <2>1, RowGoes
<1>4. ASSUME NEW j \in LeaseJobs, LeaseRunsOut(j)
      PROVE  LedgerInv' /\ (FencedInv => FencedInv')
  BY <1>2, <1>4 DEF LeaseRunsOut
<1>5. ASSUME NEW j \in LeaseJobs, SweepExpired(j)
      PROVE  LedgerInv' /\ (FencedInv => FencedInv')
  BY <1>3, <1>5, FailureTells DEF SweepExpired
<1>6. ASSUME NEW j \in LeaseJobs, CancelJob(j)
      PROVE  LedgerInv' /\ (FencedInv => FencedInv')
  BY <1>3, <1>6 DEF CancelJob
<1>7. ASSUME NEW r \in Loops, RenewLease(r)
      PROVE  LedgerInv' /\ (FencedInv => FencedInv')
  <2>1. loop[r].job \in LeaseJobs
    BY <1>7 DEF RenewLease, Working, LedgerInv, RowsFiled, CallsHeld, ReadHeld, CallSane, HasJob, KnowsJob
  <2> QED
    BY <1>2, <1>7, <2>1 DEF RenewLease
<1> QED
  BY <1>4, <1>5, <1>6, <1>7

LEMMA NewestOfAppend ==
  ASSUME NEW s \in Seq(Nat), NEW n \in Nat
  PROVE  /\ AppendRender(s, n) \in Seq(Nat)
         /\ Newest(AppendRender(s, n)) = IF n = NoRender THEN Newest(s) ELSE n
<1>1. CASE n = NoRender
  BY <1>1 DEF AppendRender
<1>2. CASE n # NoRender
  <2>1. PICK more : more = Append(s, n)
    OBVIOUS
  <2>2. more \in Seq(Nat) /\ more[Len(more)] = n /\ Len(more) = Len(s) + 1 /\ Len(s) \in Nat
    BY <2>1, OneMore
  <2>3. more # <<>>
    BY <2>2
  <2> QED
    BY <1>2, <2>1, <2>2, <2>3 DEF AppendRender, Newest
<1> QED
  BY <1>1, <1>2

\* A step that moves the row of a job, its files and the call of one loop: the other loops
\* and the producer know what they knew, and no other loop has the attempt that runs.
FilesOf(j, f, m, t) ==
  /\ filed' = [filed EXCEPT ![j] = f] /\ f \in Seq(Renders)
  /\ measured' = [measured EXCEPT ![j] = m] /\ m \in Seq(Nat)
  /\ traces' = [traces EXCEPT ![j] = t] /\ t \in Seq(Nat)
  /\ filed[j] # <<>> => f # <<>> /\ f[1].key = filed[j][1].key
RowOf(j, row) == row \in RowType /\ leased' = [leased EXCEPT ![j] = row]
NobodyElse(r, j, row) ==
  row.state = "running" =>
    \A s \in Loops : s # r /\ HasJob(loop[s]) /\ loop[s].job = j => loop[s].attempt # row.attempt

LEMMA JobAndCall ==
  ASSUME LedgerInv, NEW j \in LeaseJobs, NEW row, RowOf(j, row), leased[j].state # "completed", leased[j].attempt <= row.attempt,
         mixed \subseteq mixed', mixed' \subseteq mixed \cup {j},
         NEW f, NEW m, NEW t, FilesOf(j, f, m, t), RowFiled(row, f, m, t), shown' = shown,
         NEW r \in Loops, NEW c \in LoopType, loop' = [loop EXCEPT ![r] = c], CallSane(c),
         HasJob(c) => c.job = j /\ CallMatches(c, row, f)
  PROVE  /\ LedgerInv'
         /\ /\ FencedInv
            /\ j \notin mixed' =>
                 RowFenced(f, m, t) /\ NobodyElse(r, j, row) /\ (HasJob(c) => CallFenced(c, row, f))
            => FencedInv'
<1>1. /\ loop' \in [Loops -> LoopType] /\ loop'[r] = c /\ \A s \in Loops : s # r => loop'[s] = loop[s]
      /\ leased' \in [LeaseJobs -> RowType] /\ leased'[j] = row /\ \A k \in LeaseJobs : k # j => leased'[k] = leased[k]
  BY DEF LedgerInv, LeaseTyped, RowOf
<1>2. /\ filed' \in [LeaseJobs -> Seq(Renders)] /\ filed'[j] = f /\ \A k \in LeaseJobs : k # j => filed'[k] = filed[k]
      /\ measured' \in [LeaseJobs -> Seq(Nat)] /\ measured'[j] = m /\ \A k \in LeaseJobs : k # j => measured'[k] = measured[k]
      /\ traces' \in [LeaseJobs -> Seq(Nat)] /\ traces'[j] = t /\ \A k \in LeaseJobs : k # j => traces'[k] = traces[k]
  BY DEF LedgerInv, LeaseTyped, FilesOf
<1>3. LeaseTyped'
  BY <1>1, <1>2 DEF LedgerInv, LeaseTyped
<1>4. ASSUME NEW k \in LeaseJobs
      PROVE  /\ RowFiled(leased'[k], filed'[k], measured'[k], traces'[k])
             /\ FencedInv /\ k \notin mixed' /\ (k = j => RowFenced(f, m, t)) => RowFenced(filed'[k], measured'[k], traces'[k])
  <2>1. CASE k = j
    BY <1>1, <1>2, <2>1
  <2>2. CASE k # j
    BY <1>1, <1>2, <2>2 DEF LedgerInv, RowsFiled, CallsHeld, ReadHeld,
                            FencedInv, RowsFenced, CallsFenced, ReadIsFenced
  <2> QED
    BY <2>1, <2>2
<1>5. ASSUME NEW s \in Loops, s # r, HasJob(loop[s])
      PROVE  /\ CallMatches(loop[s], leased'[loop[s].job], filed'[loop[s].job])
             /\ FencedInv /\ loop[s].job \notin mixed' /\ (loop[s].job = j => NobodyElse(r, j, row)) =>
                  CallFenced(loop[s], leased'[loop[s].job], filed'[loop[s].job])
  <2>1. PICK d, k : d = loop[s] /\ k = loop[s].job
    OBVIOUS
  <2>2. /\ CallMatches(d, leased[k], filed[k]) /\ k \in LeaseJobs
        /\ FencedInv /\ k \notin mixed' => CallFenced(d, leased[k], filed[k])
    BY <1>5, <2>1 DEF LedgerInv, RowsFiled, CallsHeld, ReadHeld,
                      FencedInv, RowsFenced, CallsFenced, ReadIsFenced, CallSane
  <2>3. CASE k = j
    <3>1. leased'[k] = row /\ filed'[k] = f /\ (filed[k] # <<>> => f # <<>> /\ f[1].key = filed[k][1].key)
      BY <1>1, <1>2, <2>3 DEF FilesOf
    <3>2. ~(d.op = "complete" /\ d.answer = "ok")
      BY <2>2, <2>3 DEF CallMatches
    <3>3. CallMatches(d, leased'[k], filed'[k])
      <4>1. d.attempt \in Nat /\ leased[k].attempt \in Nat /\ row.attempt \in Nat /\ leased[k].attempt <= row.attempt
        BY <2>1, <2>2, <2>3 DEF LedgerInv, LeaseTyped, LoopType, RowType, RowOf
      <4>2. d.attempt <= row.attempt
        BY <2>2, <4>1 DEF CallMatches
      <4> QED
        BY <2>2, <3>1, <3>2, <4>2 DEF CallMatches
    <3>4. ASSUME FencedInv, k \notin mixed', NobodyElse(r, j, row)
          PROVE  CallFenced(d, leased'[k], filed'[k])
      <4>1. ~(row.state = "running" /\ d.attempt = row.attempt)
        BY <1>5, <2>1, <2>3, <3>4 DEF NobodyElse
      <4>2. d.claimed # NoArtifact => filed[k] # <<>>
        BY <2>2 DEF CallMatches
      <4> QED
        BY <1>5, <2>1, <2>2, <3>1, <3>2, <3>4, <4>1, <4>2 DEF CallFenced
    <3> QED
      BY <2>1, <2>3, <3>3, <3>4
  <2>4. CASE k # j
    BY <1>1, <1>2, <2>1, <2>2, <2>4
  <2> QED
    BY <2>3, <2>4
<1>6. ASSUME NEW s \in Loops
      PROVE  /\ CallSane(loop'[s])
             /\ HasJob(loop'[s]) => CallMatches(loop'[s], leased'[loop'[s].job], filed'[loop'[s].job])
             /\ /\ FencedInv /\ HasJob(loop'[s]) /\ loop'[s].job \notin mixed'
                /\ j \notin mixed' => NobodyElse(r, j, row) /\ (HasJob(c) => CallFenced(c, row, f))
                =>
                  CallFenced(loop'[s], leased'[loop'[s].job], filed'[loop'[s].job])
  <2>1. CASE s = r
    BY <1>1, <1>2, <2>1
  <2>2. CASE s # r
    BY <1>1, <1>5, <2>2 DEF LedgerInv, RowsFiled, CallsHeld, ReadHeld
  <2> QED
    BY <2>1, <2>2
<1>7. ASSUME shown.at # "row"
      PROVE  /\ shown.job \in LeaseJobs /\ ReadSane(shown, leased'[shown.job], filed'[shown.job])
             /\ FencedInv /\ shown.job \notin mixed' => ReadFenced(shown, filed'[shown.job])
  <2>1. PICK k : k = shown.job
    OBVIOUS
  <2>2. k \in LeaseJobs /\ ReadSane(shown, leased[k], filed[k]) /\ (FencedInv /\ k \notin mixed' => ReadFenced(shown, filed[k]))
    BY <1>7, <2>1 DEF LedgerInv, RowsFiled, CallsHeld, ReadHeld, FencedInv, RowsFenced, CallsFenced, ReadIsFenced
  <2>3. CASE k = j
    <3>1. leased'[k] = row /\ filed'[k] = f /\ filed[k] # <<>> /\ f # <<>> /\ f[1].key = filed[k][1].key /\ shown.state # "completed"
      BY <1>1, <1>2, <2>2, <2>3 DEF FilesOf, ReadSane
    <3>2. ReadSane(shown, leased'[k], filed'[k])
      BY <2>2, <3>1 DEF ReadSane
    <3>3. FencedInv /\ k \notin mixed' => ReadFenced(shown, filed'[k])
      BY <2>2, <3>1 DEF ReadFenced
    <3> QED
      BY <2>1, <2>2, <3>2, <3>3
  <2>4. CASE k # j
    BY <1>1, <1>2, <2>1, <2>2, <2>4
  <2> QED
    BY <2>3, <2>4
<1>8. LedgerInv'
  <2>1. RowsFiled'
    BY <1>3, <1>4, <1>6, <1>7 DEF LedgerInv, RowsFiled
  <2>2. CallsHeld'
    BY <1>3, <1>4, <1>6, <1>7 DEF LedgerInv, CallsHeld
  <2>3. ReadHeld'
    BY <1>3, <1>4, <1>6, <1>7 DEF LedgerInv, ReadHeld
  <2> QED
    BY <1>3, <1>4, <1>6, <1>7, <2>1, <2>2, <2>3 DEF LedgerInv
<1>9. /\ FencedInv
      /\ j \notin mixed' => RowFenced(f, m, t) /\ NobodyElse(r, j, row) /\ (HasJob(c) => CallFenced(c, row, f))
      => FencedInv'
  <2> SUFFICES ASSUME FencedInv,
                      j \notin mixed' =>
                        RowFenced(f, m, t) /\ NobodyElse(r, j, row) /\ (HasJob(c) => CallFenced(c, row, f))
               PROVE  FencedInv'
    OBVIOUS
  <2>1. RowsFenced'
    BY <1>4, <1>6, <1>7 DEF FencedInv, RowsFenced
  <2>2. CallsFenced'
    BY <1>4, <1>6, <1>7 DEF FencedInv, CallsFenced
  <2>3. ReadIsFenced'
    BY <1>4, <1>6, <1>7 DEF FencedInv, ReadIsFenced
  <2> QED
    BY <1>4, <1>6, <1>7, <2>1, <2>2, <2>3 DEF FencedInv
<1> QED
  BY <1>8, <1>9

\* A claim: the row is the claimer's, and what is filed is read next.
LEMMA ClaimRowKeeps ==
  ASSUME LedgerInv, workerOf \in Processes, NEW r \in Loops, NEW j \in LeaseJobs, ClaimRow(r, j)
  PROVE  LedgerInv' /\ (FencedInv => FencedInv')
<1>1. PICK c, l : c = loop[r] /\ l = leased[j]
  OBVIOUS
<1>2. c \in LoopType /\ CallSane(c) /\ l \in RowType /\ RowFiled(l, filed[j], measured[j], traces[j])
  BY <1>1, CallOf DEF LedgerInv, RowsFiled, LeaseTyped
<1>3. /\ c.at = "call" /\ c.op = "claim" /\ c.stage = "sent" /\ l.state \in {"pending", "rendered"}
      /\ shown' = shown /\ UNCHANGED <<filed, measured, traces, mixed>>
  BY <1>1 DEF ClaimRow, Sent, Claimable, filedVars
<1>4. PICK row : row = [l EXCEPT !.state = "running", !.holder = workerOf[r], !.attempt = l.attempt + 1, !.late = FALSE]
  OBVIOUS
<1>5. row \in RowType /\ row.state = "running" /\ row.attempt = l.attempt + 1 /\ row.linked = l.linked
      /\ l.attempt <= row.attempt
  <2>1. workerOf[r] \in Holders /\ l.attempt + 1 \in Nat /\ l.attempt <= l.attempt + 1
    <3>1. workerOf[r] \in {workerOf[s] : s \in Loops}
      OBVIOUS
    <3>2. workerOf[r] \in Holders
      BY <3>1 DEF Holders
    <3> QED
      BY <1>2, <3>2 DEF RowType
  <2> QED
    BY <1>2, <1>4, <2>1 DEF RowType
<1>6. RowOf(j, row)
  <2>1. leased' = [leased EXCEPT ![j] = [leased[j] EXCEPT !.state = "running", !.holder = workerOf[r],
                                                         !.attempt = leased[j].attempt + 1, !.late = FALSE]]
    BY DEF ClaimRow
  <2> QED
    BY <1>1, <1>4, <1>5, <2>1 DEF RowOf
<1>7. PICK d : d = [c EXCEPT !.job = j, !.attempt = l.attempt + 1,
                             !.stage = IF l.linked THEN "reading" ELSE "answered",
                             !.answer = IF l.linked THEN "none" ELSE "ok"]
  OBVIOUS
<1>8. /\ d \in LoopType /\ d.job = j /\ d.attempt # 0 /\ d.attempt = l.attempt + 1 /\ d.at = "call" /\ d.op = "claim" /\ d.claimed = NoArtifact
      /\ IF l.linked THEN d.stage = "reading" /\ d.answer = "none" ELSE d.stage = "answered" /\ d.answer = "ok"
  <2>1. l.attempt + 1 \in Nat /\ l.attempt + 1 # 0
    BY <1>2 DEF RowType
  <2>2. c.claimed = NoArtifact
    BY <1>2, <1>3 DEF CallSane
  <2>3. PICK n, st, an : n = l.attempt + 1 /\ st = (IF l.linked THEN "reading" ELSE "answered")
                                /\ an = (IF l.linked THEN "none" ELSE "ok")
    OBVIOUS
  <2>4. d = [c EXCEPT !.job = j, !.attempt = n, !.stage = st, !.answer = an]
    BY <1>7, <2>3
  <2>5. n \in Nat /\ n # 0 /\ st \in {"reading", "answered"} /\ an \in {"none", "ok"}
    BY <2>1, <2>3
  <2>6. d \in LoopType
    BY <1>2, <2>4, <2>5 DEF LoopType
  <2>7. /\ d.job = j /\ d.attempt = n /\ d.stage = st /\ d.answer = an /\ d.at = c.at /\ d.op = c.op
        /\ d.claimed = c.claimed
    BY <1>2, <2>4 DEF LoopType
  <2> QED
    BY <1>3, <2>2, <2>3, <2>5, <2>6, <2>7
<1>9. loop' = [loop EXCEPT ![r] = d]
  BY <1>1, <1>7 DEF ClaimRow
<1>10. FilesOf(j, filed[j], measured[j], traces[j])
  BY <1>3 DEF FilesOf, LedgerInv, RowsFiled, CallsHeld, ReadHeld, LeaseTyped
<1>11. RowFiled(row, filed[j], measured[j], traces[j]) /\ (filed[j] # <<>> <=> l.linked)
  BY <1>2, <1>5 DEF RowFiled
<1>12. CallSane(d) /\ (HasJob(d) => d.job = j /\ CallMatches(d, row, filed[j]))
  BY <1>2, <1>5, <1>8, <1>11 DEF CallSane, CallMatches, LoopType, HasJob, KnowsJob, Carries, IsReport
<1>13. /\ LedgerInv'
       /\ /\ FencedInv
          /\ j \notin mixed' =>
               /\ RowFenced(filed[j], measured[j], traces[j]) /\ NobodyElse(r, j, row)
               /\ HasJob(d) => CallFenced(d, row, filed[j])
          => FencedInv'
  <2>1. leased[j].state # "completed"
    BY <1>1, <1>3
  <2> QED
    BY <1>1, <1>3, <1>5, <1>6, <1>8, <1>9, <1>10, <1>11, <1>12, <2>1, JobAndCall
<1>14. ASSUME FencedInv
       PROVE  FencedInv'
  <2>1. j \notin mixed' => RowFenced(filed[j], measured[j], traces[j])
    BY <1>3, <1>14 DEF FencedInv, RowsFenced, CallsFenced, ReadIsFenced
  <2>2. NobodyElse(r, j, row)
    <3>1. ASSUME NEW s \in Loops, HasJob(loop[s]), loop[s].job = j
          PROVE  loop[s].attempt # row.attempt
      <4>1. loop[s].attempt \in Nat /\ loop[s].attempt <= l.attempt
        BY <1>1, <3>1 DEF LedgerInv, CallsHeld, CallMatches, LeaseTyped, LoopType
      <4> QED
        BY <1>2, <1>5, <4>1 DEF RowType
    <3> QED
      BY <3>1 DEF NobodyElse
  <2>3. CallFenced(d, row, filed[j])
    BY <1>8, <1>11 DEF CallFenced, KnowsJob, Carries, IsReport
  <2> QED
    BY <1>13, <1>14, <2>1, <2>2, <2>3
<1> QED
  BY <1>13, <1>14

\* What a report of a render files: the first row stays, its link is the newest.
ReportFiled(j, art, f, m, t) ==
  f = Upserted(filed[j], art) /\ m = AppendRender(measured[j], art.metrics) /\ t = AppendRender(traces[j], art.trace)
Filing(r, j, art, f, m, t) ==
  /\ f \in Seq(Renders) /\ m \in Seq(Nat) /\ t \in Seq(Nat)
  /\ Len(f) = 1 /\ f # <<>> /\ f[1].key # NoRender /\ f[1].link = art.link /\ Newest(m) # NoRender
  /\ filed[j] # <<>> => f[1].key = filed[j][1].key
  /\ /\ Fences(j) /\ leased[j].state = "running"
     /\ loop[r].claimed # NoArtifact \/ loop[r].attempt = leased[j].attempt
     => RowFenced(f, m, t) /\ f[1].key = art.key
LEMMA ReportFiles ==
  ASSUME LedgerInv, NEW r \in Loops, NEW c, c = loop[r], Carries(c), KnowsJob(c), NEW j, j = c.job, NEW art, art = c.art,
         NEW f, NEW m, NEW t, ReportFiled(j, art, f, m, t)
  PROVE  j \in LeaseJobs /\ Filing(r, j, art, f, m, t)
<1>1. /\ c \in LoopType /\ CallSane(c) /\ CallMatches(c, leased[j], filed[j])
      /\ Fences(j) => CallFenced(c, leased[j], filed[j])
  BY CallOf DEF HasJob
<1>2. j \in LeaseJobs /\ art \in Renders /\ art.key # NoRender /\ (c.claimed = NoArtifact => art.metrics # NoRender)
  BY <1>1 DEF CallSane, HasJob, LoopType
<1>3. /\ filed[j] \in Seq(Renders) /\ measured[j] \in Seq(Nat) /\ traces[j] \in Seq(Nat)
      /\ RowFiled(leased[j], filed[j], measured[j], traces[j])
  BY <1>2 DEF LedgerInv, RowsFiled, LeaseTyped
<1>4. /\ m \in Seq(Nat) /\ Newest(m) = IF art.metrics = NoRender THEN Newest(measured[j]) ELSE art.metrics
      /\ t \in Seq(Nat) /\ Newest(t) = IF art.trace = NoRender THEN Newest(traces[j]) ELSE art.trace
  <2>1. art.metrics \in Nat /\ art.trace \in Nat
    BY <1>2 DEF Renders
  <2> QED
    BY <1>3, <2>1, NewestOfAppend DEF ReportFiled
<1>5. CASE filed[j] = <<>>
  <2>1. PICK e : e = [art EXCEPT !.metrics = NoRender, !.trace = NoRender]
    OBVIOUS
  <2>2. e \in Renders /\ e.key = art.key /\ e.link = art.link
    BY <1>2, <2>1 DEF Renders, NoRender
  <2>3. f = <<e>>
    BY <1>5, <2>1 DEF ReportFiled, Upserted
  <2>4. f \in Seq(Renders) /\ Len(f) = 1 /\ f[1] = e /\ f # <<>>
    BY <2>2, <2>3
  <2>5. c.claimed = NoArtifact
    BY <1>1, <1>5 DEF CallMatches
  <2>6. Newest(m) = art.metrics /\ Newest(m) # NoRender /\ (Newest(t) = art.trace \/ Newest(t) = NoRender)
    BY <1>2, <1>3, <1>4, <1>5, <2>5 DEF RowFiled, Newest
  <2>7. ASSUME Fences(j)
        PROVE  RowFenced(f, m, t)
    <3>1. OneRender(art) /\ art.metrics = art.key
      BY <1>1, <2>5, <2>7 DEF CallFenced
    <3> QED
      BY <2>2, <2>4, <2>6, <3>1 DEF RowFenced, OneRender
  <2> QED
    BY <1>2, <1>4, <1>5, <2>2, <2>4, <2>6, <2>7 DEF Filing
<1>6. CASE filed[j] # <<>>
  <2>1. Len(filed[j]) = 1 /\ filed[j][1].key # NoRender /\ Newest(measured[j]) # NoRender
    BY <1>3, <1>6 DEF RowFiled
  <2>2. PICK e : e = [filed[j][1] EXCEPT !.link = art.link]
    OBVIOUS
  <2>3. filed[j][1] \in Renders
    BY <1>3, <2>1
  <2>4. e \in Renders /\ e.key = filed[j][1].key /\ e.link = art.link
    BY <1>2, <2>2, <2>3 DEF Renders
  <2>5. f = <<e>>
    BY <1>6, <2>2 DEF ReportFiled, Upserted
  <2>6. f \in Seq(Renders) /\ Len(f) = 1 /\ f[1] = e /\ f # <<>>
    BY <2>4, <2>5
  <2>7. Newest(m) # NoRender
    BY <1>4, <2>1
  <2>8. ASSUME Fences(j), leased[j].state = "running", c.claimed # NoArtifact \/ c.attempt = leased[j].attempt
        PROVE  RowFenced(f, m, t) /\ f[1].key = art.key
    <3>1. c.claimed # NoArtifact
      BY <1>1, <1>6, <2>8 DEF CallFenced
    <3>2. OneRender(art) /\ art.key = filed[j][1].key
      BY <1>1, <2>8, <3>1 DEF CallFenced
    <3>3. RowFenced(filed[j], measured[j], traces[j])
      BY <1>2, <2>8 DEF Fences, FencedInv, RowsFenced, CallsFenced, ReadIsFenced
    <3> QED
      BY <1>4, <1>6, <2>4, <2>6, <3>2, <3>3 DEF RowFenced, OneRender
  <2> QED
    BY <1>2, <1>4, <2>1, <2>4, <2>6, <2>7, <2>8 DEF Filing
<1> QED
  BY <1>5, <1>6

\* A report of a render that commits leaves the row rendered or completed.
LEMMA RenderReported ==
  ASSUME LedgerInv, NEW r \in Loops, NEW c, c = loop[r], Carries(c), KnowsJob(c), NEW j, j = c.job, NEW art, art = c.art,
         c.at = "call", c.stage = "sent", NEW row, RowOf(j, row), row.state \in {"completed", "rendered"}, row.linked,
         c.op \in {"complete", "rendered"}, row.state = "completed" <=> c.op = "complete",
         leased[j].state = "running", leased[j].holder = workerOf[r], row.attempt = leased[j].attempt,
         mixed' = IF IsMistaken(r) THEN mixed \cup {j} ELSE mixed,
         Persist(j, art), Answered(r, "ok"), shown' = shown
  PROVE  LedgerInv' /\ (FencedInv => FencedInv')
<1>1. /\ c \in LoopType /\ CallSane(c) /\ CallMatches(c, leased[j], filed[j])
      /\ Fences(j) => CallFenced(c, leased[j], filed[j])
  BY CallOf DEF HasJob
<1>2. PICK f, m, t : ReportFiled(j, art, f, m, t)
  BY DEF ReportFiled
<1>3. /\ j \in LeaseJobs /\ f \in Seq(Renders) /\ m \in Seq(Nat) /\ t \in Seq(Nat)
      /\ Len(f) = 1 /\ f # <<>> /\ f[1].key # NoRender /\ f[1].link = art.link /\ Newest(m) # NoRender
      /\ filed[j] # <<>> => f[1].key = filed[j][1].key
      /\ FencedInv /\ j \notin mixed' => RowFenced(f, m, t) /\ f[1].key = art.key
  <2>1. j \in LeaseJobs /\ Filing(r, j, art, f, m, t)
    BY <1>2, ReportFiles
  <2>2. j \notin mixed' => j \notin mixed /\ (c.claimed # NoArtifact \/ c.attempt = leased[j].attempt)
    BY DEF IsMistaken
  <2> QED
    BY <2>1, <2>2 DEF Filing, Fences
<1>4. filed' = [filed EXCEPT ![j] = f] /\ measured' = [measured EXCEPT ![j] = m] /\ traces' = [traces EXCEPT ![j] = t]
  BY <1>2 DEF ReportFiled, Persist
<1>5. FilesOf(j, f, m, t)
  BY <1>3, <1>4 DEF FilesOf
<1>6. PICK d : d = [c EXCEPT !.stage = "answered", !.answer = "ok"]
  OBVIOUS
<1>7. /\ d \in LoopType /\ loop' = [loop EXCEPT ![r] = d] /\ d.at = "call" /\ d.op = c.op /\ d.stage = "answered"
      /\ d.answer = "ok" /\ d.job = j /\ d.attempt = c.attempt /\ d.art = art /\ d.claimed = c.claimed
  <2>1. loop' = [loop EXCEPT ![r] = d]
    BY <1>6 DEF Answered
  <2> QED
    BY <1>1, <1>6, <2>1 DEF LoopType
<1>8. row.state = "completed" => art.link # NoRender
  BY <1>1 DEF CallSane
<1>9. RowFiled(row, f, m, t)
  BY <1>3, <1>8 DEF RowFiled
<1>10. CallSane(d)
  BY <1>1, <1>7 DEF CallSane, HasJob, KnowsJob, Carries, IsReport
<1>11. CallMatches(d, row, f)
  BY <1>1, <1>3, <1>7 DEF CallMatches
<1>12. /\ leased[j].state # "completed" /\ NobodyElse(r, j, row) /\ leased[j].attempt <= row.attempt
       /\ mixed \subseteq mixed' /\ mixed' \subseteq mixed \cup {j}
  <2>1. leased[j].attempt \in Nat
    BY <1>3 DEF LedgerInv, LeaseTyped, RowType
  <2> QED
    BY <2>1 DEF NobodyElse
<1>13. /\ LedgerInv'
       /\ /\ FencedInv
          /\ j \notin mixed' =>
               RowFenced(f, m, t) /\ NobodyElse(r, j, row) /\ (HasJob(d) => CallFenced(d, row, f))
          => FencedInv'
  BY <1>3, <1>5, <1>7, <1>9, <1>10, <1>11, <1>12, JobAndCall
<1>14. ASSUME FencedInv, j \notin mixed'
       PROVE  CallFenced(d, row, f)
  <2>1. c.claimed # NoArtifact => filed[j] # <<>>
    BY <1>1 DEF CallMatches
  <2> QED
    BY <1>1, <1>3, <1>7, <1>12, <1>14, <2>1 DEF CallFenced, Carries, KnowsJob, IsReport, Fences
<1> QED
  BY <1>3, <1>12, <1>13, <1>14

\* A reported failure closes the attempt and files nothing.
LEMMA FailureReported ==
  ASSUME LedgerInv, NEW r \in Loops, NEW c, c = loop[r], KnowsJob(c), NEW j, j = c.job, c.at = "call", c.op = "fail",
         leased[j].state = "running", Closes(j, AfterFailure(j)), UNCHANGED filedVars, Answered(r, "ok"), shown' = shown,
         mixed' = mixed
  PROVE  LedgerInv' /\ (FencedInv => FencedInv')
<1>1. /\ c \in LoopType /\ CallSane(c) /\ CallMatches(c, leased[j], filed[j])
      /\ Fences(j) => CallFenced(c, leased[j], filed[j])
  BY CallOf DEF HasJob
<1>2. j \in LeaseJobs
  BY <1>1 DEF CallSane, HasJob
<1>3. PICK row : /\ RowOf(j, row) /\ row.state \in {"pending", "failed"} /\ row.linked = leased[j].linked
                 /\ row.attempt = leased[j].attempt
  <2>1. AfterFailure(j) \in {"pending", "failed"}
    BY <1>2, FailureTells
  <2>2. PICK row \in RowType : /\ leased' = [leased EXCEPT ![j] = row] /\ row.state = AfterFailure(j)
                               /\ row.linked = leased[j].linked /\ row.attempt = leased[j].attempt
    BY <1>2, <2>1, ClosedRow
  <2> QED
    BY <2>1, <2>2 DEF RowOf
<1>4. PICK d : d = [c EXCEPT !.stage = "answered", !.answer = "ok"]
  OBVIOUS
<1>5. /\ d \in LoopType /\ loop' = [loop EXCEPT ![r] = d] /\ d.at = "call" /\ d.op = "fail" /\ d.stage = "answered"
      /\ d.answer = "ok" /\ d.job = j /\ d.attempt = c.attempt /\ d.claimed = c.claimed
  <2>1. loop' = [loop EXCEPT ![r] = d]
    BY <1>4 DEF Answered
  <2> QED
    BY <1>1, <1>4, <2>1 DEF LoopType
<1>6. PICK f, m, t : f = filed[j] /\ m = measured[j] /\ t = traces[j]
  OBVIOUS
<1>7. FilesOf(j, f, m, t) /\ RowFiled(leased[j], f, m, t) /\ (Fences(j) => RowFenced(f, m, t))
  <2>1. f \in Seq(Renders) /\ m \in Seq(Nat) /\ t \in Seq(Nat)
    BY <1>2, <1>6 DEF LedgerInv, LeaseTyped
  <2>2. filed' = [filed EXCEPT ![j] = f] /\ measured' = [measured EXCEPT ![j] = m] /\ traces' = [traces EXCEPT ![j] = t]
    BY <1>6 DEF filedVars, LedgerInv, RowsFiled, CallsHeld, ReadHeld, LeaseTyped
  <2>3. FilesOf(j, f, m, t)
    BY <1>6, <2>1, <2>2 DEF FilesOf
  <2> QED
    BY <1>2, <1>6, <2>3 DEF LedgerInv, RowsFiled, CallsHeld, ReadHeld,
                            Fences, FencedInv, RowsFenced, CallsFenced, ReadIsFenced
<1>8. RowFiled(row, f, m, t)
  BY <1>3, <1>7 DEF RowFiled
<1>9. CallSane(d) /\ CallMatches(d, row, f)
  BY <1>1, <1>3, <1>5, <1>6 DEF CallSane, CallMatches, HasJob, KnowsJob, Carries, IsReport
<1>10. leased[j].state # "completed" /\ NobodyElse(r, j, row) /\ leased[j].attempt <= row.attempt
  <2>1. leased[j].attempt \in Nat
    BY <1>2 DEF LedgerInv, LeaseTyped, RowType
  <2> QED
    BY <1>3, <2>1 DEF NobodyElse
<1>11. /\ LedgerInv'
       /\ /\ FencedInv
          /\ j \notin mixed' =>
               RowFenced(f, m, t) /\ NobodyElse(r, j, row) /\ (HasJob(d) => CallFenced(d, row, f))
          => FencedInv'
  BY <1>2, <1>3, <1>5, <1>7, <1>8, <1>9, <1>10, JobAndCall
<1>12. Fences(j) => CallFenced(d, row, f)
  BY <1>1, <1>3, <1>5, <1>6 DEF CallFenced, Carries, KnowsJob, IsReport
<1> QED
  BY <1>7, <1>10, <1>11, <1>12 DEF Fences

LEMMA ReportCommitsKeeps ==
  ASSUME LedgerInv, NEW r \in Loops, ReportCommits(r)
  PROVE  LedgerInv' /\ (FencedInv => FencedInv')
<1>1. PICK c, j, art : c = loop[r] /\ j = c.job /\ art = c.art
  OBVIOUS
<1>2. /\ c.at = "call" /\ IsReport(c.op) /\ c.stage = "sent" /\ leased[j].state = "running"
      /\ leased[j].holder = workerOf[r] /\ mixed' = (IF IsMistaken(r) THEN mixed \cup {j} ELSE mixed)
      /\ shown' = shown /\ Answered(r, "ok") /\ Transition(r, j) /\ KnowsJob(c)
  BY <1>1 DEF ReportCommits, ReportSent, OwnedBy, KnowsJob
<1>3. j \in LeaseJobs /\ leased[j] \in RowType
  BY <1>1, <1>2 DEF LedgerInv, CallsHeld, LeaseTyped, CallSane, HasJob
<1>4. PICK l : l = leased[j] /\ l \in RowType
  BY <1>3
<1>5. CASE c.op = "complete"
  <2>1. PICK row : row = [l EXCEPT !.state = "completed", !.linked = TRUE]
    OBVIOUS
  <2>2. row \in RowType /\ row.state = "completed" /\ row.linked /\ row.attempt = l.attempt
    BY <1>4, <2>1 DEF RowType
  <2>3. leased' = [leased EXCEPT ![j] = row] /\ Persist(j, art)
    BY <1>1, <1>2, <1>4, <1>5, <2>1 DEF Transition
  <2>4. RowOf(j, row) /\ Carries(c)
    BY <1>2, <1>5, <2>2, <2>3 DEF RowOf, Carries
  <2> QED
    BY <1>1, <1>2, <1>4, <1>5, <2>2, <2>3, <2>4, RenderReported
<1>6. CASE c.op = "rendered"
  <2>1. PICK row : row = [l EXCEPT !.state = "rendered", !.linked = TRUE, !.holder = Nobody, !.late = FALSE]
    OBVIOUS
  <2>2. row \in RowType /\ row.state = "rendered" /\ row.linked /\ row.attempt = l.attempt
    BY <1>4, <2>1, NobodyHolds DEF RowType
  <2>3. leased' = [leased EXCEPT ![j] = row] /\ Persist(j, art)
    BY <1>1, <1>2, <1>4, <1>6, <2>1 DEF Transition
  <2>4. RowOf(j, row) /\ Carries(c)
    BY <1>2, <1>6, <2>2, <2>3 DEF RowOf, Carries
  <2> QED
    BY <1>1, <1>2, <1>4, <1>6, <2>2, <2>3, <2>4, RenderReported
<1>7. CASE c.op = "fail"
  <2>1. Closes(j, AfterFailure(j)) /\ UNCHANGED filedVars
    BY <1>1, <1>2, <1>7 DEF Transition
  <2>2. mixed' = mixed
    BY <1>1, <1>2, <1>7 DEF IsMistaken
  <2> QED
    BY <1>1, <1>2, <1>7, <2>1, <2>2, FailureReported
<1> QED
  BY <1>2, <1>5, <1>6, <1>7 DEF IsReport

\* What a producer has read moves, and nothing else.
LEMMA ShownMoves ==
  ASSUME LedgerInv, NEW v \in ReadType, shown' = v, UNCHANGED <<leased, filed, measured, traces, loop, mixed>>,
         v.at # "row" => /\ v.job \in LeaseJobs /\ ReadSane(v, leased[v.job], filed[v.job])
                         /\ Fences(v.job) => ReadFenced(v, filed[v.job])
  PROVE  LedgerInv' /\ (FencedInv => FencedInv')
<1>1. LeaseTyped'
  BY DEF LedgerInv, LeaseTyped
<1>2. LedgerInv'
  <2>1. RowsFiled'
    BY <1>1 DEF LedgerInv, RowsFiled
  <2>2. CallsHeld'
    BY <1>1 DEF LedgerInv, CallsHeld
  <2>3. ReadHeld'
    BY <1>1 DEF LedgerInv, ReadHeld
  <2> QED
    BY <1>1, <2>1, <2>2, <2>3 DEF LedgerInv
<1>3. FencedInv => FencedInv'
  <2> SUFFICES ASSUME FencedInv
               PROVE  FencedInv'
    OBVIOUS
  <2>1. RowsFenced'
    BY DEF FencedInv, RowsFenced
  <2>2. CallsFenced'
    BY DEF FencedInv, CallsFenced
  <2>3. ReadIsFenced'
    BY DEF FencedInv, ReadIsFenced, Fences
  <2> QED
    BY <2>1, <2>2, <2>3 DEF FencedInv
<1> QED
  BY <1>2, <1>3

LEMMA GetRowKeeps ==
  ASSUME LedgerInv, NEW j \in LeaseJobs, GetRow(j)
  PROVE  LedgerInv' /\ (FencedInv => FencedInv')
<1>1. PICK v : v = [NothingShown EXCEPT !.at = "artifact", !.job = j, !.state = leased[j].state]
  OBVIOUS
<1>2. leased[j] \in RowType /\ RowFiled(leased[j], filed[j], measured[j], traces[j])
  BY DEF LedgerInv, RowsFiled, LeaseTyped
<1>3. v \in ReadType /\ v.at = "artifact" /\ v.job = j /\ v.state = leased[j].state
  BY <1>1, <1>2, NoArtifactIsRender DEF NothingShown, ReadType, RowType
<1>4. filed[j] # <<>>
  BY <1>2 DEF GetRow, RowFiled
<1>5. shown' = v /\ UNCHANGED <<leased, filed, measured, traces, loop, mixed>>
  BY <1>1 DEF GetRow, filedVars
<1>6. ReadSane(v, leased[v.job], filed[v.job]) /\ ReadFenced(v, filed[v.job])
  BY <1>3, <1>4 DEF ReadSane, ReadFenced
<1> QED
  BY <1>3, <1>5, <1>6, ShownMoves

LEMMA GetStoredKeeps ==
  ASSUME LedgerInv, GetStored
  PROVE  LedgerInv' /\ (FencedInv => FencedInv')
<1>1. PICK v, j : v = shown /\ j = shown.job
  OBVIOUS
<1>2. v \in ReadType /\ UNCHANGED <<leased, filed, measured, traces, loop, mixed>> /\ v.art \in Renders
  BY <1>1 DEF LedgerInv, LeaseTyped, GetStored, filedVars, ReadType
<1>3. ASSUME v.at # "row"
      PROVE  /\ j \in LeaseJobs /\ ReadSane(v, leased[j], filed[j]) /\ (Fences(j) => ReadFenced(v, filed[j]))
             /\ Newest(measured[j]) \in Nat /\ Newest(traces[j]) \in Nat /\ filed[j][1] \in Renders /\ filed[j] # <<>>
             /\ leased[j].state = "completed" => filed[j][1].link # NoRender
             /\ Newest(measured[j]) # NoRender
             /\ Fences(j) => RowFenced(filed[j], measured[j], traces[j])
  <2>1. j \in LeaseJobs /\ ReadSane(v, leased[j], filed[j]) /\ (Fences(j) => ReadFenced(v, filed[j]))
    BY <1>1, <1>3 DEF LedgerInv, RowsFiled, CallsHeld, ReadHeld, Fences, FencedInv, RowsFenced, CallsFenced, ReadIsFenced
  <2>2. /\ filed[j] \in Seq(Renders) /\ measured[j] \in Seq(Nat) /\ traces[j] \in Seq(Nat)
        /\ RowFiled(leased[j], filed[j], measured[j], traces[j])
    BY <2>1 DEF LedgerInv, RowsFiled, LeaseTyped
  <2>3. filed[j] # <<>>
    BY <2>1 DEF ReadSane
  <2>4. Newest(measured[j]) \in Nat /\ Newest(traces[j]) \in Nat
    BY <2>2 DEF Newest, NoRender
  <2>5. /\ Len(filed[j]) = 1 /\ (leased[j].state = "completed" => filed[j][1].link # NoRender)
        /\ Newest(measured[j]) # NoRender
    BY <2>2, <2>3 DEF RowFiled
  <2>6. filed[j][1] \in Renders
    BY <2>2, <2>5
  <2> QED
    BY <2>1, <2>3, <2>4, <2>5, <2>6 DEF Fences, FencedInv, RowsFenced, CallsFenced, ReadIsFenced
<1>4. CASE v.at = "artifact" /\ shown' = [shown EXCEPT !.at = "metrics", !.art = filed[shown.job][1]]
  <2>1. PICK e : e = filed[j][1] /\ e \in Renders
    BY <1>3, <1>4
  <2>2. PICK w : w = [v EXCEPT !.at = "metrics", !.art = e]
    OBVIOUS
  <2>3. w \in ReadType /\ w.at = "metrics" /\ w.job = j /\ w.state = v.state /\ w.art = e
    BY <1>1, <1>2, <2>1, <2>2 DEF ReadType
  <2>4. shown' = w
    BY <1>1, <1>4, <2>1, <2>2
  <2>5. ReadSane(w, leased[j], filed[j])
    BY <1>3, <1>4, <2>1, <2>3 DEF ReadSane
  <2>6. Fences(j) => ReadFenced(w, filed[j])
    BY <1>3, <1>4, <2>1, <2>3 DEF ReadFenced, RowFenced
  <2> QED
    BY <1>2, <1>3, <1>4, <2>3, <2>4, <2>5, <2>6, ShownMoves
<1>5. CASE v.at = "metrics" /\ shown' = [shown EXCEPT !.at = "trace", !.art.metrics = Newest(measured[shown.job])]
  <2>1. PICK n \in Nat : n = Newest(measured[j])
    BY <1>3, <1>5
  <2>2. PICK e : e = [v.art EXCEPT !.metrics = n]
    OBVIOUS
  <2>3. e \in Renders /\ e.key = v.art.key /\ e.link = v.art.link /\ e.metrics = n /\ e.trace = v.art.trace
    BY <1>2, <2>1, <2>2 DEF Renders
  <2>4. PICK w : w = [v EXCEPT !.at = "trace", !.art = e]
    OBVIOUS
  <2>5. w \in ReadType /\ w.at = "trace" /\ w.job = j /\ w.state = v.state /\ w.art = e
    BY <1>1, <1>2, <2>3, <2>4 DEF ReadType
  <2>6. shown' = w
    BY <1>1, <1>5, <2>1, <2>2, <2>4
  <2>7. ReadSane(w, leased[j], filed[j])
    BY <1>3, <1>5, <2>1, <2>3, <2>5 DEF ReadSane
  <2>8. Fences(j) => ReadFenced(w, filed[j])
    BY <1>3, <1>5, <2>1, <2>3, <2>5 DEF ReadFenced, RowFenced
  <2> QED
    BY <1>2, <1>3, <1>5, <2>5, <2>6, <2>7, <2>8, ShownMoves
<1>6. CASE v.at = "trace" /\ shown' = [shown EXCEPT !.at = "served", !.art.trace = Newest(traces[shown.job])]
  <2>1. PICK n \in Nat : n = Newest(traces[j])
    BY <1>3, <1>6
  <2>2. PICK e : e = [v.art EXCEPT !.trace = n]
    OBVIOUS
  <2>3. e \in Renders /\ e.key = v.art.key /\ e.link = v.art.link /\ e.trace = n /\ e.metrics = v.art.metrics
    BY <1>2, <2>1, <2>2 DEF Renders
  <2>4. PICK w : w = [v EXCEPT !.at = "served", !.art = e]
    OBVIOUS
  <2>5. w \in ReadType /\ w.at = "served" /\ w.job = j /\ w.state = v.state /\ w.art = e
    BY <1>1, <1>2, <2>3, <2>4 DEF ReadType
  <2>6. shown' = w
    BY <1>1, <1>6, <2>1, <2>2, <2>4
  <2>7. ReadSane(w, leased[j], filed[j])
    BY <1>3, <1>6, <2>1, <2>3, <2>5 DEF ReadSane
  <2>8. Fences(j) => ReadFenced(w, filed[j])
    BY <1>3, <1>6, <2>1, <2>3, <2>5 DEF ReadFenced, RowFenced
  <2> QED
    BY <1>2, <1>3, <1>6, <2>5, <2>6, <2>7, <2>8, ShownMoves
<1>7. CASE shown' = NothingShown
  <2>1. NothingShown \in ReadType /\ NothingShown.at = "row"
    BY NoArtifactIsRender DEF NothingShown, ReadType
  <2> QED
    BY <1>2, <1>7, <2>1, ShownMoves
<1> QED
  BY <1>1, <1>4, <1>5, <1>6, <1>7 DEF GetStored

\* A loop stays in its process.
LEMMA ProcessesStay ==
  ASSUME workerOf \in Processes, [LeaseNext]_leaseVars
  PROVE  workerOf' \in Processes
BY DEF LeaseNext, leaseVars, LoopStep, JobStep, StartClaim, ClaimRow, NothingToClaim, ReadArtifact, ReadArtifactFails,
       ConcludeClaim, OpenWorkspace, PrepareFails, FinishRender, RenderFails, PublishArtifact, PublishFails, RenewLease,
       RenewConflicts, ReportCommits, ReportConflicts, AnswerIsLost, ConcludeReport, WorkerDies, LeaseRunsOut,
       SweepExpired, CancelJob, GetRow, GetStored

LEMMA LedgerInvInit == LeaseInit => LedgerInv /\ FencedInv
<1> SUFFICES ASSUME LeaseInit
             PROVE  LedgerInv /\ FencedInv
  OBVIOUS
<1>1. NoArtifact \in Renders
  BY NoArtifactIsRender
<1>2. IdleLoop \in LoopType /\ CallSane(IdleLoop) /\ ~HasJob(IdleLoop)
  BY <1>1 DEF IdleLoop, LoopType, CallSane, HasJob, KnowsJob, Carries, IsReport
<1>3. NothingShown \in ReadType /\ NothingShown.at = "row"
  BY <1>1 DEF NothingShown, ReadType
<1>4. LeaseTyped
  BY <1>2, <1>3, NobodyHolds DEF LeaseInit, LeaseTyped, RowType
<1>5. \A r \in Loops : loop[r] = IdleLoop
  BY DEF LeaseInit
<1>6. \A j \in LeaseJobs : RowFiled(leased[j], filed[j], measured[j], traces[j]) /\ RowFenced(filed[j], measured[j], traces[j])
  BY DEF LeaseInit, RowFiled, RowFenced
<1>7. shown = NothingShown
  BY DEF LeaseInit
<1> QED
  BY <1>2, <1>3, <1>4, <1>5, <1>6, <1>7 DEF LedgerInv, RowsFiled, CallsHeld, ReadHeld,
                                            FencedInv, RowsFenced, CallsFenced, ReadIsFenced

LEMMA LedgerStep ==
  ASSUME LedgerInv, workerOf \in Processes, [LeaseNext]_leaseVars
  PROVE  LedgerInv' /\ (FencedInv => FencedInv')
<1>1. CASE UNCHANGED leaseVars
  <2>1. UNCHANGED <<leased, filed, measured, traces, loop, mixed>> /\ shown' = shown
    BY <1>1 DEF leaseVars
  <2>2. shown \in ReadType /\ (shown.at # "row" => /\ shown.job \in LeaseJobs
                                                   /\ ReadSane(shown, leased[shown.job], filed[shown.job])
                                                   /\ Fences(shown.job) => ReadFenced(shown, filed[shown.job]))
    BY DEF LedgerInv, ReadHeld, LeaseTyped, Fences, FencedInv, RowsFenced, CallsFenced, ReadIsFenced
  <2> QED
    BY <2>1, <2>2, ShownMoves
<1>2. ASSUME NEW r \in Loops, LoopStep(r)
      PROVE  LedgerInv' /\ (FencedInv => FencedInv')
  <2>1. CASE StartClaim(r) \/ NothingToClaim(r) \/ ReadArtifactFails(r) \/ ReadArtifact(r) \/ ConcludeClaim(r)
    <3>1. PICK c \in LoopType : CallGoes(r, c)
      BY <2>1, ClaimCalls
    <3>2. UNCHANGED <<leased, filed, measured, traces, shown, mixed>>
      BY <2>1 DEF StartClaim, NothingToClaim, ReadArtifactFails, ReadArtifact, ConcludeClaim, filedVars
    <3> QED
      BY <3>1, <3>2, CallGoesKeeps
  <2>2. CASE \/ OpenWorkspace(r) \/ PrepareFails(r) \/ FinishRender(r) \/ RenderFails(r)
             \/ PublishArtifact(r) \/ PublishFails(r) \/ RenewConflicts(r)
    <3>1. PICK c \in LoopType : CallGoes(r, c)
      BY <2>2, WorkCalls
    <3>2. UNCHANGED <<leased, filed, measured, traces, shown, mixed>>
      BY <2>2 DEF OpenWorkspace, PrepareFails, FinishRender, RenderFails, PublishArtifact, PublishFails, RenewConflicts,
                  filedVars
    <3> QED
      BY <3>1, <3>2, CallGoesKeeps
  <2>3. CASE ReportConflicts(r) \/ AnswerIsLost(r) \/ ConcludeReport(r)
    <3>1. PICK c \in LoopType : CallGoes(r, c)
      BY <2>3, ReportCalls
    <3>2. UNCHANGED <<leased, filed, measured, traces, shown, mixed>>
      BY <2>3 DEF ReportConflicts, AnswerIsLost, ConcludeReport, filedVars
    <3> QED
      BY <3>1, <3>2, CallGoesKeeps
  <2>4. CASE \E j \in LeaseJobs : ClaimRow(r, j)
    BY <2>4, ClaimRowKeeps
  <2>5. CASE RenewLease(r)
    BY <2>5, RowStepsKeep
  <2>6. CASE ReportCommits(r)
    BY <2>6, ReportCommitsKeeps
  <2> QED
    BY <1>2, <2>1, <2>2, <2>3, <2>4, <2>5, <2>6 DEF LoopStep
<1>3. ASSUME NEW w, WorkerDies(w)
      PROVE  LedgerInv' /\ (FencedInv => FencedInv')
  BY <1>3, WorkerDiesKeeps
<1>4. ASSUME NEW j \in LeaseJobs, JobStep(j)
      PROVE  LedgerInv' /\ (FencedInv => FencedInv')
  <2>1. CASE LeaseRunsOut(j) \/ SweepExpired(j) \/ CancelJob(j)
    BY <2>1, RowStepsKeep
  <2>2. CASE GetRow(j)
    BY <2>2, GetRowKeeps
  <2> QED
    BY <1>4, <2>1, <2>2 DEF JobStep
<1>5. CASE GetStored
  BY <1>5, GetStoredKeeps
<1> QED
  BY <1>1, <1>2, <1>3, <1>4, <1>5 DEF LeaseNext

\* Every event is recorded with the row it tells of.
IsTold(j) == \E e \in EventType : RowMoves(j, e) /\ \A k \in LeaseJobs : k # j => leased'[k] = leased[k]
LEMMA ClaimIsTold ==
  ASSUME LedgerInv, NEW r \in Loops, NEW j \in LeaseJobs, ClaimRow(r, j)
  PROVE  IsTold(j)
<1>1. PICK n \in Nat : n = leased[j].attempt
  BY DEF LedgerInv, LeaseTyped, RowType
<1>2. PICK e : e = [type |-> "job_claimed", attempt |-> n + 1]
  OBVIOUS
<1>3. e \in EventType
  BY <1>2 DEF EventType
<1>4. PICK row : row = [leased[j] EXCEPT !.state = "running", !.holder = workerOf[r], !.attempt = n + 1, !.late = FALSE]
  OBVIOUS
<1>5. leased[j] \in RowType
  BY DEF LedgerInv, LeaseTyped
<1>6. row.state = "running" /\ row.attempt = n + 1
  BY <1>4, <1>5 DEF RowType
<1>7. leased' = [leased EXCEPT ![j] = row] /\ happened' = [happened EXCEPT ![j] = Append(@, e)]
  BY <1>1, <1>2, <1>4 DEF ClaimRow, Happens
<1>8. leased'[j] = row /\ \A k \in LeaseJobs : k # j => leased'[k] = leased[k]
  BY <1>7 DEF LedgerInv, LeaseTyped
<1>9. leased[j].state \in {"pending", "rendered"}
  BY DEF ClaimRow, Claimable
<1> QED
  BY <1>1, <1>2, <1>3, <1>6, <1>7, <1>8, <1>9 DEF RowMoves, IsTold

LEMMA EndIsTold ==
  ASSUME LedgerInv, NEW j \in LeaseJobs, NEW row, RowOf(j, row),
         row.attempt = leased[j].attempt, leased[j].state = "running", NEW type \in DOMAIN Says, type # "job_claimed",
         row.state = Says[type], Happens(j, type, leased[j].attempt)
  PROVE  IsTold(j)
<1>1. PICK n \in Nat : n = leased[j].attempt
  BY DEF LedgerInv, LeaseTyped, RowType
<1>2. PICK e : e = [type |-> type, attempt |-> n]
  OBVIOUS
<1>3. e \in EventType /\ e.type = type /\ e.attempt = n
  BY <1>2 DEF EventType, Says
<1>4. happened' = [happened EXCEPT ![j] = Append(@, e)]
  BY <1>1, <1>2 DEF Happens
<1>5. leased'[j] = row /\ \A k \in LeaseJobs : k # j => leased'[k] = leased[k]
  BY DEF LedgerInv, LeaseTyped, RowOf
<1> QED
  BY <1>1, <1>3, <1>4, <1>5 DEF RowMoves, IsTold

LEMMA FailureIsTold ==
  ASSUME LedgerInv, NEW j \in LeaseJobs, leased[j].state = "running", Closes(j, AfterFailure(j)),
         Happens(j, FailureEvent(j), leased[j].attempt)
  PROVE  IsTold(j)
<1>1. PICK type, to : type = FailureEvent(j) /\ to = AfterFailure(j)
  OBVIOUS
<1>2. type \in DOMAIN Says /\ type # "job_claimed" /\ Says[type] = to /\ to \in {"failed", "pending"}
  BY <1>1, FailureTells DEF Says
<1>3. PICK row \in RowType : /\ leased' = [leased EXCEPT ![j] = row] /\ row.state = to
                             /\ row.attempt = leased[j].attempt
  BY <1>1, <1>2, ClosedRow
<1> QED
  BY <1>1, <1>2, <1>3, EndIsTold DEF RowOf

LEMMA CancelIsTold ==
  ASSUME LedgerInv, NEW j \in LeaseJobs, CancelJob(j)
  PROVE  IsTold(j)
<1>1. PICK row \in RowType : /\ leased' = [leased EXCEPT ![j] = row] /\ row.state = "cancelled"
                             /\ row.attempt = leased[j].attempt
  BY ClosedRow DEF CancelJob
<1>2. CASE leased[j].state = "running"
  <2>1. "job_cancelled" \in DOMAIN Says /\ Says["job_cancelled"] = "cancelled"
    BY DEF Says
  <2>2. Happens(j, "job_cancelled", leased[j].attempt)
    BY <1>2 DEF CancelJob
  <2> QED
    BY <1>1, <1>2, <2>1, <2>2, EndIsTold DEF RowOf
<1>3. CASE leased[j].state # "running"
  <2>1. PICK e : e = [type |-> "job_cancelled", attempt |-> 0]
    OBVIOUS
  <2>2. e \in EventType
    BY <2>1 DEF EventType
  <2>3. happened' = [happened EXCEPT ![j] = Append(@, e)] /\ leased[j].state \in {"pending", "rendered"}
    BY <1>3, <2>1 DEF CancelJob, Happens
  <2>4. leased'[j] = row /\ \A k \in LeaseJobs : k # j => leased'[k] = leased[k]
    BY <1>1 DEF LedgerInv, LeaseTyped
  <2> QED
    BY <1>1, <2>1, <2>2, <2>3, <2>4 DEF RowMoves, IsTold
<1> QED
  BY <1>2, <1>3

LEMMA ReportIsTold ==
  ASSUME LedgerInv, NEW r \in Loops, ReportCommits(r), NEW j, j = loop[r].job
  PROVE  /\ j \in LeaseJobs
         /\ IsTold(j)
<1>1. /\ leased[j].state = "running" /\ Transition(r, j)
      /\ loop[r].at = "call" /\ IsReport(loop[r].op)
  BY DEF ReportCommits, ReportSent, OwnedBy
<1>2. PICK l : l = leased[j] /\ l \in RowType /\ j \in LeaseJobs
  BY <1>1 DEF LedgerInv, CallsHeld, LeaseTyped, CallSane, HasJob, KnowsJob
<1>3. CASE loop[r].op = "complete"
  <2>1. PICK row : row = [l EXCEPT !.state = "completed", !.linked = TRUE]
    OBVIOUS
  <2>2. row \in RowType /\ row.state = "completed" /\ row.attempt = l.attempt
    BY <1>2, <2>1 DEF RowType
  <2>3. leased' = [leased EXCEPT ![j] = row] /\ Happens(j, "job_completed", leased[j].attempt)
    BY <1>1, <1>2, <1>3, <2>1 DEF Transition
  <2>4. "job_completed" \in DOMAIN Says /\ Says["job_completed"] = "completed"
    BY DEF Says
  <2>5. RowOf(j, row)
    BY <2>2, <2>3 DEF RowOf
  <2> QED
    BY <1>1, <1>2, <2>2, <2>3, <2>4, <2>5, EndIsTold
<1>4. CASE loop[r].op = "rendered"
  <2>1. PICK row : row = [l EXCEPT !.state = "rendered", !.linked = TRUE, !.holder = Nobody, !.late = FALSE]
    OBVIOUS
  <2>2. row \in RowType /\ row.state = "rendered" /\ row.attempt = l.attempt
    BY <1>2, <2>1, NobodyHolds DEF RowType
  <2>3. leased' = [leased EXCEPT ![j] = row] /\ Happens(j, "job_rendered", leased[j].attempt)
    BY <1>1, <1>2, <1>4, <2>1 DEF Transition
  <2>4. "job_rendered" \in DOMAIN Says /\ Says["job_rendered"] = "rendered"
    BY DEF Says
  <2>5. RowOf(j, row)
    BY <2>2, <2>3 DEF RowOf
  <2> QED
    BY <1>1, <1>2, <2>2, <2>3, <2>4, <2>5, EndIsTold
<1>5. ASSUME Closes(j, AfterFailure(j)), Happens(j, FailureEvent(j), leased[j].attempt)
      PROVE  IsTold(j)
  BY <1>1, <1>2, <1>5, FailureIsTold
<1> QED
  BY <1>1, <1>2, <1>3, <1>4, <1>5 DEF Transition

LEMMA EventsStep ==
  ASSUME EventsInv, LedgerInv, workerOf \in Processes, [LeaseNext]_leaseVars
  PROVE  EventsInv'
<1>1. LeaseTyped /\ leased' \in [LeaseJobs -> RowType]
  BY LedgerStep DEF LedgerInv, LeaseTyped
<1>2. ASSUME NEW j \in LeaseJobs, NEW e \in EventType, RowMoves(j, e), \A k \in LeaseJobs : k # j => leased'[k] = leased[k]
      PROVE  EventsInv'
  <2>1. PICK n, over : n = leased[j].attempt /\ over = AttemptsOver(j)
    OBVIOUS
  <2> QED
    BY <1>1, <1>2, <2>1, EventsAfterMove
<1>3. ASSUME happened' = happened, leased' = leased
      PROVE  EventsInv'
  BY <1>3, EventsStay
<1>4. ASSUME NEW j \in LeaseJobs, NEW b \in BOOLEAN, happened' = happened, leased' = [leased EXCEPT ![j].late = b]
      PROVE  EventsInv'
  <2>1. \A k \in LeaseJobs : leased'[k].state = leased[k].state /\ leased'[k].attempt = leased[k].attempt
    BY <1>1, <1>4 DEF LeaseTyped, RowType
  <2> QED
    BY <1>4, <2>1, EventsStay
<1>5. CASE UNCHANGED leaseVars
  BY <1>3, <1>5 DEF leaseVars
<1>6. ASSUME NEW r \in Loops, LoopStep(r)
      PROVE  EventsInv'
  <2>1. CASE \/ StartClaim(r) \/ NothingToClaim(r) \/ ReadArtifactFails(r) \/ ReadArtifact(r) \/ ConcludeClaim(r)
             \/ OpenWorkspace(r) \/ PrepareFails(r) \/ FinishRender(r) \/ RenderFails(r)
             \/ PublishArtifact(r) \/ PublishFails(r) \/ RenewConflicts(r)
             \/ ReportConflicts(r) \/ AnswerIsLost(r) \/ ConcludeReport(r)
    BY <1>3, <2>1 DEF StartClaim, NothingToClaim, ReadArtifactFails, ReadArtifact, ConcludeClaim, OpenWorkspace,
                      PrepareFails, FinishRender, RenderFails, PublishArtifact, PublishFails, RenewConflicts,
                      ReportConflicts, AnswerIsLost, ConcludeReport
  <2>2. CASE \E j \in LeaseJobs : ClaimRow(r, j)
    BY <1>2, <2>2, ClaimIsTold DEF IsTold
  <2>3. CASE RenewLease(r)
    <3>1. loop[r].job \in LeaseJobs
      BY <2>3 DEF RenewLease, Working, LedgerInv, RowsFiled, CallsHeld, ReadHeld, CallSane, HasJob, KnowsJob
    <3> QED
      BY <1>4, <2>3, <3>1 DEF RenewLease
  <2>4. CASE ReportCommits(r)
    <3>1. PICK j : j = loop[r].job
      OBVIOUS
    <3>2. j \in LeaseJobs /\ IsTold(j)
      BY <2>4, <3>1, ReportIsTold
    <3> QED
      BY <1>2, <3>2 DEF IsTold
  <2> QED
    BY <1>6, <2>1, <2>2, <2>3, <2>4 DEF LoopStep
<1>7. ASSUME NEW w, WorkerDies(w)
      PROVE  EventsInv'
  BY <1>3, <1>7 DEF WorkerDies
<1>8. ASSUME NEW j \in LeaseJobs, JobStep(j)
      PROVE  EventsInv'
  <2>1. CASE LeaseRunsOut(j)
    BY <1>4, <2>1 DEF LeaseRunsOut
  <2>2. CASE SweepExpired(j)
    <3>1. IsTold(j)
      BY <2>2, FailureIsTold DEF SweepExpired
    <3> QED
      BY <1>2, <3>1 DEF IsTold
  <2>3. CASE CancelJob(j)
    BY <1>2, <2>3, CancelIsTold DEF IsTold
  <2>4. CASE GetRow(j)
    BY <1>3, <2>4 DEF GetRow
  <2> QED
    BY <1>8, <2>1, <2>2, <2>3, <2>4 DEF JobStep
<1>9. CASE GetStored
  BY <1>3, <1>9 DEF GetStored
<1> QED
  BY <1>5, <1>6, <1>7, <1>8, <1>9 DEF LeaseNext

\* What is stored of a job, once something is filed.
LEMMA StoredOf ==
  ASSUME LedgerInv, NEW j \in LeaseJobs, filed[j] # <<>>, NEW kept, kept = StoredArtifact(j)
  PROVE  /\ kept.key = filed[j][1].key /\ kept.link = filed[j][1].link
         /\ kept.metrics = Newest(measured[j]) /\ kept.trace = Newest(traces[j])
<1>1. filed[j] \in Seq(Renders) /\ Len(filed[j]) = 1
  BY DEF LedgerInv, RowsFiled, LeaseTyped, RowFiled
<1>2. PICK e \in Renders : e = filed[j][1]
  BY <1>1
<1>3. PICK m, t : m = Newest(measured[j]) /\ t = Newest(traces[j])
  OBVIOUS
<1>4. kept = [e EXCEPT !.metrics = m, !.trace = t]
  BY <1>2, <1>3 DEF StoredArtifact
<1>5. kept.key = e.key /\ kept.link = e.link /\ kept.metrics = m /\ kept.trace = t
  BY <1>2, <1>4 DEF Renders
<1> QED
  BY <1>2, <1>3, <1>5

\* A completed job is published and measured, for whoever reads it.
LEMMA CompletedFromInv == LedgerInv => CompletedIsPublished
<1> SUFFICES ASSUME LedgerInv
             PROVE  CompletedIsPublished
  OBVIOUS
<1>1. ASSUME NEW j \in LeaseJobs, leased[j].state = "completed"
      PROVE  /\ leased[j].linked /\ filed[j] # <<>>
             /\ StoredArtifact(j).link # NoRender /\ StoredArtifact(j).metrics # NoRender
  <2>1. RowFiled(leased[j], filed[j], measured[j], traces[j])
    BY DEF LedgerInv, RowsFiled, CallsHeld, ReadHeld
  <2>2. filed[j] # <<>> /\ leased[j].linked /\ filed[j][1].link # NoRender /\ Newest(measured[j]) # NoRender
    BY <1>1, <2>1 DEF RowFiled
  <2> QED
    BY <2>2, StoredOf
<1>2. shown.at = "served" /\ shown.state = "completed" => shown.art.link # NoRender /\ shown.art.metrics # NoRender
  BY DEF LedgerInv, RowsFiled, CallsHeld, ReadHeld, ReadSane
<1> QED
  BY <1>1, <1>2 DEF CompletedIsPublished

\* What is filed of a job, and what is read of it, is of one render.
LEMMA OneRenderFromInv == LedgerInv /\ FencedInv => LedgerIsOneRender
<1> SUFFICES ASSUME LedgerInv, FencedInv
             PROVE  LedgerIsOneRender
  OBVIOUS
<1>1. ASSUME NEW j \in LeaseJobs \ mixed, filed[j] # <<>>
      PROVE  OneRender(StoredArtifact(j))
  <2>1. RowFenced(filed[j], measured[j], traces[j])
    BY DEF FencedInv, RowsFenced, CallsFenced, ReadIsFenced
  <2> QED
    BY <1>1, <2>1, StoredOf DEF RowFenced, OneRender
<1>2. shown.at = "served" /\ shown.job \notin mixed => OneRender(shown.art)
  BY DEF FencedInv, RowsFenced, CallsFenced, ReadIsFenced, ReadFenced, OneRender
<1> QED
  BY <1>1, <1>2 DEF LedgerIsOneRender

\* A completion a worker was told is accepted is the one its job serves.
LEMMA AcceptedFromInv == LedgerInv /\ FencedInv => AcceptedIsServed
<1> SUFFICES ASSUME LedgerInv, FencedInv, NEW r \in Loops, loop[r].op = "complete", loop[r].answer = "ok",
                    loop[r].job \notin mixed
             PROVE  /\ leased[loop[r].job].state = "completed"
                    /\ StoredArtifact(loop[r].job).key = loop[r].art.key
  BY DEF AcceptedIsServed
<1>1. PICK c, j : c = loop[r] /\ j = c.job
  OBVIOUS
<1>2. CallSane(c) /\ c.at = "call" /\ HasJob(c)
  BY <1>1 DEF LedgerInv, RowsFiled, CallsHeld, ReadHeld, CallSane, HasJob, KnowsJob, IsReport
<1>3. j \in LeaseJobs /\ CallMatches(c, leased[j], filed[j]) /\ CallFenced(c, leased[j], filed[j])
  BY <1>1, <1>2 DEF LedgerInv, RowsFiled, CallsHeld, ReadHeld,
                    FencedInv, RowsFenced, CallsFenced, ReadIsFenced, CallSane
<1>4. leased[j].state = "completed" /\ filed[j] # <<>> /\ filed[j][1].key = c.art.key
  BY <1>1, <1>3 DEF CallMatches, CallFenced
<1> QED
  BY <1>1, <1>3, <1>4, StoredOf

LEMMA EventsFromInv == EventsInv => EventsTellTheRow
BY DEF EventsInv, EventsTellTheRow

-----------------------------------------------------------------------------
(* The theorems *)

\* What a producer is told is true: through replays, lost answers and submissions of one
\* batch at the same time, a job that counts as submitted is stored, once.
THEOREM SubmissionCorrect == ApiSpec => []SubmissionIsHonest
<1> QED
  BY ApiInvInit, ApiStep, ApiTells, PTL DEF ApiSpec

\* The events of a job tell its row, whichever calls failed, lost their answer or came after
\* the lease, and a completed job is published and measured.
THEOREM EventsCorrect == LeaseSpec => [](EventsTellTheRow /\ CompletedIsPublished)
<1>1. LeaseInit => EventsInv /\ LedgerInv /\ workerOf \in Processes
  BY EventsInvInit, LedgerInvInit DEF LeaseInit
<1>2. EventsInv /\ LedgerInv /\ workerOf \in Processes /\ [LeaseNext]_leaseVars =>
        (EventsInv /\ LedgerInv /\ workerOf \in Processes)'
  BY EventsStep, LedgerStep, ProcessesStay
<1>3. EventsInv /\ LedgerInv => EventsTellTheRow /\ CompletedIsPublished
  BY EventsFromInv, CompletedFromInv
<1> QED
  BY <1>1, <1>2, <1>3, PTL DEF LeaseSpec

\* However the loops are spread over worker processes, the reports of all attempts leave one
\* story of a job: one render, published when completed, the one the worker was told of, and
\* its events; but for the jobs that took a render of an attempt that was over.
THEOREM LedgerSoundCorrect == LeaseSpec => []LedgerIsSound
<1>1. LeaseInit => EventsInv /\ LedgerInv /\ FencedInv /\ workerOf \in Processes
  BY EventsInvInit, LedgerInvInit DEF LeaseInit
<1>2. EventsInv /\ LedgerInv /\ FencedInv /\ workerOf \in Processes /\ [LeaseNext]_leaseVars =>
        (EventsInv /\ LedgerInv /\ FencedInv /\ workerOf \in Processes)'
  BY EventsStep, LedgerStep, ProcessesStay
<1>3. EventsInv /\ LedgerInv /\ FencedInv => LedgerIsSound
  BY EventsFromInv, CompletedFromInv, OneRenderFromInv, AcceptedFromInv DEF LedgerIsSound
<1> QED
  BY <1>1, <1>2, <1>3, PTL DEF LeaseSpec
================================================================================
