--------------------------- MODULE JobQueueProofs ---------------------------
(***************************************************************************)
(* Proofs about JobQueue.  The argument is row by row: RowInv(j) relates   *)
(* the columns of one job to its attempt rows, every operation touches the *)
(* rows it names and leaves the others as they are, and RowInv is what     *)
(* makes AttemptLedgerAgrees, LeaseHasHolder, NoRenderAfterDurable,        *)
(* RetryBudgetHolds, CancelIsFinal, AttemptsAppendOnly and                 *)
(* LiveLeaseIsExclusive provable.                                          *)
(***************************************************************************)
EXTENDS JobQueue, TLAPS

-----------------------------------------------------------------------------
(* The inductive invariant, for one job *)

(* attempt rows are numbered 1..attempt_count and only the last may run *)
RowLedger(j) ==
  /\ Len(attempts[j]) = attemptCount[j]
  /\ \A n \in 1..Len(attempts[j]) :
       attempts[j][n].status = "running" =>
         n = Len(attempts[j]) /\ state[j] \in HeldStates
  /\ state[j] = "running" =>
       /\ attemptCount[j] > 0
       /\ attempts[j][attemptCount[j]].status = "running"
       /\ attempts[j][attemptCount[j]].worker = currentWorker[j]

RowLease(j) ==
  /\ state[j] \in HeldStates =>
       currentWorker[j] \in Workers /\ lease[j] # "none"
  /\ state[j] \notin HeldStates \cup {"completed"} =>
       currentWorker[j] = None /\ lease[j] = "none"

(* an attempt that ended as rendered left its artifact in the row *)
RowArtifact(j) ==
  /\ \A n \in 1..Len(attempts[j]) :
       attempts[j][n].status = "rendered" => artifact[j]
  /\ \A n, m \in 1..Len(attempts[j]) :
       attempts[j][n].status = "rendered" /\ n < m => attempts[j][m].handed

LostAttempt(j, n) ==
  /\ MaxAttempts > 0 /\ n >= MaxAttempts
  /\ attempts[j][n].status \in {"failed", "lease_expired"}

(* a job whose last attempt used up the budget waits only after a Retry *)
RowBudget(j) ==
  /\ \A n \in 1..Len(attempts[j]) :
       LostAttempt(j, n) /\ n < Len(attempts[j]) => attempts[j][n + 1].afterRetry
  /\ Len(attempts[j]) > 0 /\ LostAttempt(j, Len(attempts[j])) =>
       state[j] \in TerminalStates \/ retried[j]

(* a corrupt job is never held, and a cancelled one leaves only if corrupt *)
RowCancel(j) ==
  /\ j \in Corrupt => state[j] \in {"absent", "pending", "failed", "cancelled"}
  /\ j \in everCancelled => state[j] = "cancelled" \/ j \in Corrupt

RowInv(j) ==
  /\ RowLedger(j)
  /\ RowLease(j)
  /\ RowArtifact(j)
  /\ RowBudget(j)
  /\ RowCancel(j)

IInv == TypeOK /\ \A j \in Jobs : RowInv(j)

-----------------------------------------------------------------------------
(* Lemmas about the attempt rows *)

(* Closing the running attempt of a job whose ledger agrees changes the      *)
(* status of that row and nothing else (finishAttempt).                      *)
LEMMA FinishedFacts ==
  ASSUME NEW j \in Jobs, TypeOK, RowLedger(j), NEW st \in AttemptStatuses
  PROVE  LET F == FinishedAttempts(j, st)
         IN  /\ F \in Seq(AttemptRow)
             /\ Len(F) = Len(attempts[j])
             /\ \A n \in 1..Len(attempts[j]) :
                  /\ F[n].worker = attempts[j][n].worker
                  /\ F[n].handed = attempts[j][n].handed
                  /\ F[n].afterRetry = attempts[j][n].afterRetry
                  /\ attempts[j][n].status = "running" => F[n].status = st
                  /\ attempts[j][n].status # "running" => F[n] = attempts[j][n]
<1> DEFINE A == attempts[j]
           F == FinishedAttempts(j, st)
<1>1. A \in Seq(AttemptRow) /\ Len(A) \in Nat
  BY DEF TypeOK
<1>2. \A n \in 1..Len(A) : A[n] \in AttemptRow
  BY <1>1
<1>3. \A n \in 1..Len(A) : A[n].status = "running" => IsRunningAttempt(j, n)
  BY <1>1 DEF RowLedger, IsRunningAttempt
<1>4. \A n \in 1..Len(A) : F[n] = IF IsRunningAttempt(j, n)
                                  THEN [A[n] EXCEPT !.status = st] ELSE A[n]
  BY DEF FinishedAttempts
<1>5. \A n \in 1..Len(A) : IsRunningAttempt(j, n) => A[n].status = "running"
  BY DEF IsRunningAttempt
<1>6. ASSUME NEW n \in 1..Len(A)
      PROVE  /\ F[n] \in AttemptRow
             /\ F[n].worker = A[n].worker
             /\ F[n].handed = A[n].handed
             /\ F[n].afterRetry = A[n].afterRetry
             /\ A[n].status = "running" => F[n].status = st
             /\ A[n].status # "running" => F[n] = A[n]
  <2>1. A[n] \in AttemptRow
    BY <1>2, <1>6
  <2>2. CASE A[n].status = "running"
    <3>1. F[n] = [A[n] EXCEPT !.status = st]
      BY <1>3, <1>4, <1>6, <2>2
    <3>2. QED
      BY <2>1, <2>2, <3>1 DEF AttemptRow
  <2>3. CASE A[n].status # "running"
    BY <1>4, <1>5, <1>6, <2>1, <2>3
  <2>4. QED
    BY <2>2, <2>3
<1>7. F \in Seq(AttemptRow) /\ Len(F) = Len(A)
  <2>1. F = [n \in 1..Len(A) |-> F[n]]
    BY DEF FinishedAttempts
  <2> HIDE DEF F
  <2>2. F \in [1..Len(A) -> AttemptRow]
    BY <2>1, <1>6
  <2>3. QED
    BY <1>1, <2>2
<1>8. QED
  BY <1>6, <1>7

(* A claim appends one running row, numbered attempt_count + 1, and keeps    *)
(* the rows before it (createAttempt).                                       *)
LEMMA CreatedFacts ==
  ASSUME NEW j \in Jobs, NEW w \in Workers, TypeOK, RowLedger(j)
  PROVE  LET C == CreatedAttempts(j, w)
             N == attemptCount[j] + 1
         IN  /\ AttemptNumber(j) = N
             /\ C \in Seq(AttemptRow)
             /\ Len(C) = N
             /\ \A n \in 1..Len(attempts[j]) : C[n] = attempts[j][n]
             /\ C[N] = [worker |-> w, status |-> "running",
                        handed |-> artifact[j], afterRetry |-> retried[j]]
<1> DEFINE A == attempts[j]
           C == CreatedAttempts(j, w)
           N == attemptCount[j] + 1
           row == [worker |-> w, status |-> "running",
                   handed |-> artifact[j], afterRetry |-> retried[j]]
<1>1. A \in Seq(AttemptRow) /\ Len(A) = attemptCount[j] /\ attemptCount[j] \in Nat
  BY DEF TypeOK, RowLedger
<1>2. AttemptNumber(j) = N
  BY <1>1 DEF AttemptNumber
<1>3. C = [n \in 1..N |-> IF n = N THEN row ELSE A[n]]
  BY <1>2 DEF CreatedAttempts, HandsOver
<1>4. row \in AttemptRow
  BY DEF AttemptRow, AttemptStatuses, TypeOK
<1>5. \A n \in 1..N : n # N => n \in 1..Len(A)
  BY <1>1
<1>6. \A n \in 1..Len(A) : A[n] \in AttemptRow
  BY <1>1
<1> HIDE DEF row
<1>7. C \in [1..N -> AttemptRow]
  BY <1>3, <1>4, <1>5, <1>6
<1>8. C \in Seq(AttemptRow) /\ Len(C) = N
  <2> HIDE DEF C
  <2>1. N \in Nat
    BY <1>1
  <2>2. QED
    BY <1>7, <2>1
<1>9. C[N] = row /\ \A n \in 1..Len(A) : C[n] = A[n]
  BY <1>1, <1>3
<1>10. QED
  BY <1>2, <1>8, <1>9 DEF row

-----------------------------------------------------------------------------
(* One step *)

(* A row that no column of changes keeps its invariant. *)
LEMMA Untouched ==
  ASSUME NEW k \in Jobs, RowInv(k),
         state'[k] = state[k], currentWorker'[k] = currentWorker[k],
         lease'[k] = lease[k], attemptCount'[k] = attemptCount[k],
         artifact'[k] = artifact[k], attempts'[k] = attempts[k],
         retried'[k] = retried[k],
         k \in everCancelled' <=> k \in everCancelled
  PROVE  RowInv(k)'
BY DEF RowInv, RowLedger, RowLease, RowArtifact, RowBudget, RowCancel, LostAttempt

(* Where a job goes after a lost attempt is pending or failed. *)
LEMMA AfterLostAttemptFacts ==
  ASSUME NEW n \in Nat
  PROVE  /\ AfterLostAttempt(n) \in {"pending", "failed"}
         /\ MaxAttempts > 0 /\ n >= MaxAttempts => AfterLostAttempt(n) = "failed"
BY ConstantsAssumption DEF AfterLostAttempt, ShouldFailPermanently

(* Closing the running attempt of a held job, leaving the job to nobody with *)
(* the row in a state that fits the status it closes the attempt with,       *)
(* keeps the row invariant: the common core of Fail, FailPermanently,        *)
(* Rendered, Cancel, poison and the sweep.                                   *)
LEMMA ClosedRow ==
  ASSUME NEW j \in Jobs, TypeOK, RowInv(j),
         NEW st \in AttemptStatuses \ {"running"},
         attempts'[j] = FinishedAttempts(j, st),
         attemptCount'[j] = attemptCount[j],
         retried'[j] = retried[j],
         artifact'[j] = artifact[j] \/ artifact'[j] = TRUE,
         st = "rendered" => artifact'[j] = TRUE,
         state'[j] \notin HeldStates,
         st \in {"failed", "lease_expired"} /\ state'[j] \notin TerminalStates =>
           ~ (MaxAttempts > 0 /\ attemptCount[j] >= MaxAttempts)
             \/ retried[j],
         st \notin {"failed", "lease_expired"} /\ state[j] # "running" =>
           state'[j] \in TerminalStates
  PROVE  RowLedger(j)' /\ RowArtifact(j)' /\ RowBudget(j)'
<1> DEFINE A == attempts[j]
           F == FinishedAttempts(j, st)
<1>1. /\ F \in Seq(AttemptRow)
      /\ Len(F) = Len(A)
      /\ \A n \in 1..Len(A) :
           /\ F[n].handed = A[n].handed
           /\ F[n].afterRetry = A[n].afterRetry
           /\ A[n].status = "running" => F[n].status = st
           /\ A[n].status # "running" => F[n] = A[n]
  BY FinishedFacts DEF RowInv
<1> HIDE DEF F
<1>2. attempts'[j] = F
  BY DEF F
<1>3. Len(A) = attemptCount[j] /\ attemptCount[j] \in Nat
  BY DEF RowInv, RowLedger, TypeOK
<1>4. RowLedger(j)'
  <2>1. \A n \in 1..Len(F) : F[n].status # "running"
    BY <1>1, <1>3
  <2>2. QED
    BY <1>1, <1>2, <1>3, <2>1 DEF RowLedger, HeldStates
<1>5. RowArtifact(j)'
  <2>1. \A n \in 1..Len(A) : F[n].status = "rendered" =>
          A[n].status = "rendered" \/ (A[n].status = "running" /\ st = "rendered")
    BY <1>1
  <2>2. \A n \in 1..Len(A) : A[n].status = "running" => n = Len(A)
    BY DEF RowInv, RowLedger
  <2>3. \A n \in 1..Len(A) : F[n].status = "rendered" => artifact'[j]
    BY <2>1 DEF RowInv, RowArtifact
  <2>4. \A n, m \in 1..Len(A) : F[n].status = "rendered" /\ n < m => F[m].handed
    BY <1>1, <1>3, <2>1, <2>2 DEF RowInv, RowArtifact
  <2>5. QED
    BY <1>1, <1>2, <2>3, <2>4 DEF RowArtifact
<1>6. RowBudget(j)'
  <2>1. \A n \in 1..Len(A) : A[n].status = "running" => n = Len(A)
    BY DEF RowInv, RowLedger
  <2>2. ASSUME NEW n \in 1..Len(A), n < Len(A),
               MaxAttempts > 0 /\ n >= MaxAttempts,
               F[n].status \in {"failed", "lease_expired"}
        PROVE  F[n + 1].afterRetry
    <3>1. A[n].status # "running" /\ F[n] = A[n]
      BY <1>1, <1>3, <2>1, <2>2
    <3>2. A[n + 1].afterRetry
      BY <2>2, <3>1 DEF RowInv, RowBudget, LostAttempt
    <3>3. n + 1 \in 1..Len(A)
      BY <1>3, <2>2
    <3>4. QED
      BY <1>1, <3>2, <3>3
  <2>3. ASSUME Len(A) > 0, MaxAttempts > 0 /\ Len(A) >= MaxAttempts,
               F[Len(A)].status \in {"failed", "lease_expired"}
        PROVE  state'[j] \in TerminalStates \/ retried[j]
    <3>1. Len(A) \in 1..Len(A)
      BY <1>3, <2>3
    <3>2. CASE A[Len(A)].status = "running"
      BY <1>1, <1>3, <2>3, <3>1, <3>2
    <3>3. CASE A[Len(A)].status # "running"
      <4>1. A[Len(A)].status \in {"failed", "lease_expired"}
        BY <1>1, <2>3, <3>1, <3>3
      <4>2. state[j] # "running"
        BY <1>3, <3>3 DEF RowInv, RowLedger
      <4>3. state[j] \in TerminalStates \/ retried[j]
        BY <2>3, <4>1 DEF RowInv, RowBudget, LostAttempt
      <4>4. QED
        BY <1>3, <2>3, <4>2, <4>3 
    <3>4. QED
      BY <3>2, <3>3
  <2>4. QED
    BY <1>1, <1>2, <2>2, <2>3 DEF RowBudget, LostAttempt
<1>7. QED
  BY <1>4, <1>5, <1>6

(* Every operation keeps every column within its vocabulary. *)
LEMMA TypeStep == IInv /\ [Next]_vars => TypeOK'
<1> SUFFICES ASSUME IInv, [Next]_vars PROVE TypeOK'
  OBVIOUS
<1>0. TypeOK /\ (\A j \in Jobs : RowInv(j))
  BY DEF IInv
<1>f. ASSUME NEW j \in Jobs, NEW st \in AttemptStatuses
      PROVE  FinishedAttempts(j, st) \in Seq(AttemptRow)
  BY <1>0, FinishedFacts DEF RowInv
<1>l. ASSUME NEW j \in Jobs
      PROVE  AfterLostAttempt(attemptCount[j]) \in States
  BY <1>0, AfterLostAttemptFacts DEF TypeOK, States
<1> USE DEF States, LeaseValues, AttemptStatuses
<1>1. ASSUME NEW j \in Jobs, Submit(j) PROVE TypeOK'
  BY <1>0, <1>1 DEF TypeOK, Submit, history
<1>2. ASSUME NEW S \in SUBSET Jobs, SubmitBatch(S) PROVE TypeOK'
  BY <1>0, <1>2 DEF TypeOK, SubmitBatch, history
<1>3. ASSUME NEW j \in Jobs, Cancel(j) PROVE TypeOK'
  BY <1>0, <1>3, <1>f DEF TypeOK, Cancel, ReleaseLease
<1>4. ASSUME NEW j \in Jobs, Retry(j) PROVE TypeOK'
  BY <1>0, <1>4 DEF TypeOK, Retry, ReleaseLease
<1>5. ASSUME NEW j \in Jobs, NEW w \in Workers, ClaimState(j, w) PROVE TypeOK'
  <2>a. RowLedger(j) /\ attemptCount[j] \in Nat
    BY <1>0 DEF RowInv, TypeOK
  <2>b. CreatedAttempts(j, w) \in Seq(AttemptRow)
        /\ AttemptNumber(j) = attemptCount[j] + 1
    BY <1>0, <2>a, CreatedFacts
  <2>1. CreatedAttempts(j, w) \in Seq(AttemptRow) /\ AttemptNumber(j) \in Nat
    BY <2>a, <2>b
  <2>2. QED
    BY <1>0, <1>5, <2>1 DEF TypeOK, ClaimState
<1>6. ASSUME NEW j \in Jobs, PoisonCorruptClaim(j) PROVE TypeOK'
  BY <1>0, <1>6, <1>f DEF TypeOK, PoisonCorruptClaim, ReleaseLease, history
<1>7. ASSUME NEW j \in Jobs, PoisonCorruptRead(j) PROVE TypeOK'
  BY <1>0, <1>7 DEF TypeOK, PoisonCorruptRead, ReleaseLease, history
<1>8. ASSUME NEW j \in Jobs, NEW w \in Workers, ClaimFinalization(j, w) PROVE TypeOK'
  <2>1. state' = [state EXCEPT ![j] = "failed"] \/ state' = [state EXCEPT ![j] = "finalizing"]
    BY <1>8 DEF ClaimFinalization
  <2>2. currentWorker' = [currentWorker EXCEPT ![j] = None] \/ currentWorker' = [currentWorker EXCEPT ![j] = w]
    BY <1>8 DEF ClaimFinalization, ReleaseLease
  <2>3. lease' = [lease EXCEPT ![j] = "none"] \/ lease' = [lease EXCEPT ![j] = "live"]
    BY <1>8 DEF ClaimFinalization, ReleaseLease
  <2>4. UNCHANGED <<attemptCount, artifact, progress, due, attempts, history>>
    BY <1>8 DEF ClaimFinalization
  <2>5. state' \in [Jobs -> States]
    BY <1>0, <2>1 DEF TypeOK
  <2>6. currentWorker' \in [Jobs -> Workers \cup {None}]
    BY <1>0, <2>2 DEF TypeOK
  <2>7. lease' \in [Jobs -> LeaseValues]
    BY <1>0, <2>3 DEF TypeOK
  <2>8. QED
    BY <1>0, <2>4, <2>5, <2>6, <2>7 DEF TypeOK, history
<1>9. ASSUME NEW j \in Jobs, NEW w \in Workers, Complete(j, w) PROVE TypeOK'
  BY <1>0, <1>9, <1>f DEF TypeOK, Complete, history
<1>10. ASSUME NEW j \in Jobs, NEW w \in Workers, Rendered(j, w) PROVE TypeOK'
  BY <1>0, <1>10, <1>f DEF TypeOK, Rendered, ReleaseLease, history
<1>11. ASSUME NEW j \in Jobs, NEW w \in Workers, Fail(j, w) PROVE TypeOK'
  BY <1>0, <1>11, <1>f, <1>l DEF TypeOK, Fail, ReleaseLease, history
<1>12. ASSUME NEW j \in Jobs, NEW w \in Workers, FailPermanently(j, w) PROVE TypeOK'
  BY <1>0, <1>12, <1>f DEF TypeOK, FailPermanently, ReleaseLease, history
<1>13. ASSUME NEW j \in Jobs, NEW w \in Workers, Renew(j, w) PROVE TypeOK'
  BY <1>0, <1>13 DEF TypeOK, Renew, history
<1>14. ASSUME NEW j \in Jobs, NEW w \in Workers, SetProgress(j, w) PROVE TypeOK'
  BY <1>0, <1>14 DEF TypeOK, SetProgress, history
<1>15. ASSUME NEW j \in Jobs, LeaseElapses(j) PROVE TypeOK'
  BY <1>0, <1>15 DEF TypeOK, LeaseElapses, history
<1>16. ASSUME NEW j \in Jobs, NotBeforePasses(j) PROVE TypeOK'
  BY <1>0, <1>16 DEF TypeOK, NotBeforePasses, history
<1>17. ASSUME NEW S \in SUBSET Jobs, RequeueExpired(S) PROVE TypeOK'
  BY <1>0, <1>17, <1>f, <1>l DEF TypeOK, RequeueExpired, SweptAttempts, history
<1>18. CASE UNCHANGED vars
  BY <1>0, <1>18 DEF TypeOK, vars, history
<1>19. QED
  BY <1>1, <1>2, <1>3, <1>4, <1>5, <1>6, <1>7, <1>8, <1>9, <1>10, <1>11, <1>12,
     <1>13, <1>14, <1>15, <1>16, <1>17, <1>18 DEF Next

(* Every operation keeps the row invariant of every job. *)
LEMMA RowStep == IInv /\ [Next]_vars => \A k \in Jobs : RowInv(k)'
<1> SUFFICES ASSUME IInv, [Next]_vars, NEW k \in Jobs PROVE RowInv(k)'
  OBVIOUS
<1>0. TypeOK /\ RowInv(k)
  BY DEF IInv
<1>t. /\ state[k] \in States /\ attemptCount[k] \in Nat /\ artifact[k] \in BOOLEAN
      /\ Len(attempts[k]) = attemptCount[k]
  BY <1>0 DEF TypeOK, RowInv, RowLedger
<1>l. /\ AfterLostAttempt(attemptCount[k]) \in {"pending", "failed"}
      /\ MaxAttempts > 0 /\ attemptCount[k] >= MaxAttempts =>
           AfterLostAttempt(attemptCount[k]) = "failed"
  BY <1>t, AfterLostAttemptFacts
<1> USE DEF HeldStates, TerminalStates, ClaimableStates
<1>1. ASSUME NEW j \in Jobs, Submit(j) PROVE RowInv(k)'
  <2>1. CASE k # j
    BY <1>0, <1>1, <2>1, Untouched DEF Submit, history, TypeOK
  <2>2. CASE k = j
    BY <1>0, <1>t, <1>1, <2>2
    DEF Submit, history, TypeOK, RowInv, RowLedger, RowLease, RowArtifact,
        RowBudget, RowCancel, LostAttempt
  <2>3. QED
    BY <2>1, <2>2
<1>2. ASSUME NEW S \in SUBSET Jobs, SubmitBatch(S) PROVE RowInv(k)'
  <2>1. CASE k \notin S
    BY <1>0, <1>2, <2>1, Untouched DEF SubmitBatch, history, TypeOK
  <2>2. CASE k \in S
    BY <1>0, <1>t, <1>2, <2>2
    DEF SubmitBatch, history, TypeOK, RowInv, RowLedger, RowLease, RowArtifact,
        RowBudget, RowCancel, LostAttempt
  <2>3. QED
    BY <2>1, <2>2
<1>3. ASSUME NEW j \in Jobs, Cancel(j) PROVE RowInv(k)'
  <2>1. CASE k # j
    BY <1>0, <1>3, <2>1, Untouched DEF Cancel, ReleaseLease, TypeOK
  <2>2. CASE k = j
    <3>1. RowLedger(k)' /\ RowArtifact(k)' /\ RowBudget(k)'
      <4>1. /\ attempts'[k] = FinishedAttempts(k, "cancelled")
            /\ attemptCount'[k] = attemptCount[k]
            /\ retried'[k] = retried[k]
            /\ artifact'[k] = artifact[k] \/ artifact'[k] = TRUE
            /\ "cancelled" = "rendered" => artifact'[k] = TRUE
            /\ state'[k] \notin HeldStates
            /\ "cancelled" \in {"failed", "lease_expired"} /\ state'[k] \notin TerminalStates =>
                 ~ (MaxAttempts > 0 /\ attemptCount[k] >= MaxAttempts) \/ retried[k]
            /\ "cancelled" \notin {"failed", "lease_expired"} /\ state[k] # "running" =>
                 state'[k] \in TerminalStates
        BY <1>0, <1>t, <1>l, <1>3, <2>2 DEF Cancel, ReleaseLease, TypeOK
      <4>2. "cancelled" \in AttemptStatuses \ {"running"}
        BY DEF AttemptStatuses
      <4>3. QED
        BY <1>0, <4>1, <4>2, ClosedRow
    <3>2. RowLease(k)' /\ RowCancel(k)'
      BY <1>0, <1>t, <1>l, <1>3, <2>2
      DEF Cancel, ReleaseLease, TypeOK, RowInv, RowLease, RowCancel
    <3>3. QED
      BY <3>1, <3>2 DEF RowInv
  <2>3. QED
    BY <2>1, <2>2
<1>4. ASSUME NEW j \in Jobs, Retry(j) PROVE RowInv(k)'
  <2>1. CASE k # j
    BY <1>0, <1>4, <2>1, Untouched DEF Retry, ReleaseLease, TypeOK
  <2>2. CASE k = j
    BY <1>0, <1>t, <1>4, <2>2
    DEF Retry, ReleaseLease, TypeOK, RowInv, RowLedger, RowLease, RowArtifact,
        RowBudget, RowCancel, LostAttempt
  <2>3. QED
    BY <2>1, <2>2
<1>5. ASSUME NEW j \in Jobs, NEW w \in Workers, ClaimState(j, w) PROVE RowInv(k)'
  <2>1. CASE k # j
    BY <1>0, <1>5, <2>1, Untouched DEF ClaimState, TypeOK
  <2>2. CASE k = j
    <3> DEFINE A == attempts[k]
               C == CreatedAttempts(k, w)
               N == attemptCount[k] + 1
    <3>1. /\ AttemptNumber(k) = N
          /\ Len(C) = N
          /\ \A n \in 1..Len(A) : C[n] = A[n]
          /\ C[N] = [worker |-> w, status |-> "running",
                     handed |-> artifact[k], afterRetry |-> retried[k]]
      BY <1>0, CreatedFacts DEF RowInv
    <3> HIDE DEF C
    <3>2. /\ attempts'[k] = C /\ attemptCount'[k] = N /\ state'[k] = "running"
          /\ currentWorker'[k] = w /\ lease'[k] = "live"
          /\ artifact'[k] = artifact[k] /\ retried'[k] = FALSE
          /\ everCancelled' = everCancelled
      BY <1>0, <1>5, <2>2, <3>1 DEF ClaimState, TypeOK, C
    <3>3. state[k] \in ClaimableStates /\ k \notin Corrupt
      BY <1>5, <2>2 DEF ClaimState, Eligible, Decodes
    <3>4. \A n \in 1..Len(A) : A[n].status # "running"
      BY <1>0, <3>3 DEF RowInv, RowLedger
    <3>5. \A n \in 1..N : n = N \/ (n \in 1..Len(A) /\ n < N)
      BY <1>t
    <3>6. C[N].worker = w /\ C[N].status = "running"
          /\ C[N].handed = artifact[k] /\ C[N].afterRetry = retried[k]
      BY <3>1
    <3>7. RowLedger(k)'
      <4>1. \A n \in 1..N : C[n].status = "running" => n = N
        BY <3>1, <3>4, <3>5
      <4>2. N > 0 /\ Len(C) = N
        BY <1>t, <3>1
      <4>3. QED
        BY <3>2, <3>6, <4>1, <4>2 DEF RowLedger
    <3>8. RowLease(k)'
      BY <3>2 DEF RowLease
    <3>9. RowArtifact(k)'
      <4>1. \A n \in 1..N : C[n].status = "rendered" =>
              n \in 1..Len(A) /\ A[n].status = "rendered"
        BY <3>1, <3>5, <3>6
      <4>2. \A n \in 1..N : C[n].status = "rendered" => artifact[k]
        BY <1>0, <4>1 DEF RowInv, RowArtifact
      <4>3. \A n, m \in 1..N : C[n].status = "rendered" /\ n < m => C[m].handed
        BY <1>0, <3>1, <3>5, <3>6, <4>1, <4>2 DEF RowInv, RowArtifact
      <4>4. QED
        BY <3>1, <3>2, <4>2, <4>3 DEF RowArtifact
    <3>10. RowBudget(k)'
      <4>1. ASSUME NEW n \in 1..N, n < N, MaxAttempts > 0 /\ n >= MaxAttempts,
                   C[n].status \in {"failed", "lease_expired"}
            PROVE  C[n + 1].afterRetry
        <5>1. n \in 1..Len(A) /\ C[n] = A[n]
          BY <3>1, <3>5, <4>1
        <5>2. CASE n < Len(A)
          <6>1. A[n + 1].afterRetry
            BY <1>0, <4>1, <5>1, <5>2 DEF RowInv, RowBudget, LostAttempt
          <6>2. n + 1 \in 1..Len(A)
            BY <1>t, <5>1, <5>2
          <6>3. QED
            BY <3>1, <6>1, <6>2
        <5>3. CASE n = Len(A)
          <6>1. retried[k]
            BY <1>0, <1>t, <3>3, <4>1, <5>1, <5>3 DEF RowInv, RowBudget, LostAttempt
          <6>2. QED
            BY <1>t, <3>6, <5>3, <6>1
        <5>4. QED
          BY <1>t, <5>1, <5>2, <5>3
      <4>2. C[N].status \notin {"failed", "lease_expired"}
        BY <3>6
      <4>3. QED
        BY <3>1, <3>2, <4>1, <4>2 DEF RowBudget, LostAttempt
    <3>11. RowCancel(k)'
      BY <1>0, <3>2, <3>3 DEF RowInv, RowCancel
    <3>12. QED
      BY <3>7, <3>8, <3>9, <3>10, <3>11 DEF RowInv
  <2>3. QED
    BY <2>1, <2>2
<1>6. ASSUME NEW j \in Jobs, PoisonCorruptClaim(j) PROVE RowInv(k)'
  <2>1. CASE k # j
    BY <1>0, <1>6, <2>1, Untouched DEF PoisonCorruptClaim, ReleaseLease, history, TypeOK
  <2>2. CASE k = j
    <3>1. RowLedger(k)' /\ RowArtifact(k)' /\ RowBudget(k)'
      <4>1. /\ attempts'[k] = FinishedAttempts(k, "failed")
            /\ attemptCount'[k] = attemptCount[k]
            /\ retried'[k] = retried[k]
            /\ artifact'[k] = artifact[k] \/ artifact'[k] = TRUE
            /\ "failed" = "rendered" => artifact'[k] = TRUE
            /\ state'[k] \notin HeldStates
            /\ "failed" \in {"failed", "lease_expired"} /\ state'[k] \notin TerminalStates =>
                 ~ (MaxAttempts > 0 /\ attemptCount[k] >= MaxAttempts) \/ retried[k]
            /\ "failed" \notin {"failed", "lease_expired"} /\ state[k] # "running" =>
                 state'[k] \in TerminalStates
        BY <1>0, <1>t, <1>l, <1>6, <2>2 DEF PoisonCorruptClaim, ReleaseLease, history, TypeOK
      <4>2. "failed" \in AttemptStatuses \ {"running"}
        BY DEF AttemptStatuses
      <4>3. QED
        BY <1>0, <4>1, <4>2, ClosedRow
    <3>2. RowLease(k)' /\ RowCancel(k)'
      BY <1>0, <1>t, <1>l, <1>6, <2>2
      DEF PoisonCorruptClaim, ReleaseLease, history, TypeOK, RowInv, RowLease, RowCancel
    <3>3. QED
      BY <3>1, <3>2 DEF RowInv
  <2>3. QED
    BY <2>1, <2>2
<1>7. ASSUME NEW j \in Jobs, PoisonCorruptRead(j) PROVE RowInv(k)'
  <2>1. CASE k # j
    BY <1>0, <1>7, <2>1, Untouched DEF PoisonCorruptRead, ReleaseLease, history, TypeOK
  <2>2. CASE k = j
    BY <1>0, <1>t, <1>7, <2>2
    DEF PoisonCorruptRead, ReleaseLease, history, TypeOK, RowInv, RowLedger, RowLease, RowArtifact,
        RowBudget, RowCancel, LostAttempt
  <2>3. QED
    BY <2>1, <2>2
<1>8. ASSUME NEW j \in Jobs, NEW w \in Workers, ClaimFinalization(j, w) PROVE RowInv(k)'
  <2>1. CASE k # j
    BY <1>0, <1>8, <2>1, Untouched DEF ClaimFinalization, ReleaseLease, history, TypeOK
  <2>2. CASE k = j
    <3>1. /\ attempts'[k] = attempts[k] /\ attemptCount'[k] = attemptCount[k]
          /\ artifact'[k] = artifact[k] /\ retried'[k] = retried[k]
          /\ everCancelled' = everCancelled
          /\ state[k] \in {"pending", "running"}
      BY <1>8, <2>2 DEF ClaimFinalization, history
    <3>2. CASE k \in Corrupt
      <4>1. state'[k] = "failed" /\ currentWorker'[k] = None /\ lease'[k] = "none"
            /\ state[k] = "pending"
        BY <1>0, <1>8, <2>2, <3>1, <3>2
        DEF ClaimFinalization, ReleaseLease, TypeOK, RowInv, RowCancel
      <4>2. QED
        BY <1>0, <1>t, <3>1, <4>1
        DEF RowInv, RowLedger, RowLease, RowArtifact, RowBudget, RowCancel, LostAttempt
    <3>3. CASE k \notin Corrupt
      <4>1. state'[k] = "finalizing" /\ currentWorker'[k] = w /\ lease'[k] = "live"
        BY <1>0, <1>8, <2>2, <3>1, <3>3 DEF ClaimFinalization, TypeOK
      <4>2. QED
        BY <1>0, <1>t, <3>1, <3>3, <4>1
        DEF RowInv, RowLedger, RowLease, RowArtifact, RowBudget, RowCancel, LostAttempt
    <3>4. QED
      BY <3>2, <3>3
  <2>3. QED
    BY <2>1, <2>2
<1>9. ASSUME NEW j \in Jobs, NEW w \in Workers, Complete(j, w) PROVE RowInv(k)'
  <2>1. CASE k # j
    BY <1>0, <1>9, <2>1, Untouched DEF Complete, Owns, history, TypeOK
  <2>2. CASE k = j
    <3>1. RowLedger(k)' /\ RowArtifact(k)' /\ RowBudget(k)'
      <4>1. /\ attempts'[k] = FinishedAttempts(k, "completed")
            /\ attemptCount'[k] = attemptCount[k]
            /\ retried'[k] = retried[k]
            /\ artifact'[k] = artifact[k] \/ artifact'[k] = TRUE
            /\ "completed" = "rendered" => artifact'[k] = TRUE
            /\ state'[k] \notin HeldStates
            /\ "completed" \in {"failed", "lease_expired"} /\ state'[k] \notin TerminalStates =>
                 ~ (MaxAttempts > 0 /\ attemptCount[k] >= MaxAttempts) \/ retried[k]
            /\ "completed" \notin {"failed", "lease_expired"} /\ state[k] # "running" =>
                 state'[k] \in TerminalStates
        BY <1>0, <1>t, <1>l, <1>9, <2>2 DEF Complete, Owns, history, TypeOK
      <4>2. "completed" \in AttemptStatuses \ {"running"}
        BY DEF AttemptStatuses
      <4>3. QED
        BY <1>0, <4>1, <4>2, ClosedRow
    <3>2. RowLease(k)' /\ RowCancel(k)'
      BY <1>0, <1>t, <1>l, <1>9, <2>2
      DEF Complete, Owns, history, TypeOK, RowInv, RowLease, RowCancel
    <3>3. QED
      BY <3>1, <3>2 DEF RowInv
  <2>3. QED
    BY <2>1, <2>2
<1>10. ASSUME NEW j \in Jobs, NEW w \in Workers, Rendered(j, w) PROVE RowInv(k)'
  <2>1. CASE k # j
    BY <1>0, <1>10, <2>1, Untouched DEF Rendered, Owns, ReleaseLease, history, TypeOK
  <2>2. CASE k = j
    <3>1. RowLedger(k)' /\ RowArtifact(k)' /\ RowBudget(k)'
      <4>1. /\ attempts'[k] = FinishedAttempts(k, "rendered")
            /\ attemptCount'[k] = attemptCount[k]
            /\ retried'[k] = retried[k]
            /\ artifact'[k] = artifact[k] \/ artifact'[k] = TRUE
            /\ "rendered" = "rendered" => artifact'[k] = TRUE
            /\ state'[k] \notin HeldStates
            /\ "rendered" \in {"failed", "lease_expired"} /\ state'[k] \notin TerminalStates =>
                 ~ (MaxAttempts > 0 /\ attemptCount[k] >= MaxAttempts) \/ retried[k]
            /\ "rendered" \notin {"failed", "lease_expired"} /\ state[k] # "running" =>
                 state'[k] \in TerminalStates
        BY <1>0, <1>t, <1>l, <1>10, <2>2 DEF Rendered, Owns, ReleaseLease, history, TypeOK
      <4>2. "rendered" \in AttemptStatuses \ {"running"}
        BY DEF AttemptStatuses
      <4>3. QED
        BY <1>0, <4>1, <4>2, ClosedRow
    <3>2. RowLease(k)' /\ RowCancel(k)'
      BY <1>0, <1>t, <1>l, <1>10, <2>2
      DEF Rendered, Owns, ReleaseLease, history, TypeOK, RowInv, RowLease, RowCancel
    <3>3. QED
      BY <3>1, <3>2 DEF RowInv
  <2>3. QED
    BY <2>1, <2>2
<1>11. ASSUME NEW j \in Jobs, NEW w \in Workers, Fail(j, w) PROVE RowInv(k)'
  <2>1. CASE k # j
    BY <1>0, <1>11, <2>1, Untouched DEF Fail, Owns, ReleaseLease, history, TypeOK
  <2>2. CASE k = j
    <3>1. RowLedger(k)' /\ RowArtifact(k)' /\ RowBudget(k)'
      <4>1. /\ attempts'[k] = FinishedAttempts(k, "failed")
            /\ attemptCount'[k] = attemptCount[k]
            /\ retried'[k] = retried[k]
            /\ artifact'[k] = artifact[k] \/ artifact'[k] = TRUE
            /\ "failed" = "rendered" => artifact'[k] = TRUE
            /\ state'[k] \notin HeldStates
            /\ "failed" \in {"failed", "lease_expired"} /\ state'[k] \notin TerminalStates =>
                 ~ (MaxAttempts > 0 /\ attemptCount[k] >= MaxAttempts) \/ retried[k]
            /\ "failed" \notin {"failed", "lease_expired"} /\ state[k] # "running" =>
                 state'[k] \in TerminalStates
        BY <1>0, <1>t, <1>l, <1>11, <2>2 DEF Fail, Owns, ReleaseLease, history, TypeOK
      <4>2. "failed" \in AttemptStatuses \ {"running"}
        BY DEF AttemptStatuses
      <4>3. QED
        BY <1>0, <4>1, <4>2, ClosedRow
    <3>2. RowLease(k)' /\ RowCancel(k)'
      BY <1>0, <1>t, <1>l, <1>11, <2>2
      DEF Fail, Owns, ReleaseLease, history, TypeOK, RowInv, RowLease, RowCancel
    <3>3. QED
      BY <3>1, <3>2 DEF RowInv
  <2>3. QED
    BY <2>1, <2>2
<1>12. ASSUME NEW j \in Jobs, NEW w \in Workers, FailPermanently(j, w) PROVE RowInv(k)'
  <2>1. CASE k # j
    BY <1>0, <1>12, <2>1, Untouched DEF FailPermanently, Owns, ReleaseLease, history, TypeOK
  <2>2. CASE k = j
    <3>1. RowLedger(k)' /\ RowArtifact(k)' /\ RowBudget(k)'
      <4>1. /\ attempts'[k] = FinishedAttempts(k, "failed")
            /\ attemptCount'[k] = attemptCount[k]
            /\ retried'[k] = retried[k]
            /\ artifact'[k] = artifact[k] \/ artifact'[k] = TRUE
            /\ "failed" = "rendered" => artifact'[k] = TRUE
            /\ state'[k] \notin HeldStates
            /\ "failed" \in {"failed", "lease_expired"} /\ state'[k] \notin TerminalStates =>
                 ~ (MaxAttempts > 0 /\ attemptCount[k] >= MaxAttempts) \/ retried[k]
            /\ "failed" \notin {"failed", "lease_expired"} /\ state[k] # "running" =>
                 state'[k] \in TerminalStates
        BY <1>0, <1>t, <1>l, <1>12, <2>2 DEF FailPermanently, Owns, ReleaseLease, history, TypeOK
      <4>2. "failed" \in AttemptStatuses \ {"running"}
        BY DEF AttemptStatuses
      <4>3. QED
        BY <1>0, <4>1, <4>2, ClosedRow
    <3>2. RowLease(k)' /\ RowCancel(k)'
      BY <1>0, <1>t, <1>l, <1>12, <2>2
      DEF FailPermanently, Owns, ReleaseLease, history, TypeOK, RowInv, RowLease, RowCancel
    <3>3. QED
      BY <3>1, <3>2 DEF RowInv
  <2>3. QED
    BY <2>1, <2>2
<1>13. ASSUME NEW j \in Jobs, NEW w \in Workers, Renew(j, w) PROVE RowInv(k)'
  <2>1. CASE k # j
    BY <1>0, <1>13, <2>1, Untouched DEF Renew, Owns, history, TypeOK
  <2>2. CASE k = j
    BY <1>0, <1>t, <1>13, <2>2
    DEF Renew, Owns, history, TypeOK, RowInv, RowLedger, RowLease, RowArtifact,
        RowBudget, RowCancel, LostAttempt
  <2>3. QED
    BY <2>1, <2>2
<1>14. ASSUME NEW j \in Jobs, NEW w \in Workers, SetProgress(j, w) PROVE RowInv(k)'
  BY <1>0, <1>14, Untouched DEF SetProgress, history
<1>15. ASSUME NEW j \in Jobs, LeaseElapses(j) PROVE RowInv(k)'
  <2>1. CASE k # j
    BY <1>0, <1>15, <2>1, Untouched DEF LeaseElapses, history, TypeOK
  <2>2. CASE k = j
    BY <1>0, <1>t, <1>15, <2>2
    DEF LeaseElapses, history, TypeOK, RowInv, RowLedger, RowLease, RowArtifact,
        RowBudget, RowCancel, LostAttempt
  <2>3. QED
    BY <2>1, <2>2
<1>16. ASSUME NEW j \in Jobs, NotBeforePasses(j) PROVE RowInv(k)'
  BY <1>0, <1>16, Untouched DEF NotBeforePasses, history
<1>17. ASSUME NEW S \in SUBSET Jobs, RequeueExpired(S) PROVE RowInv(k)'
  <2>1. CASE k \notin S
    BY <1>0, <1>17, <2>1, Untouched DEF RequeueExpired, history, TypeOK
  <2>2. CASE k \in S
    <3>1. RowLedger(k)' /\ RowArtifact(k)' /\ RowBudget(k)'
      <4>1. /\ attempts'[k] = FinishedAttempts(k, "lease_expired")
            /\ attemptCount'[k] = attemptCount[k]
            /\ retried'[k] = retried[k]
            /\ artifact'[k] = artifact[k] \/ artifact'[k] = TRUE
            /\ "lease_expired" = "rendered" => artifact'[k] = TRUE
            /\ state'[k] \notin HeldStates
            /\ "lease_expired" \in {"failed", "lease_expired"} /\ state'[k] \notin TerminalStates =>
                 ~ (MaxAttempts > 0 /\ attemptCount[k] >= MaxAttempts) \/ retried[k]
            /\ "lease_expired" \notin {"failed", "lease_expired"} /\ state[k] # "running" =>
                 state'[k] \in TerminalStates
        BY <1>0, <1>t, <1>l, <1>17, <2>2 DEF RequeueExpired, SweptAttempts, history, TypeOK
      <4>2. "lease_expired" \in AttemptStatuses \ {"running"}
        BY DEF AttemptStatuses
      <4>3. QED
        BY <1>0, <4>1, <4>2, ClosedRow
    <3>2. RowLease(k)' /\ RowCancel(k)'
      BY <1>0, <1>t, <1>l, <1>17, <2>2
      DEF RequeueExpired, Expired, SweptStates, history, TypeOK, RowInv, RowLease,
          RowCancel
    <3>3. QED
      BY <3>1, <3>2 DEF RowInv
  <2>3. QED
    BY <2>1, <2>2
<1>18. CASE UNCHANGED vars
  BY <1>0, <1>18, Untouched DEF vars, history
<1>19. QED
  BY <1>1, <1>2, <1>3, <1>4, <1>5, <1>6, <1>7, <1>8, <1>9, <1>10, <1>11, <1>12,
     <1>13, <1>14, <1>15, <1>16, <1>17, <1>18 DEF Next

-----------------------------------------------------------------------------
(* The invariant and what follows from it *)

(* The row invariant of every job holds in every reachable state. *)
THEOREM InductiveInvariant == Spec => []IInv
<1>1. Init => IInv
  <2> SUFFICES ASSUME Init PROVE IInv
    OBVIOUS
  <2>1. TypeOK
    BY DEF Init, TypeOK, States, LeaseValues
  <2>2. ASSUME NEW j \in Jobs PROVE RowInv(j)
    <3>1. /\ attempts[j] = <<>> /\ attemptCount[j] = 0 /\ state[j] = "absent"
          /\ currentWorker[j] = None /\ lease[j] = "none" /\ everCancelled = {}
      BY <2>2 DEF Init
    <3>2. Len(attempts[j]) = 0
      BY <3>1
    <3>3. QED
      BY <3>1, <3>2
      DEF RowInv, RowLedger, RowLease, RowArtifact, RowBudget, RowCancel, HeldStates
  <2>3. QED
    BY <2>1, <2>2 DEF IInv
<1>2. IInv /\ [Next]_vars => IInv'
  BY TypeStep, RowStep DEF IInv
<1>3. QED
  BY <1>1, <1>2, PTL DEF Spec

(* Type correctness of the job store. *)
THEOREM TypeCorrect == Spec => []TypeOK
<1>1. IInv => TypeOK
  BY DEF IInv
<1>2. QED
  BY <1>1, InductiveInvariant, PTL

(* render_attempts and render_jobs agree for every number of jobs, workers   *)
(* and attempts.                                                             *)
THEOREM LedgerCorrect == Spec => []AttemptLedgerAgrees
<1>1. IInv => AttemptLedgerAgrees
  BY DEF IInv, RowInv, RowLedger, AttemptLedgerAgrees
<1>2. QED
  BY <1>1, InductiveInvariant, PTL

(* A held job always has a holder and a lease the sweeper can see. *)
THEOREM LeaseCorrect == Spec => []LeaseHasHolder
<1>1. IInv => LeaseHasHolder
  BY DEF IInv, RowInv, RowLease, LeaseHasHolder
<1>2. QED
  BY <1>1, InductiveInvariant, PTL

(* A job with a durable artifact is never handed out for rendering again. *)
THEOREM DurableCorrect == Spec => []NoRenderAfterDurable
<1>1. IInv => NoRenderAfterDurable
  BY DEF IInv, RowInv, RowArtifact, NoRenderAfterDurable
<1>2. QED
  BY <1>1, InductiveInvariant, PTL

(* max_attempts bounds the automatic retries. *)
THEOREM BudgetCorrect == Spec => []RetryBudgetHolds
<1>1. IInv => RetryBudgetHolds
  BY DEF IInv, RowInv, RowBudget, LostAttempt, RetryBudgetHolds
<1>2. QED
  BY <1>1, InductiveInvariant, PTL

-----------------------------------------------------------------------------
(* Action properties *)

(* Closing the running attempt of a job nobody holds changes nothing. *)
LEMMA NothingToFinish ==
  ASSUME NEW j \in Jobs, TypeOK, RowLedger(j), state[j] \notin HeldStates,
         NEW st \in AttemptStatuses
  PROVE  FinishedAttempts(j, st) = attempts[j]
<1> DEFINE A == attempts[j]
           F == FinishedAttempts(j, st)
<1>1. A \in Seq(AttemptRow)
  BY DEF TypeOK
<1>2. \A n \in 1..Len(A) : A[n].status # "running"
  BY DEF RowLedger
<1>3. \A n \in 1..Len(A) : ~IsRunningAttempt(j, n)
  BY <1>2 DEF IsRunningAttempt
<1>4. F = [n \in 1..Len(A) |-> A[n]]
  BY <1>3 DEF FinishedAttempts
<1>5. A = [n \in 1..Len(A) |-> A[n]]
  BY <1>1
<1>6. QED
  BY <1>4, <1>5

(* What a cancelled job looks like: out of every worker's reach. *)
LEMMA CancelledIsNotHeld ==
  ASSUME IInv, NEW j \in everCancelled
  PROVE  /\ j \in Jobs /\ TypeOK /\ RowLedger(j)
         /\ state[j] \notin HeldStates
         /\ state[j] = "cancelled" \/ j \in Corrupt
BY DEF IInv, TypeOK, RowInv, RowCancel, HeldStates

(* Once cancelled, a job never gets another attempt or another artifact,     *)
(* even when its row is corrupt, read, retried and claimed again.            *)
THEOREM CancelCorrect == Spec => CancelIsFinal
<1>1. IInv /\ [Next]_vars =>
        [\A j \in everCancelled :
           attempts'[j] = attempts[j] /\ artifact'[j] = artifact[j]]_vars
  <2> SUFFICES ASSUME IInv, Next, NEW k \in everCancelled
               PROVE  attempts'[k] = attempts[k] /\ artifact'[k] = artifact[k]
    OBVIOUS
  <2>0. /\ k \in Jobs /\ TypeOK /\ RowLedger(k)
        /\ state[k] \notin HeldStates
        /\ state[k] = "cancelled" \/ k \in Corrupt
    BY CancelledIsNotHeld
  <2>n. ASSUME NEW st \in AttemptStatuses
        PROVE  FinishedAttempts(k, st) = attempts[k]
    BY <2>0, NothingToFinish
  <2>t. attempts = [j \in Jobs |-> attempts[j]] /\ artifact = [j \in Jobs |-> artifact[j]]
    BY <2>0 DEF TypeOK
  <2> USE DEF HeldStates, AttemptStatuses
  <2>1. ASSUME NEW j \in Jobs, Submit(j) \/ Retry(j) \/ PoisonCorruptRead(j)
                               \/ LeaseElapses(j) \/ NotBeforePasses(j)
        PROVE  attempts'[k] = attempts[k] /\ artifact'[k] = artifact[k]
    BY <2>1 DEF Submit, Retry, PoisonCorruptRead, LeaseElapses, NotBeforePasses, history
  <2>2. ASSUME NEW S \in SUBSET Jobs, SubmitBatch(S)
        PROVE  attempts'[k] = attempts[k] /\ artifact'[k] = artifact[k]
    BY <2>2 DEF SubmitBatch, history
  <2>3. ASSUME NEW j \in Jobs, Cancel(j)
        PROVE  attempts'[k] = attempts[k] /\ artifact'[k] = artifact[k]
    BY <2>0, <2>n, <2>t, <2>3 DEF Cancel
  <2>4. ASSUME NEW j \in Jobs, PoisonCorruptClaim(j)
        PROVE  attempts'[k] = attempts[k] /\ artifact'[k] = artifact[k]
    BY <2>0, <2>n, <2>t, <2>4 DEF PoisonCorruptClaim
  <2>5. ASSUME NEW j \in Jobs, NEW w \in Workers, ClaimState(j, w)
        PROVE  attempts'[k] = attempts[k] /\ artifact'[k] = artifact[k]
    <3>1. j # k
      BY <2>0, <2>5 DEF ClaimState, Eligible, Decodes, ClaimableStates
    <3>2. QED
      BY <2>0, <2>t, <2>5, <3>1 DEF ClaimState
  <2>6. ASSUME NEW j \in Jobs, NEW w \in Workers,
               ClaimFinalization(j, w) \/ Renew(j, w) \/ SetProgress(j, w)
        PROVE  attempts'[k] = attempts[k] /\ artifact'[k] = artifact[k]
    BY <2>6 DEF ClaimFinalization, Renew, SetProgress, history
  <2>7. ASSUME NEW j \in Jobs, NEW w \in Workers,
               Complete(j, w) \/ Rendered(j, w) \/ Fail(j, w) \/ FailPermanently(j, w)
        PROVE  attempts'[k] = attempts[k] /\ artifact'[k] = artifact[k]
    <3>1. j # k
      BY <2>0, <2>7 DEF Complete, Rendered, Fail, FailPermanently, Owns
    <3>2. QED
      BY <2>0, <2>t, <2>7, <3>1 DEF Complete, Rendered, Fail, FailPermanently
  <2>8. ASSUME NEW S \in SUBSET Jobs, RequeueExpired(S)
        PROVE  attempts'[k] = attempts[k] /\ artifact'[k] = artifact[k]
    <3>1. k \notin S
      BY <2>0, <2>8 DEF RequeueExpired, Expired, SweptStates
    <3>2. QED
      BY <2>0, <2>8, <3>1 DEF RequeueExpired
  <2>9. QED
    BY <2>1, <2>2, <2>3, <2>4, <2>5, <2>6, <2>7, <2>8 DEF Next
<1>2. QED
  BY <1>1, InductiveInvariant, PTL DEF Spec, CancelIsFinal

(* What one step does to the attempts of a job: nothing, or a claim appends  *)
(* a row, or the running row is closed, as expired only by the sweep of an   *)
(* expired lease.                                                            *)
LEMMA AttemptsStep ==
  ASSUME IInv, Next, NEW k \in Jobs
  PROVE  \/ attempts'[k] = attempts[k]
         \/ \E w \in Workers : attempts'[k] = CreatedAttempts(k, w)
         \/ \E st \in AttemptStatuses \ {"running"} :
              /\ attempts'[k] = FinishedAttempts(k, st)
              /\ st = "lease_expired" => lease[k] = "expired"
<1> DEFINE Goal == \/ attempts'[k] = attempts[k]
                   \/ \E w \in Workers : attempts'[k] = CreatedAttempts(k, w)
                   \/ \E st \in AttemptStatuses \ {"running"} :
                        /\ attempts'[k] = FinishedAttempts(k, st)
                        /\ st = "lease_expired" => lease[k] = "expired"
<1>t. attempts = [j \in Jobs |-> attempts[j]]
  BY DEF IInv, TypeOK
<1>1. ASSUME NEW j \in Jobs, Submit(j) \/ Retry(j) \/ PoisonCorruptRead(j)
                             \/ LeaseElapses(j) \/ NotBeforePasses(j)
      PROVE  Goal
  BY <1>1 DEF Submit, Retry, PoisonCorruptRead, LeaseElapses, NotBeforePasses, history
<1>2. ASSUME NEW S \in SUBSET Jobs, SubmitBatch(S)
      PROVE  Goal
  BY <1>2 DEF SubmitBatch, history
<1>3. ASSUME NEW j \in Jobs, NEW st \in AttemptStatuses \ {"running", "lease_expired"},
             attempts' = [attempts EXCEPT ![j] = FinishedAttempts(j, st)]
      PROVE  Goal
  BY <1>t, <1>3
<1>4. ASSUME NEW j \in Jobs, Cancel(j) \/ PoisonCorruptClaim(j)
      PROVE  Goal
  BY <1>3, <1>4 DEF Cancel, PoisonCorruptClaim, AttemptStatuses
<1>5. ASSUME NEW j \in Jobs, NEW w \in Workers, ClaimState(j, w)
      PROVE  Goal
  BY <1>t, <1>5 DEF ClaimState
<1>6. ASSUME NEW j \in Jobs, NEW w \in Workers,
             ClaimFinalization(j, w) \/ Renew(j, w) \/ SetProgress(j, w)
      PROVE  Goal
  BY <1>6 DEF ClaimFinalization, Renew, SetProgress, history
<1>7. ASSUME NEW j \in Jobs, NEW w \in Workers,
             Complete(j, w) \/ Rendered(j, w) \/ Fail(j, w) \/ FailPermanently(j, w)
      PROVE  Goal
  BY <1>3, <1>7 DEF Complete, Rendered, Fail, FailPermanently, AttemptStatuses
<1>8. ASSUME NEW S \in SUBSET Jobs, RequeueExpired(S)
      PROVE  Goal
  <2>1. CASE k \in S
    <3>1. attempts'[k] = FinishedAttempts(k, "lease_expired") /\ lease[k] = "expired"
      BY <1>8, <2>1 DEF RequeueExpired, SweptAttempts, Expired
    <3>2. QED
      BY <3>1 DEF AttemptStatuses
  <2>2. CASE k \notin S
    BY <1>8, <2>2 DEF RequeueExpired
  <2>3. QED
    BY <2>1, <2>2
<1>9. QED
  BY <1>1, <1>2, <1>4, <1>5, <1>6, <1>7, <1>8 DEF Next

(* What that means for the rows a job already has. *)
LEMMA RowsStep ==
  ASSUME IInv, Next, NEW k \in Jobs
  PROVE  /\ Len(attempts'[k]) >= Len(attempts[k])
         /\ \A n \in 1..Len(attempts[k]) :
              /\ attempts'[k][n].worker = attempts[k][n].worker
              /\ attempts[k][n].status # "running" => attempts'[k][n] = attempts[k][n]
              /\ attempts'[k][n].status = "lease_expired" =>
                   attempts[k][n].status = "lease_expired" \/ lease[k] = "expired"
<1> DEFINE Goal == /\ Len(attempts'[k]) >= Len(attempts[k])
                   /\ \A n \in 1..Len(attempts[k]) :
                        /\ attempts'[k][n].worker = attempts[k][n].worker
                        /\ attempts[k][n].status # "running" =>
                             attempts'[k][n] = attempts[k][n]
                        /\ attempts'[k][n].status = "lease_expired" =>
                             attempts[k][n].status = "lease_expired" \/ lease[k] = "expired"
<1>1. TypeOK /\ RowLedger(k) /\ Len(attempts[k]) \in Nat /\ Len(attempts[k]) = attemptCount[k]
  BY DEF IInv, RowInv, RowLedger, TypeOK
<1>2. ASSUME attempts'[k] = attempts[k]
      PROVE  Goal
  BY <1>1, <1>2
<1>3. ASSUME NEW w \in Workers, attempts'[k] = CreatedAttempts(k, w)
      PROVE  Goal
  <2>1. /\ Len(attempts'[k]) = Len(attempts[k]) + 1
        /\ \A n \in 1..Len(attempts[k]) : attempts'[k][n] = attempts[k][n]
    BY <1>1, <1>3, CreatedFacts
  <2>2. QED
    BY <1>1, <2>1
<1>4. ASSUME NEW st \in AttemptStatuses \ {"running"},
             attempts'[k] = FinishedAttempts(k, st),
             st = "lease_expired" => lease[k] = "expired"
      PROVE  Goal
  <2>1. /\ Len(attempts'[k]) = Len(attempts[k])
        /\ \A n \in 1..Len(attempts[k]) :
             /\ attempts'[k][n].worker = attempts[k][n].worker
             /\ attempts[k][n].status = "running" => attempts'[k][n].status = st
             /\ attempts[k][n].status # "running" => attempts'[k][n] = attempts[k][n]
    BY <1>1, <1>4, FinishedFacts
  <2>2. Len(attempts'[k]) >= Len(attempts[k])
    BY <1>1, <2>1
  <2>3. ASSUME NEW n \in 1..Len(attempts[k]), attempts'[k][n].status = "lease_expired"
        PROVE  attempts[k][n].status = "lease_expired" \/ lease[k] = "expired"
    BY <1>4, <2>1, <2>3, Zenon
  <2>4. QED
    BY <2>1, <2>2, <2>3, Zenon
<1>5. QED
  <2> HIDE DEF Goal
  <2>1. \/ attempts'[k] = attempts[k]
        \/ \E w \in Workers : attempts'[k] = CreatedAttempts(k, w)
        \/ \E st \in AttemptStatuses \ {"running"} :
             /\ attempts'[k] = FinishedAttempts(k, st)
             /\ st = "lease_expired" => lease[k] = "expired"
    BY AttemptsStep, Zenon
  <2>2. Goal
    BY <1>2, <1>3, <1>4, <2>1, Zenon
  <2>3. QED
    BY <2>2, Zenon DEF Goal

(* The attempt history is append-only, for every number of jobs, workers and *)
(* attempts: no report, sweep or retry rewrites a closed row.                *)
THEOREM AppendOnlyCorrect == Spec => AttemptsAppendOnly
<1>1. IInv /\ [Next]_vars =>
        [\A j \in Jobs :
           /\ Len(attempts'[j]) >= Len(attempts[j])
           /\ \A n \in 1..Len(attempts[j]) :
                /\ attempts'[j][n].worker = attempts[j][n].worker
                /\ attempts[j][n].status # "running" =>
                     attempts'[j][n] = attempts[j][n]]_vars
  BY RowsStep
<1>2. QED
  BY <1>1, InductiveInvariant, PTL DEF Spec, AttemptsAppendOnly

(* How the holder of a job with a live lease can change in one step. *)
LEMMA HolderStep ==
  ASSUME IInv, Next, NEW k \in Jobs,
         state[k] \in HeldStates, lease[k] = "live",
         currentWorker'[k] # currentWorker[k]
  PROVE  \/ currentWorker'[k] = None /\ state'[k] \notin HeldStates
         \/ HasChildren(k) /\ state[k] = "running" /\ state'[k] = "finalizing"
<1> DEFINE Goal == \/ currentWorker'[k] = None /\ state'[k] \notin HeldStates
                   \/ HasChildren(k) /\ state[k] = "running" /\ state'[k] = "finalizing"
<1>t. /\ currentWorker = [j \in Jobs |-> currentWorker[j]]
      /\ state = [j \in Jobs |-> state[j]]
      /\ attemptCount[k] \in Nat
  BY DEF IInv, TypeOK
<1>c. k \notin Corrupt
  BY DEF IInv, RowInv, RowCancel, HeldStates
<1>1. ASSUME NEW j \in Jobs, \/ Submit(j) \/ LeaseElapses(j) \/ NotBeforePasses(j)
      PROVE  Goal
  BY <1>1 DEF Submit, LeaseElapses, NotBeforePasses
<1>2. ASSUME NEW S \in SUBSET Jobs, SubmitBatch(S)
      PROVE  Goal
  BY <1>2 DEF SubmitBatch
<1>3. ASSUME NEW j \in Jobs, Cancel(j) \/ Retry(j) \/ PoisonCorruptClaim(j) \/ PoisonCorruptRead(j)
      PROVE  Goal
  BY <1>t, <1>c, <1>3
     DEF Cancel, Retry, PoisonCorruptClaim, PoisonCorruptRead, ReleaseLease, HeldStates
<1>4. ASSUME NEW j \in Jobs, NEW w \in Workers, ClaimState(j, w)
      PROVE  Goal
  <2>1. j # k
    BY <1>4 DEF ClaimState, Eligible, ClaimableStates, HeldStates
  <2>2. QED
    BY <1>t, <1>4, <2>1 DEF ClaimState
<1>5. ASSUME NEW j \in Jobs, NEW w \in Workers, ClaimFinalization(j, w)
      PROVE  Goal
  <2>1. CASE j = k
    BY <1>t, <1>c, <1>5, <2>1 DEF ClaimFinalization, HeldStates
  <2>2. CASE j # k
    BY <1>t, <1>5, <2>2 DEF ClaimFinalization, ReleaseLease
  <2>3. QED
    BY <2>1, <2>2
<1>6. ASSUME NEW j \in Jobs, NEW w \in Workers,
             Complete(j, w) \/ Renew(j, w) \/ SetProgress(j, w)
      PROVE  Goal
  BY <1>6 DEF Complete, Renew, SetProgress
<1>7. ASSUME NEW j \in Jobs, NEW w \in Workers,
             Rendered(j, w) \/ Fail(j, w) \/ FailPermanently(j, w)
      PROVE  Goal
  <2>1. CASE j = k
    <3>1. AfterLostAttempt(attemptCount[k]) \in {"pending", "failed"}
      BY <1>t, AfterLostAttemptFacts
    <3>2. QED
      BY <1>t, <1>7, <2>1, <3>1 DEF Rendered, Fail, FailPermanently, ReleaseLease, HeldStates
  <2>2. CASE j # k
    BY <1>t, <1>7, <2>2 DEF Rendered, Fail, FailPermanently, ReleaseLease
  <2>3. QED
    BY <2>1, <2>2
<1>8. ASSUME NEW S \in SUBSET Jobs, RequeueExpired(S)
      PROVE  Goal
  <2>1. k \notin S
    BY <1>8 DEF RequeueExpired, Expired
  <2>2. QED
    BY <1>8, <2>1 DEF RequeueExpired
<1>9. QED
  BY <1>1, <1>2, <1>3, <1>4, <1>5, <1>6, <1>7, <1>8 DEF Next

(* A live lease keeps everybody else off the job, for every number of jobs   *)
(* and workers; what ends it is its holder, a cancel, or the finalization of *)
(* an anchor.                                                                *)
THEOREM ExclusiveCorrect == Spec => LiveLeaseIsExclusive
<1>1. IInv /\ [Next]_vars =>
        [\A j \in Jobs :
           /\ state[j] \in HeldStates
           /\ lease[j] = "live"
           /\ currentWorker'[j] # currentWorker[j]
           => \/ currentWorker'[j] = None /\ state'[j] \notin HeldStates
                 /\ \A n \in 1..Len(attempts[j]) :
                      attempts'[j][n].status = "lease_expired" =>
                        attempts[j][n].status = "lease_expired"
              \/ HasChildren(j) /\ state[j] = "running"
                   /\ state'[j] = "finalizing"]_vars
  <2> SUFFICES ASSUME IInv, Next, NEW j \in Jobs,
                      state[j] \in HeldStates, lease[j] = "live",
                      currentWorker'[j] # currentWorker[j]
               PROVE  \/ currentWorker'[j] = None /\ state'[j] \notin HeldStates
                         /\ \A n \in 1..Len(attempts[j]) :
                              attempts'[j][n].status = "lease_expired" =>
                                attempts[j][n].status = "lease_expired"
                      \/ HasChildren(j) /\ state[j] = "running"
                           /\ state'[j] = "finalizing"
    OBVIOUS
  <2>1. \A n \in 1..Len(attempts[j]) :
          attempts'[j][n].status = "lease_expired" =>
            attempts[j][n].status = "lease_expired"
    BY RowsStep
  <2>2. QED
    BY <2>1, HolderStep
<1>2. QED
  BY <1>1, InductiveInvariant, PTL DEF Spec, LiveLeaseIsExclusive

-----------------------------------------------------------------------------
(* The store implements the life cycle of JobLifecycle: a step of the store  *)
(* moves each job along one arc of its life cycle, or leaves it where it is; *)
(* the arcs are read off the columns of its row.                             *)

(* A job that was never submitted has no attempt and no artifact. *)
Fresh(k) == state[k] = "absent" => attemptCount[k] = 0 /\ artifact[k] = FALSE

Keeps(k) == attemptCount'[k] = attemptCount[k] /\ artifact'[k] = artifact[k]

(* What a step of the store may do to the columns of one row. *)
Arc(k) ==
  \/ state[k] = "absent" /\ state'[k] = "pending" /\ Keeps(k)
  \/ /\ state[k] \in ClaimableStates /\ state'[k] = "running"
     /\ attemptCount'[k] = attemptCount[k] + 1 /\ artifact'[k] = artifact[k]
  \/ state[k] \in {"pending", "running"} /\ state'[k] = "finalizing" /\ Keeps(k)
  \/ /\ state[k] \in HeldStates
     /\ state'[k] = AfterLostAttempt(attemptCount[k]) /\ Keeps(k)
  \/ state[k] \in HeldStates /\ state'[k] = "failed" /\ Keeps(k)
  \/ /\ state[k] \in HeldStates /\ state'[k] \in {"rendered", "completed"}
     /\ attemptCount'[k] = attemptCount[k] /\ artifact'[k] = TRUE
  \/ /\ state[k] \in ClaimableStates \cup HeldStates /\ state'[k] = "cancelled"
     /\ Keeps(k)
  \/ state[k] = "failed" /\ state'[k] = "pending" /\ Keeps(k)
  \/ k \in Corrupt /\ state[k] # "absent" /\ state'[k] = "failed" /\ Keeps(k)
  \/ state'[k] = state[k] /\ currentWorker'[k] = currentWorker[k] /\ Keeps(k)

(* Every arc of a row is an arc of the life cycle. *)
LEMMA JobArcs ==
  ASSUME NEW k \in Jobs, TypeOK, TypeOK', RowInv(k), RowInv(k)', Fresh(k), Arc(k)
  PROVE  Lifecycle!JobStep(k)
<1>1. currentWorker[k] \in Workers \cup {None} /\ currentWorker'[k] \in Workers \cup {None}
      /\ attemptCount[k] \in Nat /\ state[k] \in States /\ state'[k] \in States
  BY DEF TypeOK
<1>2. state'[k] \in HeldStates => currentWorker'[k] \in Workers
  BY DEF RowInv, RowLease
<1>3. /\ AfterLostAttempt(attemptCount[k]) \in {"pending", "failed"}
      /\ MaxAttempts > 0 /\ attemptCount[k] >= MaxAttempts =>
           AfterLostAttempt(attemptCount[k]) = "failed"
  BY <1>1, AfterLostAttemptFacts
<1>4. MaxAttempts \in Nat
  BY ConstantsAssumption
<1> USE DEF Lifecycle!JobStep, Lifecycle!Becomes, PhaseOf, HolderOf, HeldStates,
            ClaimableStates, Keeps
<1>5. CASE state[k] = "absent" /\ state'[k] = "pending" /\ Keeps(k)
  BY <1>5 DEF Lifecycle!Accept, Fresh
<1>6. CASE /\ state[k] \in ClaimableStates /\ state'[k] = "running"
           /\ attemptCount'[k] = attemptCount[k] + 1 /\ artifact'[k] = artifact[k]
  BY <1>2, <1>6 DEF Lifecycle!Start
<1>7. CASE state[k] \in {"pending", "running"} /\ state'[k] = "finalizing" /\ Keeps(k)
  BY <1>2, <1>7 DEF Lifecycle!Assemble
<1>8. CASE /\ state[k] \in HeldStates
           /\ state'[k] = AfterLostAttempt(attemptCount[k]) /\ Keeps(k)
  BY <1>1, <1>3, <1>4, <1>8 DEF Lifecycle!GiveBack, Lifecycle!GiveUp
<1>9. CASE state[k] \in HeldStates /\ state'[k] = "failed" /\ Keeps(k)
  BY <1>9 DEF Lifecycle!GiveUp
<1>10. CASE /\ state[k] \in HeldStates /\ state'[k] \in {"rendered", "completed"}
            /\ attemptCount'[k] = attemptCount[k] /\ artifact'[k] = TRUE
  BY <1>10 DEF Lifecycle!Park, Lifecycle!Finish
<1>11. CASE /\ state[k] \in ClaimableStates \cup HeldStates /\ state'[k] = "cancelled"
            /\ Keeps(k)
  BY <1>11 DEF Lifecycle!Withdraw
<1>12. CASE state[k] = "failed" /\ state'[k] = "pending" /\ Keeps(k)
  BY <1>12 DEF Lifecycle!Reopen
<1>13. CASE k \in Corrupt /\ state[k] # "absent" /\ state'[k] = "failed" /\ Keeps(k)
  BY <1>1, <1>13 DEF Lifecycle!Poison, States
<1>14. CASE state'[k] = state[k] /\ currentWorker'[k] = currentWorker[k] /\ Keeps(k)
  BY <1>14 DEF Lifecycle!Stay
<1>15. QED
  BY <1>5, <1>6, <1>7, <1>8, <1>9, <1>10, <1>11, <1>12, <1>13, <1>14 DEF Arc

(* Every operation moves every row along one of the arcs. *)
LEMMA StepArcs == IInv /\ Next => \A k \in Jobs : Arc(k)
<1> SUFFICES ASSUME IInv, Next, NEW k \in Jobs PROVE Arc(k)
  OBVIOUS
<1>0. /\ state = [j \in Jobs |-> state[j]]
      /\ currentWorker = [j \in Jobs |-> currentWorker[j]]
      /\ attemptCount = [j \in Jobs |-> attemptCount[j]]
      /\ artifact = [j \in Jobs |-> artifact[j]]
      /\ state[k] \in States
  BY DEF IInv, TypeOK
<1>p. k \in Corrupt => state[k] \in {"absent", "pending", "failed", "cancelled"}
  BY DEF IInv, RowInv, RowCancel
<1> USE DEF Keeps, HeldStates, ClaimableStates
<1>1. ASSUME NEW j \in Jobs, Submit(j) PROVE Arc(k)
  BY <1>0, <1>1 DEF Submit, Arc, history
<1>2. ASSUME NEW S \in SUBSET Jobs, SubmitBatch(S) PROVE Arc(k)
  BY <1>0, <1>2 DEF SubmitBatch, Arc, history
<1>3. ASSUME NEW j \in Jobs, Cancel(j) PROVE Arc(k)
  BY <1>0, <1>3 DEF Cancel, ReleaseLease, Arc, TerminalStates, States
<1>4. ASSUME NEW j \in Jobs, Retry(j) PROVE Arc(k)
  BY <1>0, <1>4 DEF Retry, ReleaseLease, Arc
<1>5. ASSUME NEW j \in Jobs, NEW w \in Workers, ClaimState(j, w) PROVE Arc(k)
  <2>1. AttemptNumber(j) = attemptCount[j] + 1
    BY CreatedFacts DEF IInv, RowInv
  <2>2. QED
    BY <1>0, <1>5, <2>1 DEF ClaimState, Eligible, Arc
<1>6. ASSUME NEW j \in Jobs, PoisonCorruptClaim(j) PROVE Arc(k)
  BY <1>0, <1>6 DEF PoisonCorruptClaim, Eligible, ReleaseLease, Arc, history
<1>7. ASSUME NEW j \in Jobs, PoisonCorruptRead(j) PROVE Arc(k)
  BY <1>0, <1>7 DEF PoisonCorruptRead, ReleaseLease, Arc, history
<1>8. ASSUME NEW j \in Jobs, NEW w \in Workers, ClaimFinalization(j, w) PROVE Arc(k)
  BY <1>0, <1>8 DEF ClaimFinalization, ReleaseLease, Arc, history
<1>9. ASSUME NEW j \in Jobs, NEW w \in Workers, Complete(j, w) PROVE Arc(k)
  BY <1>0, <1>9 DEF Complete, Owns, Arc, history
<1>10. ASSUME NEW j \in Jobs, NEW w \in Workers, Rendered(j, w) PROVE Arc(k)
  BY <1>0, <1>10 DEF Rendered, Owns, ReleaseLease, Arc, history
<1>11. ASSUME NEW j \in Jobs, NEW w \in Workers, Fail(j, w) PROVE Arc(k)
  BY <1>0, <1>11 DEF Fail, Owns, ReleaseLease, Arc, history
<1>12. ASSUME NEW j \in Jobs, NEW w \in Workers, FailPermanently(j, w) PROVE Arc(k)
  BY <1>0, <1>12 DEF FailPermanently, Owns, ReleaseLease, Arc, history
<1>13. ASSUME NEW j \in Jobs, NEW w \in Workers, Renew(j, w) \/ SetProgress(j, w)
       PROVE  Arc(k)
  BY <1>0, <1>13 DEF Renew, SetProgress, Arc, history
<1>14. ASSUME NEW j \in Jobs, LeaseElapses(j) \/ NotBeforePasses(j) PROVE Arc(k)
  BY <1>0, <1>14 DEF LeaseElapses, NotBeforePasses, Arc, history
<1>15. ASSUME NEW S \in SUBSET Jobs, RequeueExpired(S) PROVE Arc(k)
  BY <1>0, <1>15 DEF RequeueExpired, Expired, SweptStates, Arc, history
<1>16. QED
  BY <1>1, <1>2, <1>3, <1>4, <1>5, <1>6, <1>7, <1>8, <1>9, <1>10, <1>11, <1>12,
     <1>13, <1>14, <1>15 DEF Next

(* A row is as good as absent until it is inserted. *)
LEMMA FreshInvariant == Spec => [](\A k \in Jobs : Fresh(k))
<1>1. Init => \A k \in Jobs : Fresh(k)
  BY DEF Init, Fresh
<1>2. IInv /\ (\A k \in Jobs : Fresh(k)) /\ [Next]_vars => (\A k \in Jobs : Fresh(k))'
  <2> SUFFICES ASSUME IInv, \A k \in Jobs : Fresh(k), [Next]_vars, NEW k \in Jobs
               PROVE  Fresh(k)'
    OBVIOUS
  <2>1. CASE Next
    <3>1. Arc(k) /\ Fresh(k) /\ attemptCount[k] \in Nat
      BY <2>1, StepArcs DEF IInv, TypeOK
    <3>2. AfterLostAttempt(attemptCount[k]) # "absent"
      BY <3>1, AfterLostAttemptFacts
    <3>3. QED
      BY <3>1, <3>2 DEF Arc, Fresh, Keeps, HeldStates, ClaimableStates
  <2>2. CASE UNCHANGED vars
    BY <2>2 DEF vars, Fresh
  <2>3. QED
    BY <2>1, <2>2
<1>3. QED
  BY <1>1, <1>2, InductiveInvariant, PTL DEF Spec

(* The PostgreSQL store implements the life cycle of JobLifecycle for every  *)
(* number of jobs, workers and attempts.                                     *)
THEOREM LifecycleCorrect == Spec => ImplementsLifecycle
<1>1. Init => Lifecycle!Init
  BY DEF Init, Lifecycle!Init, PhaseOf, HolderOf, ClaimableStates, HeldStates
<1>2. IInv /\ IInv' /\ (\A k \in Jobs : Fresh(k)) /\ [Next]_vars
        => [Lifecycle!Next]_(Lifecycle!vars)
  <2> SUFFICES ASSUME IInv, IInv', \A k \in Jobs : Fresh(k), [Next]_vars
               PROVE  [Lifecycle!Next]_(Lifecycle!vars)
    OBVIOUS
  <2>1. CASE Next
    <3>1. ASSUME NEW k \in Jobs PROVE Lifecycle!JobStep(k)
      BY <2>1, <3>1, StepArcs, JobArcs DEF IInv
    <3>2. QED
      BY <3>1 DEF Lifecycle!Next
  <2>2. CASE UNCHANGED vars
    BY <2>2 DEF vars, Lifecycle!vars, PhaseOf, HolderOf
  <2>3. QED
    BY <2>1, <2>2
<1>3. QED
  BY <1>1, <1>2, InductiveInvariant, FreshInvariant, PTL
  DEF Spec, ImplementsLifecycle, Lifecycle!Spec
=============================================================================
