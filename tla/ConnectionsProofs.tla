---------------------------- MODULE ConnectionsProofs ----------------------------
(***************************************************************************)
(* Proofs about the long connections, for any number of jobs, requests,    *)
(* channels, signals and uploads and any length of output: the notifier of *)
(* the long polls is sound, and the streaming upload stores what was read. *)
(***************************************************************************)
EXTENDS MCConnections, FiniteSetTheorems, SequenceTheorems, WellFoundedInduction, TLAPS

-----------------------------------------------------------------------------
(* The long polls.                                                           *)
(*                                                                           *)
(* NotifierSound is not inductive: that a parked request's channel is queued *)
(* or closed survives the Forget of another request only because no two      *)
(* requests share a channel, and that a queue of distinct channels stays one *)
(* needs the positions, not the cardinality.                                 *)

Places == {"idle", "empty", "parked", "seen", "reading"}

\* The notifier's half: a queue of distinct open channels, which present mirrors.
QueueInv ==
  /\ queue \in Seq(Chans)
  /\ \A i, k \in 1..Len(queue) : queue[i] = queue[k] => i = k
  /\ present = Queued
  /\ closed \cap Queued = {}

\* The requests' half: a channel has one reader, which is parked on it only while a
\* wake can still come or has come.
ReadersInv ==
  /\ pc \in [Requests -> Places]
  /\ wake \in [Requests -> Chans \cup {0}]
  /\ \A r, q \in Requests : wake[r] # 0 /\ wake[r] = wake[q] => r = q
  /\ \A r \in Requests : pc[r] \in {"parked", "reading"} =>
       wake[r] # 0 /\ wake[r] \in Queued \cup closed

PollInv == QueueInv /\ ReadersInv

-----------------------------------------------------------------------------
(* The operations of the notifier *)

\* The smallest of a set of naturals, which Done and CHOOSE need.
LEMMA LeastExists ==
  ASSUME NEW S \in SUBSET Nat, S # {}
  PROVE  \E x \in S : \A y \in S : x <= y
<1>1. PICK x \in S : \A y \in S : ~(<<y, x>> \in OpToRel(<, Nat))
  BY NatLessThanWellFounded, WFMin
<1>2. \A y \in S : ~(y < x)
  BY <1>1 DEF OpToRel
<1> QED
  BY <1>2

\* What follows a position of a sequence.
LEMMA RestOf ==
  ASSUME NEW S, NEW s \in Seq(S), NEW i \in 1..Len(s)
  PROVE  /\ SubSeq(s, i + 1, Len(s)) \in Seq(S) /\ Len(SubSeq(s, i + 1, Len(s))) = Len(s) - i
         /\ \A k \in 1..(Len(s) - i) : SubSeq(s, i + 1, Len(s))[k] = s[i + k]
OBVIOUS

\* Notify closes the head of the queue and nobody else's channel is lost.
LEMMA NotifyKeeps ==
  ASSUME QueueInv, Notify
  PROVE  QueueInv' /\ Queued \cup closed \subseteq Queued' \cup closed'
<1> DEFINE live == {i \in 1..Len(queue) : queue[i] \in present}
<1>1. live = 1..Len(queue) /\ Len(queue) \in Nat
  BY DEF QueueInv, Queued
<1>2. CASE live = {}
  <2>1. queue' = <<>> /\ present' = present /\ closed' = closed
    BY <1>2 DEF Notify
  <2>2. Len(queue) = 0
    BY <1>1, <1>2
  <2>3. Queued = {} /\ Queued' = {}
    BY <2>1, <2>2 DEF Queued
  <2> QED
    BY <2>1, <2>3 DEF QueueInv
<1>3. CASE live # {}
  <2> DEFINE h == CHOOSE i \in live : \A k \in live : i <= k
  <2>1. h = 1 /\ Len(queue) >= 1
    BY <1>1, <1>3
  <2>2. /\ queue' = SubSeq(queue, 1 + 1, Len(queue))
        /\ present' = present \ {queue[1]}
        /\ closed' = closed \cup {queue[1]}
    <3> HIDE DEF h
    <3>1. /\ queue' = SubSeq(queue, h + 1, Len(queue))
          /\ present' = present \ {queue[h]}
          /\ closed' = closed \cup {queue[h]}
      BY <1>3 DEF Notify, h
    <3> QED
      BY <2>1, <3>1
  <2>3. /\ queue' \in Seq(Chans) /\ Len(queue') = Len(queue) - 1
        /\ \A i \in 1..Len(queue') : queue'[i] = queue[i + 1]
    <3>1. queue \in Seq(Chans) /\ Len(queue) \in Nat /\ 1 \in 1..Len(queue)
      BY <1>1, <2>1 DEF QueueInv
    <3> DEFINE t == SubSeq(queue, 1 + 1, Len(queue))
    <3>2. /\ t \in Seq(Chans) /\ Len(t) = Len(queue) - 1
          /\ \A i \in 1..(Len(queue) - 1) : t[i] = queue[1 + i]
      BY <3>1, RestOf
    <3>3. queue' = t
      BY <2>2
    <3> HIDE DEF t
    <3> QED
      BY <3>1, <3>2, <3>3
  <2>4. Queued' = Queued \ {queue[1]}
    <3>1. \A c \in Queued' : c \in Queued /\ c # queue[1]
      BY <1>1, <2>1, <2>3 DEF Queued, QueueInv
    <3>2. ASSUME NEW c \in Queued, c # queue[1] PROVE c \in Queued'
      <4>1. PICK i \in 1..Len(queue) : c = queue[i]
        BY DEF Queued
      <4>2. i - 1 \in 1..Len(queue') /\ queue'[i - 1] = c
        BY <1>1, <2>1, <2>3, <3>2, <4>1
      <4> QED
        BY <4>2 DEF Queued
    <3> QED
      BY <3>1, <3>2
  <2>5. \A i, k \in 1..Len(queue') : queue'[i] = queue'[k] => i = k
    BY <1>1, <2>3 DEF QueueInv
  <2> QED
    BY <2>2, <2>3, <2>4, <2>5 DEF QueueInv
<1> QED
  BY <1>2, <1>3

\* Broadcast closes every queued channel.
LEMMA BroadcastKeeps ==
  ASSUME QueueInv, Broadcast
  PROVE  QueueInv' /\ Queued \cup closed \subseteq Queued' \cup closed'
<1>1. Queued' = {} /\ queue' = <<>> /\ Len(queue') = 0
  BY DEF Broadcast, Queued
<1> QED
  BY <1>1 DEF QueueInv, Broadcast

\* The channel Done hands out is nobody's.
LEMMA DoneTakesFree ==
  ASSUME NEW r \in Requests, QueueInv, ReadersInv, Done(r)
  PROVE  \E c \in FreeChans :
           /\ queue' = Append(queue, c) /\ present' = present \cup {c}
           /\ closed' = closed \ {c} /\ wake' = [wake EXCEPT ![r] = c]
<1> DEFINE c == CHOOSE x \in FreeChans : \A d \in FreeChans : x <= d
<1>1. FreeChans \in SUBSET Nat /\ FreeChans # {}
  BY LongPollAssumption DEF Done, FreeChans, Chans
<1>2. c \in FreeChans
  BY <1>1, LeastExists
<1> HIDE DEF c
<1>3. /\ queue' = Append(queue, c) /\ present' = present \cup {c}
      /\ closed' = closed \ {c} /\ wake' = [wake EXCEPT ![r] = c]
  BY DEF Done, c
<1> QED
  BY <1>2, <1>3

\* A request parks on a fresh channel.
LEMMA DoneKeeps ==
  ASSUME NEW r \in Requests, NEW p \in Places, QueueInv, ReadersInv, Done(r),
         pc' = [pc EXCEPT ![r] = p]
  PROVE  QueueInv' /\ ReadersInv'
<1>1. PICK c \in FreeChans :
           /\ queue' = Append(queue, c) /\ present' = present \cup {c}
           /\ closed' = closed \ {c} /\ wake' = [wake EXCEPT ![r] = c]
  BY DoneTakesFree
<1>2. c \in Chans /\ c \notin Queued /\ c # 0 /\ \A q \in Requests : wake[q] # c
  BY LongPollAssumption DEF FreeChans, Chans
<1>3. queue \in Seq(Chans)
  BY DEF QueueInv
<1>4. /\ queue' \in Seq(Chans) /\ Len(queue') = Len(queue) + 1 /\ Len(queue) \in Nat
      /\ \A i \in 1..Len(queue) : queue'[i] = queue[i]
      /\ queue'[Len(queue) + 1] = c
  BY <1>1, <1>2, <1>3
<1>5. Queued' = Queued \cup {c}
  BY <1>4 DEF Queued
<1>6. \A i, k \in 1..Len(queue') : queue'[i] = queue'[k] => i = k
  BY <1>2, <1>4 DEF QueueInv, Queued
<1>7. QueueInv'
  BY <1>1, <1>4, <1>5, <1>6 DEF QueueInv
<1>8. wake' \in [Requests -> Chans \cup {0}] /\ pc' \in [Requests -> Places]
  BY <1>1, <1>2 DEF ReadersInv
<1>9. /\ wake'[r] = c /\ pc'[r] = p
      /\ \A q \in Requests \ {r} : wake'[q] = wake[q] /\ pc'[q] = pc[q]
  BY <1>1 DEF ReadersInv
<1>10. \A q, s \in Requests : wake'[q] # 0 /\ wake'[q] = wake'[s] => q = s
  BY <1>2, <1>9 DEF ReadersInv
<1>11. \A q \in Requests : pc'[q] \in {"parked", "reading"} =>
         wake'[q] # 0 /\ wake'[q] \in Queued' \cup closed'
  BY <1>1, <1>2, <1>5, <1>9 DEF ReadersInv
<1> QED
  BY <1>7, <1>8, <1>10, <1>11 DEF ReadersInv

\* What is left when the i-th channel of the queue is cut out.
LEMMA CutOut ==
  ASSUME NEW i \in 1..Len(queue), QueueInv, queue' = Without(i)
  PROVE  /\ queue' \in Seq(Chans) /\ Queued' = Queued \ {queue[i]}
         /\ \A j, k \in 1..Len(queue') : queue'[j] = queue'[k] => j = k
<1>1. queue \in Seq(Chans) /\ Len(queue) \in Nat
  BY DEF QueueInv
<1>2. /\ SubSeq(queue, 1, i - 1) \in Seq(Chans) /\ Len(SubSeq(queue, 1, i - 1)) = i - 1
      /\ \A k \in 1..(i - 1) : SubSeq(queue, 1, i - 1)[k] = queue[k]
  BY <1>1
<1>3. /\ SubSeq(queue, i + 1, Len(queue)) \in Seq(Chans)
      /\ Len(SubSeq(queue, i + 1, Len(queue))) = Len(queue) - i
      /\ \A k \in 1..(Len(queue) - i) : SubSeq(queue, i + 1, Len(queue))[k] = queue[i + k]
  BY <1>1, RestOf
<1>4. /\ queue' \in Seq(Chans) /\ Len(queue') = Len(queue) - 1
      /\ \A k \in 1..(i - 1) : queue'[k] = queue[k]
      /\ \A k \in i..(Len(queue) - 1) : queue'[k] = queue[k + 1]
  <2> DEFINE a == SubSeq(queue, 1, i - 1)
             b == SubSeq(queue, i + 1, Len(queue))
  <2>1. queue' = a \o b
    BY DEF Without
  <2>2. a \in Seq(Chans) /\ b \in Seq(Chans) /\ Len(a) = i - 1 /\ Len(b) = Len(queue) - i
    BY <1>2, <1>3
  <2>3. /\ \A k \in 1..(i - 1) : a[k] = queue[k]
        /\ \A k \in 1..(Len(queue) - i) : b[k] = queue[i + k]
    BY <1>2, <1>3
  <2> HIDE DEF a, b
  <2>4. a \o b \in Seq(Chans) /\ Len(a \o b) = Len(a) + Len(b)
    BY <2>2
  <2>5. \A k \in 1..(i - 1) : (a \o b)[k] = queue[k]
    BY <1>1, <2>2, <2>3, <2>4
  <2>6. ASSUME NEW k \in i..(Len(queue) - 1) PROVE (a \o b)[k] = queue[k + 1]
    <3>1. k - Len(a) \in 1..Len(b) /\ k \in Len(a) + 1 .. Len(a) + Len(b) /\ i + (k - Len(a)) = k + 1
      BY <1>1, <2>2
    <3>2. (a \o b)[k] = b[k - Len(a)]
      BY <2>2, <3>1, ConcatProperties
    <3> QED
      BY <1>1, <2>2, <2>3, <3>1, <3>2
  <2> QED
    BY <1>1, <2>1, <2>2, <2>4, <2>5, <2>6
<1>5. \A j, k \in 1..Len(queue') : queue'[j] = queue'[k] => j = k
  <2> SUFFICES ASSUME NEW j \in 1..Len(queue'), NEW k \in 1..Len(queue'), queue'[j] = queue'[k]
               PROVE  j = k
    OBVIOUS
  <2> DEFINE old(n) == IF n < i THEN n ELSE n + 1
  <2>1. queue'[j] = queue[old(j)] /\ queue'[k] = queue[old(k)]
    BY <1>1, <1>4
  <2>2. old(j) \in 1..Len(queue) /\ old(k) \in 1..Len(queue)
    BY <1>1, <1>4
  <2>3. old(j) = old(k)
    BY <2>1, <2>2 DEF QueueInv
  <2> QED
    BY <1>1, <1>4, <2>3
<1>6. Queued' = Queued \ {queue[i]}
  <2>1. ASSUME NEW d \in Queued' PROVE d \in Queued /\ d # queue[i]
    <3>1. PICK k \in 1..Len(queue') : d = queue'[k]
      BY DEF Queued
    <3>2. CASE k < i
      <4>1. d = queue[k] /\ k \in 1..Len(queue) /\ k # i
        BY <1>1, <1>4, <3>1, <3>2
      <4> QED
        BY <4>1 DEF Queued, QueueInv
    <3>3. CASE k >= i
      <4>1. d = queue[k + 1] /\ k + 1 \in 1..Len(queue) /\ k + 1 # i
        BY <1>1, <1>4, <3>1, <3>3
      <4> QED
        BY <4>1 DEF Queued, QueueInv
    <3> QED
      BY <1>1, <1>4, <3>2, <3>3
  <2>2. ASSUME NEW d \in Queued, d # queue[i] PROVE d \in Queued'
    <3>1. PICK k \in 1..Len(queue) : d = queue[k]
      BY DEF Queued
    <3>2. CASE k < i
      <4>1. d = queue'[k] /\ k \in 1..Len(queue')
        BY <1>1, <1>4, <3>1, <3>2
      <4> QED
        BY <4>1 DEF Queued
    <3>3. CASE k > i
      <4>1. d = queue'[k - 1] /\ k - 1 \in 1..Len(queue')
        BY <1>1, <1>4, <3>1, <3>3
      <4> QED
        BY <4>1 DEF Queued
    <3> QED
      BY <1>1, <2>2, <3>1, <3>2, <3>3
  <2> QED
    BY <2>1, <2>2
<1> QED
  BY <1>4, <1>5, <1>6

\* A request that leaves takes its own channel along and nobody else's.
LEMMA ForgetKeeps ==
  ASSUME NEW r \in Requests, QueueInv, ReadersInv, pc[r] = "parked", Forget(wake[r]), Returns(r)
  PROVE  QueueInv' /\ ReadersInv'
<1> DEFINE c == wake[r]
<1>1. present' = present \ {c} /\ closed' = closed /\ c # 0
  BY DEF Forget, ReadersInv
<1>2. /\ queue' \in Seq(Chans) /\ Queued' = Queued \ {c}
      /\ \A j, k \in 1..Len(queue') : queue'[j] = queue'[k] => j = k
  <2>1. CASE c \notin Queued /\ queue' = queue
    BY <2>1 DEF QueueInv, Queued
  <2>2. ASSUME NEW i \in 1..Len(queue), queue[i] = c, queue' = Without(i)
        PROVE  <1>2!:
    BY <2>2, CutOut
  <2> QED
    BY <2>1, <2>2 DEF Forget
<1>3. QueueInv'
  BY <1>1, <1>2 DEF QueueInv
<1>4. /\ pc' \in [Requests -> Places] /\ wake' \in [Requests -> Chans \cup {0}]
      /\ wake'[r] = 0 /\ pc'[r] = "idle"
      /\ \A q \in Requests \ {r} : wake'[q] = wake[q] /\ pc'[q] = pc[q]
  BY DEF Returns, ReadersInv, Places
<1>5. \A q, s \in Requests : wake'[q] # 0 /\ wake'[q] = wake'[s] => q = s
  BY <1>4 DEF ReadersInv
<1>6. \A q \in Requests : pc'[q] \in {"parked", "reading"} =>
        wake'[q] # 0 /\ wake'[q] \in Queued' \cup closed'
  BY <1>1, <1>2, <1>4 DEF ReadersInv
<1> QED
  BY <1>3, <1>4, <1>5, <1>6 DEF ReadersInv

\* What the requests know survives whatever keeps every channel queued or closed.
LEMMA ReadersKeep ==
  ASSUME ReadersInv, UNCHANGED <<pc, wake>>, Queued \cup closed \subseteq Queued' \cup closed'
  PROVE  ReadersInv'
BY DEF ReadersInv

\* A request moves on without touching the notifier; it may drop its channel.
LEMMA MoveOn ==
  ASSUME NEW r \in Requests, NEW p \in Places, QueueInv, ReadersInv, UNCHANGED notifier,
         pc' = [pc EXCEPT ![r] = p],
         \/ wake' = wake /\ (p \in {"parked", "reading"} => pc[r] \in {"parked", "reading"})
         \/ wake' = [wake EXCEPT ![r] = 0] /\ p = "idle"
  PROVE  QueueInv' /\ ReadersInv'
<1>1. queue' = queue /\ present' = present /\ closed' = closed /\ Queued' = Queued
  BY DEF notifier, Queued
<1>2. QueueInv'
  BY <1>1 DEF QueueInv
<1>3. /\ pc' \in [Requests -> Places] /\ wake' \in [Requests -> Chans \cup {0}] /\ pc'[r] = p
      /\ \A q \in Requests \ {r} : wake'[q] = wake[q] /\ pc'[q] = pc[q]
  BY DEF ReadersInv
<1>4. CASE wake' = wake /\ (p \in {"parked", "reading"} => pc[r] \in {"parked", "reading"})
  BY <1>1, <1>2, <1>3, <1>4 DEF ReadersInv
<1>5. CASE wake' = [wake EXCEPT ![r] = 0] /\ p = "idle"
  <2>1. wake'[r] = 0
    BY <1>5 DEF ReadersInv
  <2> QED
    BY <1>1, <1>2, <1>3, <1>5, <2>1 DEF ReadersInv
<1> QED
  BY <1>4, <1>5

-----------------------------------------------------------------------------
\* Before the first request nothing is parked.
LEMMA PollInvInit == PollInit => PollInv
<1> SUFFICES ASSUME PollInit PROVE PollInv
  OBVIOUS
<1>1. Queued = {} /\ queue \in Seq(Chans) /\ Len(queue) = 0
  BY DEF PollInit, Queued
<1>2. QueueInv
  BY <1>1 DEF PollInit, QueueInv
<1>3. ReadersInv
  BY DEF PollInit, ReadersInv, Places
<1> QED
  BY <1>2, <1>3 DEF PollInv

\* One step of the store, the notifier or a request keeps both halves.
LEMMA PollInvStep == PollInv /\ [PollNext]_pollVars => PollInv'
<1> SUFFICES ASSUME QueueInv, ReadersInv, [PollNext]_pollVars
             PROVE  QueueInv' /\ ReadersInv'
  BY DEF PollInv
\* The store moves and the notifier does not.
<1>1. CASE UNCHANGED <<notifier, pc, wake>>
  <2>1. Queued' = Queued
    BY <1>1 DEF notifier, Queued
  <2> QED
    BY <1>1, <2>1, ReadersKeep DEF notifier, QueueInv
<1>2. CASE Notify /\ UNCHANGED <<pc, wake>>
  BY <1>2, NotifyKeeps, ReadersKeep
<1>3. CASE Broadcast /\ UNCHANGED <<pc, wake>>
  BY <1>3, BroadcastKeeps, ReadersKeep
<1>4. ASSUME NEW c \in Claimers,
             \/ FindsNothing(c) \/ ParkClaim(c) \/ WokenClaims(c) \/ WokenInVain(c)
             \/ PollClaims(c) \/ LeaveClaim(c)
      PROVE  QueueInv' /\ ReadersInv'
  <2> c \in Requests
    BY DEF Requests
  <2>1. CASE FindsNothing(c)
    BY <2>1, MoveOn DEF FindsNothing, Places
  <2>2. CASE ParkClaim(c)
    BY <2>2, DoneKeeps DEF ParkClaim, Places
  <2>3. CASE WokenClaims(c)
    BY <2>3, MoveOn DEF WokenClaims, Returns, Places
  <2>4. CASE WokenInVain(c)
    BY <2>4, MoveOn DEF WokenInVain, Places
  <2>5. CASE PollClaims(c)
    BY <2>5, ForgetKeeps DEF PollClaims
  <2>6. CASE LeaveClaim(c)
    BY <2>6, ForgetKeeps DEF LeaveClaim
  <2> QED
    BY <1>4, <2>1, <2>2, <2>3, <2>4, <2>5, <2>6
<1>5. ASSUME NEW p \in Producers,
             \/ StartsWaiting(p) \/ ParkWait(p) \/ WokenReparks(p)
             \/ SeesTheEnd(p) \/ ReadsOn(p) \/ LeaveWait(p)
      PROVE  QueueInv' /\ ReadersInv'
  <2> p \in Requests
    BY DEF Requests
  <2>1. CASE StartsWaiting(p)
    BY <2>1, MoveOn DEF StartsWaiting, Places
  <2>2. CASE ParkWait(p)
    BY <2>2, DoneKeeps DEF ParkWait, Places
  <2>3. CASE WokenReparks(p)
    BY <2>3, DoneKeeps DEF WokenReparks, Places
  <2>4. CASE SeesTheEnd(p)
    BY <2>4, MoveOn DEF SeesTheEnd, Returns, Places
  <2>5. CASE ReadsOn(p)
    BY <2>5, MoveOn DEF ReadsOn, Places
  <2>6. CASE LeaveWait(p)
    BY <2>6, MoveOn DEF LeaveWait, Returns, Places
  <2> QED
    BY <1>5, <2>1, <2>2, <2>3, <2>4, <2>5, <2>6
<1> QED
  <2>1. CASE UNCHANGED pollVars
    BY <1>1, <2>1 DEF pollVars
  <2>2. ASSUME NEW j \in Jobs, \/ Submit(j) \/ GiveBack(j) \/ GiveUp(j) \/ Cancel(j)
                               \/ Retry(j) \/ Complete(j) \/ ClaimFinalization(j)
        PROVE  UNCHANGED <<notifier, pc, wake>>
    BY <2>2 DEF Submit, GiveBack, GiveUp, Cancel, Retry, Moves, Complete, ClaimFinalization
  <2>3. ASSUME NEW S \in SUBSET Jobs, SubmitBatch(S) PROVE UNCHANGED <<notifier, pc, wake>>
    BY <2>3 DEF SubmitBatch
  <2>4. ASSUME NEW S \in SUBSET Jobs, NEW F \in SUBSET Jobs, RequeueExpired(S, F)
        PROVE  UNCHANGED <<notifier, pc, wake>>
    BY <2>4 DEF RequeueExpired
  <2>5. DeliverNotify \/ DeliverBridged => Notify /\ UNCHANGED <<pc, wake>>
    BY DEF DeliverNotify, DeliverBridged
  <2>6. DeliverBroadcast => Broadcast /\ UNCHANGED <<pc, wake>>
    BY DEF DeliverBroadcast
  <2>7. ListenBreaks => UNCHANGED <<notifier, pc, wake>>
    BY DEF ListenBreaks
  <2>8. ASSUME NEW c \in Claimers, ClaimNow(c) PROVE UNCHANGED <<notifier, pc, wake>>
    BY <2>8 DEF ClaimNow
  <2> QED
    BY <1>1, <1>2, <1>3, <1>4, <1>5, <2>1, <2>2, <2>3, <2>4, <2>5, <2>6, <2>7, <2>8 DEF PollNext

\* A queue of distinct channels has as many channels as positions.
LEMMA QueueCounts ==
  ASSUME QueueInv
  PROVE  Cardinality(Queued) = Len(queue)
<1> DEFINE f == [i \in 1..Len(queue) |-> queue[i]]
<1>1. Len(queue) \in Nat
  BY DEF QueueInv
<1>2. f \in Injection(1..Len(queue), Queued)
  BY DEF Injection, IsInjective, Queued, QueueInv
<1>3. f \in Surjection(1..Len(queue), Queued)
  BY DEF Surjection, Queued
<1>4. ExistsBijection(1..Len(queue), Queued)
  BY <1>2, <1>3 DEF ExistsBijection, Bijection
<1> QED
  BY <1>1, <1>4, FS_CountingElements

(* The inductive invariant: distinct open channels in the queue, one reader   *)
(* per channel, and no reader parked on a channel that was dropped.          *)
THEOREM PollInvariant == PollSpec => []PollInv
BY PollInvInit, PollInvStep, PTL DEF PollSpec

(* The notifier is sound: its queue holds every waiting channel once and     *)
(* open, present agrees with it, and a parked request has a channel that is  *)
(* queued or has been closed (Notifier.Notify, Broadcast, Done and Forget    *)
(* under WaitAndClaim and WaitState).                                        *)
THEOREM NotifierCorrect == PollSpec => []NotifierSound
<1>1. PollInv => NotifierSound
  <2> SUFFICES ASSUME QueueInv, ReadersInv PROVE NotifierSound
    BY DEF PollInv
  <2>1. Cardinality(Queued) = Len(queue)
    BY QueueCounts
  <2>2. \A r \in Requests : pc[r] = "parked" =>
          wake[r] \in Chans /\ (wake[r] \in Queued \/ Woken(r))
    BY DEF ReadersInv, Woken
  <2> QED
    BY <2>1, <2>2 DEF NotifierSound, QueueInv
<1> QED
  BY <1>1, PollInvariant, PTL

-----------------------------------------------------------------------------
(* The streaming upload, as long as no two uploads share a staging session.  *)

OwnSessions == \A u, v \in Uploads : Session[u] = Session[v] => u = v

\* The phases in which a request's handler may still act on the store.
Serving(u) == handler[u] \notin {"none", "failed"}

\* The session of an upload holds nothing but what the store read of its body,
\* and a finalize that passed the comparison is about those bytes.
SessionInv(u) ==
    /\ pending[Session[u]] \in {NoContent, got[u]}
    /\ recorded[Session[u]] \in {NoContent, got[u]}
    /\ handler[u] = "none" => /\ pending[Session[u]] = NoContent
                              /\ recorded[Session[u]] = NoContent
    /\ handler[u] = "compared" => got[u] = Asserted(u)

\* Where the goroutine is, given the reader's flags and the handler.
ReaderInv(u) ==
    /\ Serving(u) => /\ at[u] \in {"eof", "finalizing", "discard", "done"}
                     /\ reader[u] = "finished"
                     /\ fd[u] # "none"
    /\ at[u] \in {"eof", "finalizing", "discard"} =>
          /\ reader[u] = "finished"
          /\ fd[u] # "none"
    /\ at[u] \in {"eof", "finalizing"} => read[u] = Size(u, fd[u])
    /\ at[u] \in {"finalizing", "discard"} => Serving(u) \/ handler[u] = "failed"
    /\ saw[u] => reader[u] = "finished"
    /\ fd[u] = "none" => read[u] = 0
    /\ fd[u] # "none" => read[u] <= Size(u, fd[u])
    /\ fd[u] = "software" => path[u] = "software"

\* What the lane has done to the reader and to the output path.
LaneInv(u) ==
    /\ reader[u] = "finished" => lane[u] \in {"waiting", "putting", "stored", "failed"}
    /\ lane[u] \in {"waiting", "putting", "stored"} => reader[u] = "finished"
    /\ lane[u] \in {"abandoning", "rejecting", "rejected"} => reader[u] = "aborted"
    /\ lane[u] \in {"post", "rejecting", "waiting", "putting", "stored"} => path[u] # "none"
    /\ lane[u] \in {"idle", "gpu"} /\ written[u] > 0 => path[u] = "gpu"
    /\ lane[u] = "software" => written[u] < Chunks
    /\ path[u] = "software" => /\ lane[u] \notin {"idle", "gpu", "software"}
                               /\ retried[u] = Chunks
                               /\ written[u] < Chunks

\* What has been installed.
InstalledInv(u) ==
    /\ handler[u] = "installed" => objects[Asserted(u)] = Asserted(u)
    /\ ok[u] => at[u] = "done" /\ handler[u] = "installed"
    /\ lane[u] = "stored" => /\ hash[u] = Output(u)
                             /\ objects[Output(u)] = Output(u)

UploadInv(u) == SessionInv(u) /\ ReaderInv(u) /\ LaneInv(u) /\ InstalledInv(u)

\* Only a finished stream or a PUT, which follows one, installs anything.
ObjectsInv ==
    \A k \in Contents : objects[k] # NoContent => objects[k] = k /\ reader[k.of] = "finished"

UInv == TypeOK /\ (\A u \in Uploads : UploadInv(u)) /\ ObjectsInv

-----------------------------------------------------------------------------
\* The contents a step can name are contents of that upload.
LEMMA BytesType ==
    ASSUME NEW u \in Uploads, NEW i \in Inodes, NEW n \in 0 .. Chunks
    PROVE  /\ Bytes(u, i, n) \in Contents
           /\ Content(u, i, n, "corrupt") \in Contents
           /\ Content(u, i, n, "claimed") \in Contents
           /\ Bytes(u, i, n).of = u
BY DEF Bytes, Content, Contents

\* Every step keeps the types: a reader delivers no more than an output has.
LEMMA TypeStep ==
    ASSUME UInv, NEW u \in Uploads,
           \/ StartTailUpload(u) \/ LaneStep(u) \/ LoseLease(u) \/ UploadStep(u)
           \/ ContextCancelled(u) \/ TransportFails(u) \/ StoreStep(u)
    PROVE  TypeOK'
<1> USE UploadAssumptions DEF laneVars, tailVars, requestVars, storeVars, Inodes, LaneStates, TailStates, HandlerStates
<1>0. TypeOK /\ UploadInv(u)
  BY DEF UInv
<1>1. CASE StartTailUpload(u)
  BY <1>0, <1>1 DEF TypeOK, StartTailUpload
<1>2. CASE OutputGrows(u)
  BY <1>0, <1>2 DEF TypeOK, OutputGrows
<1>3. CASE RenderSucceeds(u)
  BY <1>0, <1>3 DEF TypeOK, RenderSucceeds, HandOff
<1>4. CASE RenderFails(u)
  BY <1>0, <1>4 DEF TypeOK, RenderFails, Abandon, AbortReader
<1>5. CASE RetryInSoftware(u)
  <2>1. path' \in [Uploads -> Inodes \cup {"none"}]
    BY <1>0, <1>5 DEF TypeOK, RetryInSoftware
  <2> QED
    BY <1>0, <1>5, <2>1 DEF TypeOK, RetryInSoftware
<1>6. CASE PublishFallback(u)
  <2>1. lane' \in [Uploads -> LaneStates] /\ path' \in [Uploads -> Inodes \cup {"none"}]
    BY <1>0, <1>6 DEF TypeOK, PublishFallback, HandOff, Abandon
  <2>2. cancelled' \in [Uploads -> BOOLEAN]
    BY <1>0, <1>6 DEF TypeOK, PublishFallback, HandOff, Abandon
  <2>3. reader' \in [Uploads -> {"tailing", "finished", "aborted"}]
    BY <1>0, <1>6 DEF TypeOK, PublishFallback, HandOff, Abandon, AbortReader
  <2> QED
    BY <1>0, <1>6, <2>1, <2>2, <2>3 DEF TypeOK, PublishFallback
<1>7. CASE LoseLease(u)
  BY <1>0, <1>7 DEF TypeOK, LoseLease
<1>8. CASE RejectOutput(u)
  BY <1>0, <1>8 DEF TypeOK, RejectOutput, AbortReader
<1>9. CASE Aborted(u)
  BY <1>0, <1>9 DEF TypeOK, Aborted
<1>10. CASE Finish(u)
  <2>1. path[u] \in Inodes
    BY <1>0, <1>10 DEF TypeOK, Finish, UploadInv, ReaderInv, LaneInv, Serving, InstalledInv
  <2>2. Size(u, path[u]) \in 0 .. Chunks
    BY <1>0, <1>10 DEF TypeOK, Finish, Size
  <2>3. Output(u) \in Contents /\ Claimed(u) \in Contents
    BY <1>0, <1>10, <2>1, <2>2, BytesType DEF TypeOK, Finish, Output, Claimed
  <2>4. claim' \in [Uploads -> Contents \cup {NoContent}]
    BY <1>0, <1>10, <2>3 DEF TypeOK, Finish
  <2> QED
    BY <1>0, <1>10, <2>1, <2>2, <2>3, <2>4 DEF TypeOK, Finish
<1>11. CASE Wait(u)
  <2>1. ok[u] => fd[u] \in Inodes
    BY <1>0, <1>11 DEF TypeOK, Wait, UploadInv, ReaderInv, LaneInv, Serving, InstalledInv
  <2>2. ok[u] => Bytes(u, fd[u], read[u]) \in Contents
    BY <1>0, <1>11, <2>1, BytesType DEF TypeOK, Wait
  <2>3. hash' \in [Uploads -> Contents \cup {NoContent}]
    BY <1>0, <1>11, <2>2 DEF TypeOK, Wait
  <2>4. lane' \in [Uploads -> LaneStates]
    BY <1>0, <1>11 DEF TypeOK, Wait
  <2> QED
    BY <1>0, <1>11, <2>1, <2>2, <2>3, <2>4 DEF TypeOK, Wait
<1>12. CASE Put(u)
  <2>1. path[u] \in Inodes
    BY <1>0, <1>12 DEF TypeOK, Put, UploadInv, ReaderInv, LaneInv, Serving, InstalledInv
  <2>2. Size(u, path[u]) \in 0 .. Chunks
    BY <1>0, <1>12 DEF TypeOK, Put, Size
  <2>3. Output(u) \in Contents
    BY <1>0, <1>12, <2>1, <2>2, BytesType DEF TypeOK, Put, Output
  <2>4. PutKey(u) = Output(u)
    BY <1>0, <1>12 DEF TypeOK, Put, Verified
  <2>5. objects' \in [Contents -> Contents \cup {NoContent}]
    BY <1>0, <1>12, <2>3, <2>4 DEF TypeOK, Put
  <2>6. hash' \in [Uploads -> Contents \cup {NoContent}]
    BY <1>0, <1>12, <2>3, <2>4 DEF TypeOK, Put
  <2>7. lane' \in [Uploads -> LaneStates]
    BY <1>0, <1>12 DEF TypeOK, Put
  <2> QED
    BY <1>0, <1>12, <2>1, <2>2, <2>3, <2>4, <2>5, <2>6, <2>7 DEF TypeOK, Put
<1>13. CASE PutFails(u)
  BY <1>0, <1>13 DEF TypeOK, PutFails
<1>14. CASE LookAtFlags(u)
  <2>1. saw' \in [Uploads -> BOOLEAN]
    BY <1>0, <1>14 DEF TypeOK, LookAtFlags
  <2>2. at' \in [Uploads -> TailStates]
    BY <1>0, <1>14 DEF TypeOK, LookAtFlags, Ends
  <2>3. ok' \in [Uploads -> BOOLEAN]
    BY <1>0, <1>14 DEF TypeOK, LookAtFlags, Ends
  <2> QED
    BY <1>0, <1>14, <2>1, <2>2, <2>3 DEF TypeOK, LookAtFlags
<1>15. CASE ReadFile(u)
  <2>1. Opened(u) \in Inodes \cup {"none"}
    BY <1>0, <1>15 DEF TypeOK, ReadFile, Opened
  <2>2. fd' \in [Uploads -> Inodes \cup {"none"}]
    BY <1>0, <1>15, <2>1 DEF TypeOK, ReadFile
  <2>3. More(u) => read[u] + 1 \in 0 .. Chunks
    BY <1>0, <1>15, <2>1 DEF TypeOK, ReadFile, More, Size
  <2>4. read' \in [Uploads -> 0 .. Chunks]
    BY <1>0, <1>15, <2>3 DEF TypeOK, ReadFile
  <2>5. at' \in [Uploads -> TailStates]
    BY <1>0, <1>15 DEF TypeOK, ReadFile
  <2> QED
    BY <1>0, <1>15, <2>1, <2>2, <2>3, <2>4, <2>5 DEF TypeOK, ReadFile
<1>16. CASE Staged(u)
  BY <1>0, <1>16 DEF TypeOK, Staged
<1>17. CASE Finalized(u)
  BY <1>0, <1>17 DEF TypeOK, Finalized, Ends
<1>18. CASE ContextCancelled(u)
  <2>1. PICK to \in TailStates : at' = [at EXCEPT ![u] = to]
    BY <1>18 DEF ContextCancelled, RequestFails, Ends
  <2>2. ok' = ok \/ ok' = [ok EXCEPT ![u] = FALSE]
    BY <1>18 DEF ContextCancelled, RequestFails, Ends
  <2>3. UNCHANGED <<laneVars, cancelled, reader, saw, fd, read, requestVars, storeVars>>
    BY <1>18 DEF ContextCancelled
  <2> QED
    BY <1>0, <2>1, <2>2, <2>3 DEF TypeOK
<1>19. CASE TransportFails(u)
  <2>1. at' \in [Uploads -> TailStates]
    BY <1>0, <1>19 DEF TypeOK, TransportFails, RequestFails, Ends
  <2>2. ok' \in [Uploads -> BOOLEAN]
    BY <1>0, <1>19 DEF TypeOK, TransportFails, RequestFails, Ends
  <2>3. handler' \in [Uploads -> HandlerStates]
    BY <1>0, <1>19 DEF TypeOK, TransportFails
  <2>4. fault' \in [Uploads -> BOOLEAN]
    BY <1>0, <1>19 DEF TypeOK, TransportFails
  <2> QED
    BY <1>0, <1>19, <2>1, <2>2, <2>3, <2>4 DEF TypeOK, TransportFails
<1>20. CASE Discard(u)
  BY <1>0, <1>20 DEF TypeOK, Discard, Ends
<1>21. CASE Receive(u)
  <2>1. fd[u] \in Inodes
    BY <1>0, <1>21 DEF TypeOK, Receive, UploadInv, ReaderInv, LaneInv, Serving, InstalledInv
  <2>2. Asserted(u) \in Contents /\ Content(u, fd[u], read[u], "corrupt") \in Contents
    BY <1>0, <1>21, <2>1, BytesType DEF TypeOK, Receive, Asserted
  <2>3. got' \in [Uploads -> Contents \cup {NoContent}]
    BY <1>0, <1>21, <2>2 DEF TypeOK, Receive
  <2>4. fault' \in [Uploads -> BOOLEAN]
    BY <1>0, <1>21 DEF TypeOK, Receive
  <2>5. handler' \in [Uploads -> HandlerStates]
    BY <1>0, <1>21 DEF TypeOK, Receive
  <2> QED
    BY <1>0, <1>21, <2>1, <2>2, <2>3, <2>4, <2>5 DEF TypeOK, Receive
<1>22. CASE RenamePending(u)
  BY <1>0, <1>22 DEF TypeOK, RenamePending
<1>23. CASE RecordDigest(u)
  BY <1>0, <1>23 DEF TypeOK, RecordDigest
<1>24. CASE CompareDigest(u)
  <2>1. handler' \in [Uploads -> HandlerStates]
    BY <1>0, <1>24 DEF TypeOK, CompareDigest
  <2>2. pending' \in [Sessions -> Contents \cup {NoContent}]
    BY <1>0, <1>24 DEF TypeOK, CompareDigest
  <2>3. recorded' \in [Sessions -> Contents \cup {NoContent}]
    BY <1>0, <1>24 DEF TypeOK, CompareDigest
  <2> QED
    BY <1>0, <1>24, <2>1, <2>2, <2>3 DEF TypeOK, CompareDigest
<1>25. CASE InstallPending(u)
  <2>1. fd[u] \in Inodes
    BY <1>0, <1>25 DEF TypeOK, InstallPending, UploadInv, ReaderInv, LaneInv, Serving, InstalledInv
  <2>2. Asserted(u) \in Contents
    BY <1>0, <1>25, <2>1, BytesType DEF TypeOK, InstallPending, Asserted
  <2>3. objects' \in [Contents -> Contents \cup {NoContent}]
    BY <1>0, <1>25, <2>2 DEF TypeOK, InstallPending
  <2>4. handler' \in [Uploads -> HandlerStates]
    BY <1>0, <1>25 DEF TypeOK, InstallPending
  <2>5. pending' \in [Sessions -> Contents \cup {NoContent}] /\ recorded' \in [Sessions -> Contents \cup {NoContent}]
    BY <1>0, <1>25 DEF TypeOK, InstallPending
  <2> QED
    BY <1>0, <1>25, <2>1, <2>2, <2>3, <2>4, <2>5 DEF TypeOK, InstallPending
<1> QED
  BY <1>1, <1>2, <1>3, <1>4, <1>5, <1>6, <1>7, <1>8, <1>9, <1>10, <1>11, <1>12, <1>13, <1>14, <1>15, <1>16, <1>17, <1>18, <1>19, <1>20, <1>21, <1>22, <1>23, <1>24, <1>25 DEF LaneStep, UploadStep, StoreStep

-----------------------------------------------------------------------------
\* Everything an upload is about, its session and its job included.
Same(v) ==
    /\ lane'[v] = lane[v] /\ path'[v] = path[v] /\ hash'[v] = hash[v]
    /\ written'[v] = written[v] /\ retried'[v] = retried[v]
    /\ reader'[v] = reader[v] /\ at'[v] = at[v] /\ saw'[v] = saw[v]
    /\ fd'[v] = fd[v] /\ read'[v] = read[v] /\ ok'[v] = ok[v]
    /\ handler'[v] = handler[v] /\ got'[v] = got[v]
    /\ pending'[Session[v]] = pending[Session[v]]
    /\ recorded'[Session[v]] = recorded[Session[v]]

\* No object that hashes to its address is ever replaced or removed.
KeepsObjects == \A k \in Contents : objects[k] = k => objects'[k] = k

\* A step of one upload leaves every other alone.
LEMMA FrameStep ==
    ASSUME OwnSessions, TypeOK, NEW u \in Uploads, NEW v \in Uploads, u # v,
           \/ StartTailUpload(u) \/ LaneStep(u) \/ LoseLease(u) \/ UploadStep(u)
           \/ ContextCancelled(u) \/ TransportFails(u) \/ StoreStep(u)
    PROVE  Same(v)
<1> USE UploadAssumptions DEF laneVars, tailVars, requestVars, storeVars, TypeOK, Same
<1>0. Session[u] \in Sessions /\ Session[v] \in Sessions /\ Session[u] # Session[v]
  BY DEF OwnSessions
<1>1. CASE StartTailUpload(u)
  BY <1>0, <1>1 DEF StartTailUpload
<1>2. CASE OutputGrows(u)
  BY <1>0, <1>2 DEF OutputGrows
<1>3. CASE RenderSucceeds(u)
  BY <1>0, <1>3 DEF RenderSucceeds, HandOff
<1>4. CASE RenderFails(u)
  BY <1>0, <1>4 DEF RenderFails, Abandon, AbortReader
<1>5. CASE RetryInSoftware(u)
  BY <1>0, <1>5 DEF RetryInSoftware
<1>6. CASE PublishFallback(u)
  BY <1>0, <1>6 DEF PublishFallback, HandOff, Abandon, AbortReader
<1>7. CASE LoseLease(u)
  BY <1>0, <1>7 DEF LoseLease
<1>8. CASE RejectOutput(u)
  BY <1>0, <1>8 DEF RejectOutput, AbortReader
<1>9. CASE Aborted(u)
  BY <1>0, <1>9 DEF Aborted
<1>10. CASE Finish(u)
  BY <1>0, <1>10 DEF Finish
<1>11. CASE Wait(u)
  BY <1>0, <1>11 DEF Wait
<1>12. CASE Put(u)
  BY <1>0, <1>12 DEF Put
<1>13. CASE PutFails(u)
  BY <1>0, <1>13 DEF PutFails
<1>14. CASE LookAtFlags(u)
  BY <1>0, <1>14 DEF LookAtFlags, Ends
<1>15. CASE ReadFile(u)
  BY <1>0, <1>15 DEF ReadFile
<1>16. CASE Staged(u)
  BY <1>0, <1>16 DEF Staged
<1>17. CASE Finalized(u)
  BY <1>0, <1>17 DEF Finalized, Ends
<1>18. CASE ContextCancelled(u)
  BY <1>0, <1>18 DEF ContextCancelled, RequestFails, Ends
<1>19. CASE TransportFails(u)
  BY <1>0, <1>19 DEF TransportFails, RequestFails, Ends
<1>20. CASE Discard(u)
  BY <1>0, <1>20 DEF Discard, Ends
<1>21. CASE Receive(u)
  BY <1>0, <1>21 DEF Receive
<1>22. CASE RenamePending(u)
  BY <1>0, <1>22 DEF RenamePending
<1>23. CASE RecordDigest(u)
  BY <1>0, <1>23 DEF RecordDigest
<1>24. CASE CompareDigest(u)
  BY <1>0, <1>24 DEF CompareDigest
<1>25. CASE InstallPending(u)
  BY <1>0, <1>25 DEF InstallPending
<1> QED
  BY <1>1, <1>2, <1>3, <1>4, <1>5, <1>6, <1>7, <1>8, <1>9, <1>10, <1>11, <1>12, <1>13, <1>14, <1>15, <1>16, <1>17, <1>18, <1>19, <1>20, <1>21, <1>22, <1>23, <1>24, <1>25 DEF LaneStep, UploadStep, StoreStep

\* What a step leaves alone keeps its invariant.
LEMMA FrameInv ==
    ASSUME TypeOK, NEW v \in Uploads, UploadInv(v), Same(v), KeepsObjects
    PROVE  UploadInv(v)'
<1> USE DEF Same
<1>1. Asserted(v)' = Asserted(v) /\ Output(v)' = Output(v) /\ (Serving(v)' <=> Serving(v))
  BY DEF Asserted, Output, Size, Serving
<1>2. (Size(v, fd[v]))' = Size(v, fd[v])
  BY DEF Size
<1>3. SessionInv(v)'
  BY <1>1 DEF UploadInv, SessionInv
<1>4. ReaderInv(v)'
  BY <1>1, <1>2 DEF UploadInv, ReaderInv
<1>5. LaneInv(v)'
  BY DEF UploadInv, LaneInv
<1>6. handler[v] = "installed" => Asserted(v) \in Contents
  BY BytesType DEF TypeOK, UploadInv, ReaderInv, Serving, Asserted, Inodes
<1>7. lane[v] = "stored" => Output(v) \in Contents
  BY BytesType DEF TypeOK, UploadInv, LaneInv, Output, Size, Inodes
<1>8. InstalledInv(v)'
  BY <1>1, <1>6, <1>7 DEF UploadInv, InstalledInv, KeepsObjects
<1> QED
  BY <1>3, <1>4, <1>5, <1>8 DEF UploadInv

\* Visible objects are only ever replaced by themselves.
LEMMA ObjectsStep ==
    ASSUME UInv, NEW u \in Uploads,
           \/ StartTailUpload(u) \/ LaneStep(u) \/ LoseLease(u) \/ UploadStep(u)
           \/ ContextCancelled(u) \/ TransportFails(u) \/ StoreStep(u)
    PROVE  KeepsObjects /\ ObjectsInv'
<1> USE UploadAssumptions, ContentAssumption DEF laneVars, tailVars, requestVars, storeVars
<1>0. TypeOK /\ UploadInv(u) /\ ObjectsInv
  BY DEF UInv
<1>a. \A w \in Uploads : reader[w] = "finished" => reader'[w] = "finished"
  <2>1. CASE StartTailUpload(u)
    BY <1>0, <2>1 DEF TypeOK, StartTailUpload
  <2>2. CASE OutputGrows(u)
    BY <1>0, <2>2 DEF TypeOK, OutputGrows
  <2>3. CASE RenderSucceeds(u)
    BY <1>0, <2>3 DEF TypeOK, RenderSucceeds, HandOff
  <2>4. CASE RenderFails(u)
    BY <1>0, <2>4 DEF TypeOK, RenderFails, Abandon, AbortReader
  <2>5. CASE RetryInSoftware(u)
    BY <1>0, <2>5 DEF TypeOK, RetryInSoftware
  <2>6. CASE PublishFallback(u)
    BY <1>0, <2>6 DEF TypeOK, PublishFallback, HandOff, Abandon, AbortReader
  <2>7. CASE LoseLease(u)
    BY <1>0, <2>7 DEF TypeOK, LoseLease
  <2>8. CASE RejectOutput(u)
    BY <1>0, <2>8 DEF TypeOK, RejectOutput, AbortReader
  <2>9. CASE Aborted(u)
    BY <1>0, <2>9 DEF TypeOK, Aborted
  <2>10. CASE Finish(u)
    BY <1>0, <2>10 DEF TypeOK, Finish
  <2>11. CASE Wait(u)
    BY <1>0, <2>11 DEF TypeOK, Wait
  <2>12. CASE Put(u)
    BY <1>0, <2>12 DEF TypeOK, Put
  <2>13. CASE PutFails(u)
    BY <1>0, <2>13 DEF TypeOK, PutFails
  <2>14. CASE LookAtFlags(u)
    BY <1>0, <2>14 DEF TypeOK, LookAtFlags, Ends
  <2>15. CASE ReadFile(u)
    BY <1>0, <2>15 DEF TypeOK, ReadFile
  <2>16. CASE Staged(u)
    BY <1>0, <2>16 DEF TypeOK, Staged
  <2>17. CASE Finalized(u)
    BY <1>0, <2>17 DEF TypeOK, Finalized, Ends
  <2>18. CASE ContextCancelled(u)
    BY <1>0, <2>18 DEF TypeOK, ContextCancelled, RequestFails, Ends
  <2>19. CASE TransportFails(u)
    BY <1>0, <2>19 DEF TypeOK, TransportFails, RequestFails, Ends
  <2>20. CASE Discard(u)
    BY <1>0, <2>20 DEF TypeOK, Discard, Ends
  <2>21. CASE Receive(u)
    BY <1>0, <2>21 DEF TypeOK, Receive
  <2>22. CASE RenamePending(u)
    BY <1>0, <2>22 DEF TypeOK, RenamePending
  <2>23. CASE RecordDigest(u)
    BY <1>0, <2>23 DEF TypeOK, RecordDigest
  <2>24. CASE CompareDigest(u)
    BY <1>0, <2>24 DEF TypeOK, CompareDigest
  <2>25. CASE InstallPending(u)
    BY <1>0, <2>25 DEF TypeOK, InstallPending
  <2> QED
    BY <2>1, <2>2, <2>3, <2>4, <2>5, <2>6, <2>7, <2>8, <2>9, <2>10, <2>11, <2>12, <2>13, <2>14, <2>15, <2>16, <2>17, <2>18, <2>19, <2>20, <2>21, <2>22, <2>23, <2>24, <2>25 DEF LaneStep, UploadStep, StoreStep
<1>b. \A k \in Contents : k.of \in Uploads
  BY DEF Contents
<1>1. CASE UNCHANGED objects
  BY <1>0, <1>1, <1>a, <1>b DEF KeepsObjects, ObjectsInv
<1>2. CASE Put(u)
  <2>1. Output(u) \in Contents /\ Output(u).of = u
    BY <1>0, <1>2, BytesType DEF Put, TypeOK, UploadInv, LaneInv, Output, Size, Inodes
  <2>2. objects' = [objects EXCEPT ![Output(u)] = Output(u)]
    BY <1>2 DEF Put, Verified
  <2>3. reader[u] = "finished"
    BY <1>0, <1>2 DEF Put, UploadInv, LaneInv
  <2> QED
    BY <1>0, <1>a, <1>b, <2>1, <2>2, <2>3 DEF KeepsObjects, ObjectsInv, TypeOK
<1>3. CASE InstallPending(u)
  <2>1. Asserted(u) \in Contents /\ Asserted(u).of = u /\ reader[u] = "finished"
    BY <1>0, <1>3, BytesType DEF InstallPending, TypeOK, UploadInv, ReaderInv, Serving, Asserted, Inodes
  <2>2. got[u] = Asserted(u)
    BY <1>0, <1>3 DEF InstallPending, UploadInv, SessionInv
  <2>3. pending[Session[u]] \in {NoContent, Asserted(u)}
    BY <1>0, <2>2 DEF UploadInv, SessionInv
  <2>4. UNCHANGED objects \/ objects' = [objects EXCEPT ![Asserted(u)] = Asserted(u)]
    BY <1>3, <2>3 DEF InstallPending
  <2> QED
    BY <1>0, <1>1, <1>a, <1>b, <2>1, <2>4 DEF KeepsObjects, ObjectsInv, TypeOK
<1> QED
  <2>1. UNCHANGED objects \/ Put(u) \/ InstallPending(u)
    BY DEF LaneStep, UploadStep, StoreStep, StartTailUpload, OutputGrows, RenderSucceeds, RenderFails, RetryInSoftware, PublishFallback, LoseLease, RejectOutput, Aborted, Finish, Wait, PutFails, LookAtFlags, ReadFile, Staged, Finalized, ContextCancelled, TransportFails, Discard, Receive, RenamePending, RecordDigest, CompareDigest
  <2> QED
    BY <1>1, <1>2, <1>3, <2>1

-----------------------------------------------------------------------------
\* Every step of an upload keeps the upload's own invariant.
LEMMA UploadStepInv ==
    ASSUME UInv, NEW u \in Uploads, KeepsObjects, TypeOK',
           \/ StartTailUpload(u) \/ LaneStep(u) \/ LoseLease(u) \/ UploadStep(u)
           \/ ContextCancelled(u) \/ TransportFails(u) \/ StoreStep(u)
    PROVE  UploadInv(u)'
<1> USE UploadAssumptions, ContentAssumption
    DEF laneVars, tailVars, requestVars, storeVars, Inodes
<1>0. TypeOK /\ SessionInv(u) /\ ReaderInv(u) /\ LaneInv(u) /\ InstalledInv(u)
  BY DEF UInv, UploadInv
<1>s. Session[u] \in Sessions
  OBVIOUS
<1>a. Serving(u) => Asserted(u) \in Contents
  BY <1>0, BytesType DEF TypeOK, ReaderInv, Serving, Asserted
<1>b. lane[u] \in {"putting", "stored"} => Output(u) \in Contents
  BY <1>0, BytesType DEF TypeOK, LaneInv, Output, Size
<1>1. CASE StartTailUpload(u)
  <2>1. SessionInv(u)'
    BY <1>0, <1>s, <1>1 DEF TypeOK, SessionInv, ReaderInv, Serving, Asserted, StartTailUpload
  <2>2. ReaderInv(u)'
    BY <1>0, <1>1 DEF TypeOK, ReaderInv, LaneInv, Serving, Size, StartTailUpload
  <2>3. LaneInv(u)'
    BY <1>0, <1>1 DEF TypeOK, LaneInv, ReaderInv, Serving, StartTailUpload
  <2>4. InstalledInv(u)'
    BY <1>0, <1>a, <1>b, <1>1 DEF TypeOK, InstalledInv, KeepsObjects, LaneInv, ReaderInv, Serving, Output, Size, Asserted, StartTailUpload
  <2> QED
    BY <2>1, <2>2, <2>3, <2>4 DEF UploadInv
<1>2. CASE OutputGrows(u)
  <2>1. SessionInv(u)'
    BY <1>0, <1>s, <1>2 DEF TypeOK, SessionInv, ReaderInv, Serving, Asserted, OutputGrows
  <2>2. ReaderInv(u)'
    BY <1>0, <1>2 DEF TypeOK, ReaderInv, LaneInv, Serving, Size, OutputGrows
  <2>3. LaneInv(u)'
    BY <1>0, <1>2 DEF TypeOK, LaneInv, ReaderInv, Serving, OutputGrows
  <2>4. InstalledInv(u)'
    BY <1>0, <1>a, <1>b, <1>2 DEF TypeOK, InstalledInv, KeepsObjects, LaneInv, ReaderInv, Serving, Output, Size, Asserted, OutputGrows
  <2> QED
    BY <2>1, <2>2, <2>3, <2>4 DEF UploadInv
<1>3. CASE RenderSucceeds(u)
  <2>1. SessionInv(u)'
    BY <1>0, <1>s, <1>3 DEF TypeOK, SessionInv, ReaderInv, Serving, Asserted, RenderSucceeds, HandOff
  <2>2. ReaderInv(u)'
    BY <1>0, <1>3 DEF TypeOK, ReaderInv, LaneInv, Serving, Size, RenderSucceeds, HandOff
  <2>3. LaneInv(u)'
    BY <1>0, <1>3 DEF TypeOK, LaneInv, ReaderInv, Serving, RenderSucceeds, HandOff
  <2>4. InstalledInv(u)'
    BY <1>0, <1>a, <1>b, <1>3 DEF TypeOK, InstalledInv, KeepsObjects, LaneInv, ReaderInv, Serving, Output, Size, Asserted, RenderSucceeds, HandOff
  <2> QED
    BY <2>1, <2>2, <2>3, <2>4 DEF UploadInv
<1>4. CASE RenderFails(u)
  <2>1. SessionInv(u)'
    BY <1>0, <1>s, <1>4 DEF TypeOK, SessionInv, ReaderInv, Serving, Asserted, RenderFails, Abandon, AbortReader
  <2>2. ReaderInv(u)'
    BY <1>0, <1>4 DEF TypeOK, ReaderInv, LaneInv, Serving, Size, RenderFails, Abandon, AbortReader
  <2>3. LaneInv(u)'
    BY <1>0, <1>4 DEF TypeOK, LaneInv, ReaderInv, Serving, RenderFails, Abandon, AbortReader
  <2>4. InstalledInv(u)'
    BY <1>0, <1>a, <1>b, <1>4 DEF TypeOK, InstalledInv, KeepsObjects, LaneInv, ReaderInv, Serving, Output, Size, Asserted, RenderFails, Abandon, AbortReader
  <2> QED
    BY <2>1, <2>2, <2>3, <2>4 DEF UploadInv
<1>5. CASE RetryInSoftware(u)
  <2>1. SessionInv(u)'
    BY <1>0, <1>s, <1>5 DEF TypeOK, SessionInv, ReaderInv, Serving, Asserted, RetryInSoftware
  <2>2. ReaderInv(u)'
    BY <1>0, <1>5 DEF TypeOK, ReaderInv, LaneInv, Serving, Size, RetryInSoftware
  <2>3. LaneInv(u)'
    BY <1>0, <1>5 DEF TypeOK, LaneInv, ReaderInv, Serving, RetryInSoftware
  <2>4. InstalledInv(u)'
    BY <1>0, <1>a, <1>b, <1>5 DEF TypeOK, InstalledInv, KeepsObjects, LaneInv, ReaderInv, Serving, Output, Size, Asserted, RetryInSoftware
  <2> QED
    BY <2>1, <2>2, <2>3, <2>4 DEF UploadInv
<1>6. CASE PublishFallback(u)
  <2>1. SessionInv(u)'
    BY <1>0, <1>s, <1>6 DEF TypeOK, SessionInv, ReaderInv, Serving, Asserted, PublishFallback, HandOff, Abandon, AbortReader
  <2>2. ReaderInv(u)'
    BY <1>0, <1>6 DEF TypeOK, ReaderInv, LaneInv, Serving, Size, PublishFallback, HandOff, Abandon, AbortReader
  <2>3. LaneInv(u)'
    BY <1>0, <1>6 DEF TypeOK, LaneInv, ReaderInv, Serving, PublishFallback, HandOff, Abandon, AbortReader
  <2>4. InstalledInv(u)'
    BY <1>0, <1>a, <1>b, <1>6 DEF TypeOK, InstalledInv, KeepsObjects, LaneInv, ReaderInv, Serving, Output, Size, Asserted, PublishFallback, HandOff, Abandon, AbortReader
  <2> QED
    BY <2>1, <2>2, <2>3, <2>4 DEF UploadInv
<1>7. CASE LoseLease(u)
  <2>1. SessionInv(u)'
    BY <1>0, <1>s, <1>7 DEF TypeOK, SessionInv, ReaderInv, Serving, Asserted, LoseLease
  <2>2. ReaderInv(u)'
    BY <1>0, <1>7 DEF TypeOK, ReaderInv, LaneInv, Serving, Size, LoseLease
  <2>3. LaneInv(u)'
    BY <1>0, <1>7 DEF TypeOK, LaneInv, ReaderInv, Serving, LoseLease
  <2>4. InstalledInv(u)'
    BY <1>0, <1>a, <1>b, <1>7 DEF TypeOK, InstalledInv, KeepsObjects, LaneInv, ReaderInv, Serving, Output, Size, Asserted, LoseLease
  <2> QED
    BY <2>1, <2>2, <2>3, <2>4 DEF UploadInv
<1>8. CASE RejectOutput(u)
  <2>1. SessionInv(u)'
    BY <1>0, <1>s, <1>8 DEF TypeOK, SessionInv, ReaderInv, Serving, Asserted, RejectOutput, AbortReader
  <2>2. ReaderInv(u)'
    BY <1>0, <1>8 DEF TypeOK, ReaderInv, LaneInv, Serving, Size, RejectOutput, AbortReader
  <2>3. LaneInv(u)'
    BY <1>0, <1>8 DEF TypeOK, LaneInv, ReaderInv, Serving, RejectOutput, AbortReader
  <2>4. InstalledInv(u)'
    BY <1>0, <1>a, <1>b, <1>8 DEF TypeOK, InstalledInv, KeepsObjects, LaneInv, ReaderInv, Serving, Output, Size, Asserted, RejectOutput, AbortReader
  <2> QED
    BY <2>1, <2>2, <2>3, <2>4 DEF UploadInv
<1>9. CASE Aborted(u)
  <2>1. SessionInv(u)'
    BY <1>0, <1>s, <1>9 DEF TypeOK, SessionInv, ReaderInv, Serving, Asserted, Aborted
  <2>2. ReaderInv(u)'
    BY <1>0, <1>9 DEF TypeOK, ReaderInv, LaneInv, Serving, Size, Aborted
  <2>3. LaneInv(u)'
    BY <1>0, <1>9 DEF TypeOK, LaneInv, ReaderInv, Serving, Aborted
  <2>4. InstalledInv(u)'
    BY <1>0, <1>a, <1>b, <1>9 DEF TypeOK, InstalledInv, KeepsObjects, LaneInv, ReaderInv, Serving, Output, Size, Asserted, Aborted
  <2> QED
    BY <2>1, <2>2, <2>3, <2>4 DEF UploadInv
<1>10. CASE Finish(u)
  <2>1. SessionInv(u)'
    BY <1>0, <1>s, <1>10 DEF TypeOK, SessionInv, ReaderInv, Serving, Asserted, Finish
  <2>2. ReaderInv(u)'
    BY <1>0, <1>10 DEF TypeOK, ReaderInv, LaneInv, Serving, Size, Finish
  <2>3. LaneInv(u)'
    BY <1>0, <1>10 DEF TypeOK, LaneInv, ReaderInv, Serving, Finish
  <2>4. InstalledInv(u)'
    BY <1>0, <1>a, <1>b, <1>10 DEF TypeOK, InstalledInv, KeepsObjects, LaneInv, ReaderInv, Serving, Output, Size, Asserted, Finish
  <2> QED
    BY <2>1, <2>2, <2>3, <2>4 DEF UploadInv
<1>11. CASE Wait(u)
  <2>1. SessionInv(u)'
    BY <1>0, <1>s, <1>11 DEF TypeOK, SessionInv, ReaderInv, Serving, Asserted, Wait
  <2>2. ReaderInv(u)'
    BY <1>0, <1>11 DEF TypeOK, ReaderInv, LaneInv, Serving, Size, Wait
  <2>3. LaneInv(u)'
    BY <1>0, <1>11 DEF TypeOK, LaneInv, ReaderInv, Serving, Wait
  <2>4. InstalledInv(u)'
    <3>1. Output(u)' = Output(u) /\ Asserted(u)' = Asserted(u)
      BY <1>11 DEF Wait, Output, Size, Asserted
    <3>2. ASSUME ok[u], ~StreamContradicts(u)
          PROVE  Output(u) = Asserted(u)
      <4>1. read[u] = Size(u, path[u]) /\ path[u] \in Inodes /\ fd[u] \in Inodes
        BY <1>0, <1>11, <3>2 DEF Wait, StreamContradicts, TypeOK, LaneInv, ReaderInv, InstalledInv, Serving
      <4>2. fd[u] = path[u]
        BY <1>0, <4>1 DEF TypeOK, LaneInv, ReaderInv, Size
      <4> QED
        BY <4>1, <4>2 DEF Output, Asserted
    <3>3. lane'[u] = "stored" => ok[u] /\ ~StreamContradicts(u) /\ hash'[u] = Asserted(u)
      BY <1>0, <1>11 DEF Wait, TypeOK, Asserted
    <3> QED
      BY <1>0, <1>11, <3>1, <3>2, <3>3 DEF Wait, InstalledInv
  <2> QED
    BY <2>1, <2>2, <2>3, <2>4 DEF UploadInv
<1>12. CASE Put(u)
  <2>1. SessionInv(u)'
    BY <1>0, <1>s, <1>12 DEF TypeOK, SessionInv, ReaderInv, Serving, Asserted, Put
  <2>2. ReaderInv(u)'
    BY <1>0, <1>12 DEF TypeOK, ReaderInv, LaneInv, Serving, Size, Put
  <2>3. LaneInv(u)'
    BY <1>0, <1>12 DEF TypeOK, LaneInv, ReaderInv, Serving, Put
  <2>4. InstalledInv(u)'
    <3>1. Output(u)' = Output(u) /\ Asserted(u)' = Asserted(u)
      BY <1>12 DEF Put, Output, Size, Asserted
    <3>2. Output(u) \in Contents /\ PutKey(u) = Output(u)
      BY <1>b, <1>12 DEF Put, Verified
    <3>3. lane'[u] = "stored" => hash'[u] = Output(u) /\ objects'[Output(u)] = Output(u)
      BY <1>0, <1>12, <3>2 DEF Put, TypeOK
    <3> QED
      BY <1>0, <1>a, <1>12, <3>1, <3>3 DEF Put, InstalledInv, KeepsObjects, Serving
  <2> QED
    BY <2>1, <2>2, <2>3, <2>4 DEF UploadInv
<1>13. CASE PutFails(u)
  <2>1. SessionInv(u)'
    BY <1>0, <1>s, <1>13 DEF TypeOK, SessionInv, ReaderInv, Serving, Asserted, PutFails
  <2>2. ReaderInv(u)'
    BY <1>0, <1>13 DEF TypeOK, ReaderInv, LaneInv, Serving, Size, PutFails
  <2>3. LaneInv(u)'
    BY <1>0, <1>13 DEF TypeOK, LaneInv, ReaderInv, Serving, PutFails
  <2>4. InstalledInv(u)'
    BY <1>0, <1>a, <1>b, <1>13 DEF TypeOK, InstalledInv, KeepsObjects, LaneInv, ReaderInv, Serving, Output, Size, Asserted, PutFails
  <2> QED
    BY <2>1, <2>2, <2>3, <2>4 DEF UploadInv
<1>14. CASE LookAtFlags(u)
  <2>1. SessionInv(u)'
    BY <1>0, <1>s, <1>14 DEF TypeOK, SessionInv, ReaderInv, Serving, Asserted, LookAtFlags, Ends
  <2>2. ReaderInv(u)'
    BY <1>0, <1>14 DEF TypeOK, ReaderInv, LaneInv, Serving, Size, LookAtFlags, Ends
  <2>3. LaneInv(u)'
    BY <1>0, <1>14 DEF TypeOK, LaneInv, ReaderInv, Serving, LookAtFlags, Ends
  <2>4. InstalledInv(u)'
    BY <1>0, <1>a, <1>b, <1>14 DEF TypeOK, InstalledInv, KeepsObjects, LaneInv, ReaderInv, Serving, Output, Size, Asserted, LookAtFlags, Ends
  <2> QED
    BY <2>1, <2>2, <2>3, <2>4 DEF UploadInv
<1>15. CASE ReadFile(u)
  <2>1. SessionInv(u)'
    BY <1>0, <1>s, <1>15 DEF TypeOK, SessionInv, ReaderInv, Serving, Asserted, ReadFile
  <2>2. ReaderInv(u)'
    <3>1. fd'[u] = Opened(u) /\ Opened(u) \in Inodes \cup {"none"}
      BY <1>0, <1>15 DEF TypeOK, ReadFile, Opened
    <3>2. ~Serving(u) /\ ~Serving(u)'
      BY <1>0, <1>15 DEF ReadFile, ReaderInv, Serving
    <3>3. Opened(u) = "software" => path'[u] = "software"
      BY <1>0, <1>15 DEF ReadFile, Opened, ReaderInv
    <3>4. read[u] = 0 \/ fd[u] = Opened(u)
      BY <1>0 DEF ReaderInv, Opened
    <3>5. Opened(u) # "none" => /\ Size(u, Opened(u)) \in Nat
                               /\ read[u] <= Size(u, Opened(u))
      BY <1>0, <3>4 DEF TypeOK, ReaderInv, Size
    <3>6. CASE More(u)
      BY <1>0, <1>15, <3>1, <3>2, <3>3, <3>5, <3>6 DEF TypeOK, ReadFile, ReaderInv, More, Size
    <3>7. CASE ~More(u) /\ ~saw[u]
      BY <1>0, <1>15, <3>1, <3>2, <3>3, <3>4, <3>5, <3>7 DEF TypeOK, ReadFile, ReaderInv, More, Size, AtEnd
    <3>8. CASE ~More(u) /\ saw[u]
      <4>1. /\ read'[u] = read[u] /\ saw'[u] /\ reader'[u] = "finished"
            /\ at'[u] = IF Opened(u) = "none" THEN "done" ELSE "eof"
        BY <1>0, <1>15, <3>8 DEF TypeOK, ReadFile, ReaderInv, AtEnd
      <4>2. Opened(u) # "none" => read[u] = Size(u, Opened(u))
        <5>1. read[u] \in Nat
          BY <1>0 DEF TypeOK
        <5> QED
          BY <3>5, <3>8, <5>1 DEF More
      <4>3. (Size(u, fd[u]))' = Size(u, Opened(u))
        BY <1>15, <3>1 DEF ReadFile, Size
      <4>4. Opened(u) = "none" => read[u] = 0
        BY <1>0 DEF ReaderInv, Opened
      <4> QED
        BY <3>1, <3>2, <3>3, <4>1, <4>2, <4>3, <4>4, <3>5 DEF ReaderInv
    <3> QED
      BY <3>6, <3>7, <3>8
  <2>3. LaneInv(u)'
    BY <1>0, <1>15 DEF TypeOK, LaneInv, ReaderInv, Serving, ReadFile
  <2>4. InstalledInv(u)'
    BY <1>0, <1>a, <1>b, <1>15 DEF TypeOK, InstalledInv, KeepsObjects, LaneInv, ReaderInv, Serving, Output, Size, Asserted, ReadFile
  <2> QED
    BY <2>1, <2>2, <2>3, <2>4 DEF UploadInv
<1>16. CASE Staged(u)
  <2>1. SessionInv(u)'
    BY <1>0, <1>s, <1>16 DEF TypeOK, SessionInv, ReaderInv, Serving, Asserted, Staged
  <2>2. ReaderInv(u)'
    BY <1>0, <1>16 DEF TypeOK, ReaderInv, LaneInv, Serving, Size, Staged
  <2>3. LaneInv(u)'
    BY <1>0, <1>16 DEF TypeOK, LaneInv, ReaderInv, Serving, Staged
  <2>4. InstalledInv(u)'
    BY <1>0, <1>a, <1>b, <1>16 DEF TypeOK, InstalledInv, KeepsObjects, LaneInv, ReaderInv, Serving, Output, Size, Asserted, Staged
  <2> QED
    BY <2>1, <2>2, <2>3, <2>4 DEF UploadInv
<1>17. CASE Finalized(u)
  <2>1. SessionInv(u)'
    BY <1>0, <1>s, <1>17 DEF TypeOK, SessionInv, ReaderInv, Serving, Asserted, Finalized, Ends
  <2>2. ReaderInv(u)'
    BY <1>0, <1>17 DEF TypeOK, ReaderInv, LaneInv, Serving, Size, Finalized, Ends
  <2>3. LaneInv(u)'
    BY <1>0, <1>17 DEF TypeOK, LaneInv, ReaderInv, Serving, Finalized, Ends
  <2>4. InstalledInv(u)'
    BY <1>0, <1>a, <1>b, <1>17 DEF TypeOK, InstalledInv, KeepsObjects, LaneInv, ReaderInv, Serving, Output, Size, Asserted, Finalized, Ends
  <2> QED
    BY <2>1, <2>2, <2>3, <2>4 DEF UploadInv
<1>18. CASE ContextCancelled(u)
  <2>1. SessionInv(u)'
    BY <1>0, <1>s, <1>18 DEF TypeOK, SessionInv, ReaderInv, Serving, Asserted, ContextCancelled, RequestFails, Ends
  <2>2. ReaderInv(u)'
    BY <1>0, <1>18 DEF TypeOK, ReaderInv, LaneInv, Serving, Size, ContextCancelled, RequestFails, Ends
  <2>3. LaneInv(u)'
    BY <1>0, <1>18 DEF TypeOK, LaneInv, ReaderInv, Serving, ContextCancelled, RequestFails, Ends
  <2>4. InstalledInv(u)'
    BY <1>0, <1>a, <1>b, <1>18 DEF TypeOK, InstalledInv, KeepsObjects, LaneInv, ReaderInv, Serving, Output, Size, Asserted, ContextCancelled, RequestFails, Ends
  <2> QED
    BY <2>1, <2>2, <2>3, <2>4 DEF UploadInv
<1>19. CASE TransportFails(u)
  <2>1. SessionInv(u)'
    BY <1>0, <1>s, <1>19 DEF TypeOK, SessionInv, ReaderInv, Serving, Asserted, TransportFails, RequestFails, Ends
  <2>2. ReaderInv(u)'
    BY <1>0, <1>19 DEF TypeOK, ReaderInv, LaneInv, Serving, Size, TransportFails, RequestFails, Ends
  <2>3. LaneInv(u)'
    BY <1>0, <1>19 DEF TypeOK, LaneInv, ReaderInv, Serving, TransportFails, RequestFails, Ends
  <2>4. InstalledInv(u)'
    BY <1>0, <1>a, <1>b, <1>19 DEF TypeOK, InstalledInv, KeepsObjects, LaneInv, ReaderInv, Serving, Output, Size, Asserted, TransportFails, RequestFails, Ends
  <2> QED
    BY <2>1, <2>2, <2>3, <2>4 DEF UploadInv
<1>20. CASE Discard(u)
  <2>1. SessionInv(u)'
    BY <1>0, <1>s, <1>20 DEF TypeOK, SessionInv, ReaderInv, Serving, Asserted, Discard, Ends
  <2>2. ReaderInv(u)'
    BY <1>0, <1>20 DEF TypeOK, ReaderInv, LaneInv, Serving, Size, Discard, Ends
  <2>3. LaneInv(u)'
    BY <1>0, <1>20 DEF TypeOK, LaneInv, ReaderInv, Serving, Discard, Ends
  <2>4. InstalledInv(u)'
    BY <1>0, <1>a, <1>b, <1>20 DEF TypeOK, InstalledInv, KeepsObjects, LaneInv, ReaderInv, Serving, Output, Size, Asserted, Discard, Ends
  <2> QED
    BY <2>1, <2>2, <2>3, <2>4 DEF UploadInv
<1>21. CASE Receive(u)
  <2>1. SessionInv(u)'
    BY <1>0, <1>s, <1>21 DEF TypeOK, SessionInv, ReaderInv, Serving, Asserted, Receive
  <2>2. ReaderInv(u)'
    BY <1>0, <1>21 DEF TypeOK, ReaderInv, LaneInv, Serving, Size, Receive
  <2>3. LaneInv(u)'
    BY <1>0, <1>21 DEF TypeOK, LaneInv, ReaderInv, Serving, Receive
  <2>4. InstalledInv(u)'
    BY <1>0, <1>a, <1>b, <1>21 DEF TypeOK, InstalledInv, KeepsObjects, LaneInv, ReaderInv, Serving, Output, Size, Asserted, Receive
  <2> QED
    BY <2>1, <2>2, <2>3, <2>4 DEF UploadInv
<1>22. CASE RenamePending(u)
  <2>1. SessionInv(u)'
    BY <1>0, <1>s, <1>22 DEF TypeOK, SessionInv, ReaderInv, Serving, Asserted, RenamePending
  <2>2. ReaderInv(u)'
    BY <1>0, <1>22 DEF TypeOK, ReaderInv, LaneInv, Serving, Size, RenamePending
  <2>3. LaneInv(u)'
    BY <1>0, <1>22 DEF TypeOK, LaneInv, ReaderInv, Serving, RenamePending
  <2>4. InstalledInv(u)'
    BY <1>0, <1>a, <1>b, <1>22 DEF TypeOK, InstalledInv, KeepsObjects, LaneInv, ReaderInv, Serving, Output, Size, Asserted, RenamePending
  <2> QED
    BY <2>1, <2>2, <2>3, <2>4 DEF UploadInv
<1>23. CASE RecordDigest(u)
  <2>1. SessionInv(u)'
    BY <1>0, <1>s, <1>23 DEF TypeOK, SessionInv, ReaderInv, Serving, Asserted, RecordDigest
  <2>2. ReaderInv(u)'
    BY <1>0, <1>23 DEF TypeOK, ReaderInv, LaneInv, Serving, Size, RecordDigest
  <2>3. LaneInv(u)'
    BY <1>0, <1>23 DEF TypeOK, LaneInv, ReaderInv, Serving, RecordDigest
  <2>4. InstalledInv(u)'
    BY <1>0, <1>a, <1>b, <1>23 DEF TypeOK, InstalledInv, KeepsObjects, LaneInv, ReaderInv, Serving, Output, Size, Asserted, RecordDigest
  <2> QED
    BY <2>1, <2>2, <2>3, <2>4 DEF UploadInv
<1>24. CASE CompareDigest(u)
  <2>1. SessionInv(u)'
    <3>1. Asserted(u) # NoContent /\ Asserted(u)' = Asserted(u)
      BY <1>a, <1>24 DEF CompareDigest, Serving, Asserted
    <3> QED
      BY <1>0, <1>s, <1>24, <3>1 DEF TypeOK, SessionInv, CompareDigest
  <2>2. ReaderInv(u)'
    BY <1>0, <1>24 DEF TypeOK, ReaderInv, LaneInv, Serving, Size, CompareDigest
  <2>3. LaneInv(u)'
    BY <1>0, <1>24 DEF TypeOK, LaneInv, ReaderInv, Serving, CompareDigest
  <2>4. InstalledInv(u)'
    BY <1>0, <1>a, <1>b, <1>24 DEF TypeOK, InstalledInv, KeepsObjects, LaneInv, ReaderInv, Serving, Output, Size, Asserted, CompareDigest
  <2> QED
    BY <2>1, <2>2, <2>3, <2>4 DEF UploadInv
<1>25. CASE InstallPending(u)
  <2>1. SessionInv(u)'
    BY <1>0, <1>s, <1>25 DEF TypeOK, SessionInv, ReaderInv, Serving, Asserted, InstallPending
  <2>2. ReaderInv(u)'
    BY <1>0, <1>25 DEF TypeOK, ReaderInv, LaneInv, Serving, Size, InstallPending
  <2>3. LaneInv(u)'
    BY <1>0, <1>25 DEF TypeOK, LaneInv, ReaderInv, Serving, InstallPending
  <2>4. InstalledInv(u)'
    <3>1. Output(u)' = Output(u) /\ Asserted(u)' = Asserted(u)
      BY <1>25 DEF InstallPending, Output, Size, Asserted
    <3>2. pending[Session[u]] \in {NoContent, Asserted(u)} /\ Asserted(u) \in Contents
      BY <1>0, <1>a, <1>25 DEF InstallPending, SessionInv, Serving
    <3>3. handler'[u] = "installed" => objects'[Asserted(u)] = Asserted(u)
      BY <1>0, <1>25, <3>2 DEF InstallPending, TypeOK
    <3>4. ~ok[u]
      BY <1>0, <1>25 DEF InstallPending, InstalledInv
    <3> QED
      BY <1>0, <1>b, <1>25, <3>1, <3>3, <3>4 DEF InstallPending, InstalledInv, KeepsObjects
  <2> QED
    BY <2>1, <2>2, <2>3, <2>4 DEF UploadInv
<1> QED
  BY <1>1, <1>2, <1>3, <1>4, <1>5, <1>6, <1>7, <1>8, <1>9, <1>10, <1>11, <1>12, <1>13, <1>14, <1>15, <1>16, <1>17, <1>18, <1>19, <1>20, <1>21, <1>22, <1>23, <1>24, <1>25 DEF LaneStep, UploadStep, StoreStep

-----------------------------------------------------------------------------
LEMMA UInvInit == Init => UInv
<1> SUFFICES ASSUME Init PROVE UInv
  OBVIOUS
<1> USE UploadAssumptions, ContentAssumption DEF Init, Inodes
<1>1. TypeOK
  BY DEF TypeOK, LaneStates, TailStates, HandlerStates
<1>2. \A u \in Uploads : UploadInv(u)
  BY DEF UploadInv, SessionInv, ReaderInv, LaneInv, InstalledInv, Serving
<1>3. ObjectsInv
  BY DEF ObjectsInv
<1> QED
  BY <1>1, <1>2, <1>3 DEF UInv

LEMMA UInvStep ==
    ASSUME OwnSessions, UInv, [Next]_vars
    PROVE  UInv'
<1>1. CASE UNCHANGED vars
  BY <1>1 DEF vars, laneVars, tailVars, requestVars, storeVars, UInv, TypeOK, UploadInv, SessionInv,
     ReaderInv, LaneInv, InstalledInv, Serving, Asserted, Output, Size, ObjectsInv
<1>2. ASSUME NEW u \in Uploads,
           \/ StartTailUpload(u) \/ LaneStep(u) \/ LoseLease(u) \/ UploadStep(u)
           \/ ContextCancelled(u) \/ TransportFails(u) \/ StoreStep(u)
      PROVE  UInv'
  <2>1. TypeOK'
    BY <1>2, TypeStep
  <2>2. KeepsObjects /\ ObjectsInv'
    BY <1>2, ObjectsStep
  <2>3. UploadInv(u)'
    BY <1>2, <2>1, <2>2, UploadStepInv
  <2>4. ASSUME NEW v \in Uploads, u # v PROVE UploadInv(v)'
    <3>1. TypeOK /\ UploadInv(v)
      BY DEF UInv
    <3>2. Same(v)
      BY <1>2, <2>4, <3>1, FrameStep
    <3> QED
      BY <2>2, <3>1, <3>2, FrameInv
  <2> QED
    BY <2>1, <2>2, <2>3, <2>4 DEF UInv
<1> QED
  BY <1>1, <1>2 DEF Next

\* The inductive invariant of the streaming upload.
THEOREM UploadInvariant ==
    ASSUME OwnSessions
    PROVE  Spec => []UInv
<1>1. Init => UInv
  BY UInvInit
<1>2. UInv /\ [Next]_vars => UInv'
  BY UInvStep
<1> QED
  BY <1>1, <1>2, PTL DEF Spec

\* However uploads, retries, lost answers and late handlers interleave, every
\* object the store shows hashes to its address (staging.go, store.go).
THEOREM ContentAddressedCorrect ==
    ASSUME OwnSessions
    PROVE  Spec => []ContentAddressed
<1>1. UInv => ContentAddressed
  BY DEF UInv, ObjectsInv, ContentAddressed
<1> QED
  BY <1>1, UploadInvariant, PTL

\* An artifact storeArtifact returns is the verified file and is in the store.
THEOREM StoredCorrectly ==
    ASSUME OwnSessions
    PROVE  Spec => []StoredIsTheVerifiedFile
<1>1. UInv => StoredIsTheVerifiedFile
  BY DEF UInv, UploadInv, InstalledInv, StoredIsTheVerifiedFile
<1> QED
  BY <1>1, UploadInvariant, PTL

\* The upload of a failed render or of a rejected output installs nothing.
THEOREM RejectedCorrectly ==
    ASSUME OwnSessions
    PROVE  Spec => []RejectedInstallsNothing
<1>1. UInv => RejectedInstallsNothing
  BY DEF UInv, UploadInv, LaneInv, ObjectsInv, RejectedInstallsNothing
<1> QED
  BY <1>1, UploadInvariant, PTL

\* The growing file's reader ends exactly at Finish.
THEOREM StreamCorrect ==
    ASSUME OwnSessions
    PROVE  Spec => []StreamEndsAtFinish
<1>1. UInv => StreamEndsAtFinish
  BY DEF UInv, UploadInv, ReaderInv, StreamEndsAtFinish
<1> QED
  BY <1>1, UploadInvariant, PTL

\* What the store phase relies on, as the one property that is checked.
THEOREM OnlyVerifiedCorrect ==
    ASSUME OwnSessions
    PROVE  Spec => []OnlyVerifiedIsStored
<1>1. StoredIsTheVerifiedFile /\ RejectedInstallsNothing /\ StreamEndsAtFinish => OnlyVerifiedIsStored
  BY DEF OnlyVerifiedIsStored
<1> QED
  BY <1>1, StoredCorrectly, RejectedCorrectly, StreamCorrect, PTL
==================================================================================
