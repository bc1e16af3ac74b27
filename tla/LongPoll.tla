------------------------------ MODULE LongPoll ------------------------------
(***************************************************************************)
(* The long polls of one queue replica: workers blocked in WaitAndClaim    *)
(* and producers blocked in WaitState share the single Notifier            *)
(* (queue/internal/service).  The notifier is a FIFO of private wake       *)
(* channels; Notify closes the oldest one, Broadcast closes all of them,   *)
(* and both waits fall back to a bounded re-poll.                          *)
(*                                                                         *)
(* A transition commits in the store first and signals afterwards, so the  *)
(* two are separate steps: owed counts the Notify calls and owedAll the    *)
(* Broadcast calls still to be made by handlers that have committed, and   *)
(* bridged the NOTIFY messages on their way from PostgreSQL.               *)
(***************************************************************************)
EXTENDS Naturals, FiniteSets
LOCAL INSTANCE Sequences

CONSTANTS
  Jobs,
  Anchors,    \* jobs that own chunk children: no worker may claim them
  Claimers,   \* worker requests that long-poll for a job
  Producers,  \* producer requests that wait for a job to end
  WatchOf,    \* the job each producer request waits for
  Bridge,     \* TRUE with PostgreSQL, whose triggers NOTIFY every replica
  ChanCap,    \* bound of the model: wake channels that exist at a time
  SignalCap   \* bound of the model: signals of each kind under way

ASSUME LongPollAssumption ==
  /\ Anchors \subseteq Jobs
  /\ Claimers \cap Producers = {}
  /\ WatchOf \in [Producers -> Jobs]
  /\ Bridge \in BOOLEAN
  /\ ChanCap \in Nat
  /\ SignalCap \in Nat

VARIABLES
  state,    \* what the store says of each job
  owed, owedAll, bridged,
  queue,    \* Notifier.queue: the parked channels, oldest first
  present,  \* Notifier.present
  closed,   \* channels that were closed (a closed channel wakes its reader)
  pc,       \* where each request is
  wake      \* the channel each request selects on, 0 when it has none

store    == <<state, owed, owedAll, bridged>>
notifier == <<queue, present, closed>>
pollVars == <<store, notifier, pc, wake>>

Chans    == 1..ChanCap
Requests == Claimers \cup Producers
Queued   == {queue[i] : i \in 1..Len(queue)}
Terminal(j) == state[j] \in {"completed", "failed", "cancelled"}
Claimable(j) == state[j] = "pending" /\ j \notin Anchors

-----------------------------------------------------------------------------
(* The notifier *)

NotifyKeepsEntry ==
  /\ queue # <<>>
  /\ closed' = closed \cup {queue[1]}
  /\ present' = present \ {queue[1]}
  /\ UNCHANGED queue
(* Drops abandoned entries, closes the first channel still present. *)
Notify ==
  LET live == {i \in 1..Len(queue) : queue[i] \in present}
  IN  IF live = {}
      THEN queue' = <<>> /\ UNCHANGED <<present, closed>>
      ELSE LET i == CHOOSE i \in live : \A k \in live : i <= k
           IN  /\ queue' = SubSeq(queue, i + 1, Len(queue))
               /\ present' = present \ {queue[i]}
               /\ closed' = closed \cup {queue[i]}

BroadcastSparesLast ==
  /\ queue # <<>>
  /\ queue' = <<>>
  /\ closed' = closed \cup {queue[i] : i \in 1..(Len(queue) - 1)}
  /\ present' = present \ Queued
Broadcast ==
  /\ queue' = <<>>
  /\ closed' = closed \cup (Queued \cap present)
  /\ present' = present \ Queued

(* A channel nobody refers to is garbage, and its number is used again. *)
FreeChans == Chans \ (Queued \cup present \cup {wake[r] : r \in Requests})

Done(r) ==
  /\ FreeChans # {}
  /\ LET c == CHOOSE c \in FreeChans : \A d \in FreeChans : c <= d
     IN  /\ queue' = Append(queue, c)
         /\ present' = present \cup {c}
         /\ closed' = closed \ {c}
         /\ wake' = [wake EXCEPT ![r] = c]

(* Cuts the channel out of the queue, unless a wake has taken it already. *)
Without(i) == SubSeq(queue, 1, i - 1) \o SubSeq(queue, i + 1, Len(queue))
Forget(c) ==
  /\ \/ \E i \in 1..Len(queue) :
          /\ queue[i] = c /\ \A k \in 1..(i - 1) : queue[k] # c
          /\ queue' = Without(i)
     \/ c \notin Queued /\ UNCHANGED queue
  /\ present' = present \ {c}
  /\ UNCHANGED closed

Woken(r) == wake[r] \in closed

-----------------------------------------------------------------------------
PollInit ==
  /\ state = [j \in Jobs |-> "absent"]
  /\ owed = 0 /\ owedAll = 0 /\ bridged = 0
  /\ queue = <<>> /\ present = {} /\ closed = {}
  /\ pc = [r \in Requests |-> "idle"]
  /\ wake = [r \in Requests |-> 0]

-----------------------------------------------------------------------------
(* Transitions of the store, each followed by its signals *)

(* The database trigger notifies for every job that becomes claimable or     *)
(* ends; the message may be lost while the LISTEN session reconnects.        *)
Bridged(n) == bridged' = IF Bridge THEN bridged + n ELSE bridged

RoomForSignals(n) ==
  owed < SignalCap /\ owedAll < SignalCap /\ bridged + n <= SignalCap

(* One job moves and the handler owes one Notify. *)
Moves(j, from, to) ==
  /\ state[j] \in from
  /\ RoomForSignals(1)
  /\ state' = [state EXCEPT ![j] = to]
  /\ owed' = owed + 1
  /\ Bridged(1)
  /\ UNCHANGED <<owedAll, notifier, pc, wake>>

Submit(j) == Moves(j, {"absent"}, "pending")
(* Fail with attempts left, and Rendered: back in line *)
GiveBack(j) == Moves(j, {"running"}, "pending")
(* Fail without attempts left, and FailPermanently *)
GiveUp(j) == Moves(j, {"running"}, "failed")
Cancel(j) == Moves(j, {"pending", "running"}, "cancelled")
Retry(j) == Moves(j, {"failed"}, "pending")

(* The whole family is inserted, then one Notify. *)
SubmitBatch(S) ==
  /\ Cardinality(S) > 1
  /\ \A j \in S : state[j] = "absent"
  /\ RoomForSignals(Cardinality(S))
  /\ state' = [j \in Jobs |-> IF j \in S THEN "pending" ELSE state[j]]
  /\ owed' = owed + 1
  /\ Bridged(Cardinality(S))
  /\ UNCHANGED <<owedAll, notifier, pc, wake>>

(* Complete does not touch the notifier: only the trigger signals. *)
Complete(j) ==
  /\ state[j] = "running"
  /\ RoomForSignals(1)
  /\ state' = [state EXCEPT ![j] = "completed"]
  /\ Bridged(1)
  /\ UNCHANGED <<owed, owedAll, notifier, pc, wake>>

(* Taking an anchor signals although nothing became claimable. *)
ClaimFinalization(j) ==
  /\ j \in Anchors
  /\ state[j] \in {"pending", "running"}
  /\ RoomForSignals(0)
  /\ state' = [state EXCEPT ![j] = "running"]
  /\ owed' = owed + 1
  /\ UNCHANGED <<owedAll, bridged, notifier, pc, wake>>

(* A sweep of several jobs broadcasts; those in F had no attempt left. *)
RequeueExpired(S, F) ==
  /\ S # {} /\ F \subseteq S
  /\ \A j \in S : state[j] = "running"
  /\ RoomForSignals(Cardinality(S))
  /\ state' = [j \in Jobs |-> IF j \in F THEN "failed"
                              ELSE IF j \in S THEN "pending" ELSE state[j]]
  /\ IF Cardinality(S) > 1
     THEN owedAll' = owedAll + 1 /\ UNCHANGED owed
     ELSE owed' = owed + 1 /\ UNCHANGED owedAll
  /\ Bridged(Cardinality(S))
  /\ UNCHANGED <<notifier, pc, wake>>

DeliverNotify ==
  /\ owed > 0
  /\ owed' = owed - 1
  /\ Notify
  /\ UNCHANGED <<state, owedAll, bridged, pc, wake>>

DeliverBroadcast ==
  /\ owedAll > 0
  /\ owedAll' = owedAll - 1
  /\ Broadcast
  /\ UNCHANGED <<state, owed, bridged, pc, wake>>

(* listenForJobNotifications: one Notify per message *)
DeliverBridged ==
  /\ bridged > 0
  /\ bridged' = bridged - 1
  /\ Notify
  /\ UNCHANGED <<state, owed, owedAll, pc, wake>>

(* The LISTEN connection breaks: what was under way is gone. *)
ListenBreaks ==
  /\ bridged > 0
  /\ bridged' = 0
  /\ UNCHANGED <<state, owed, owedAll, notifier, pc, wake>>

-----------------------------------------------------------------------------
(* WaitAndClaim *)

Takes(c, j) ==
  /\ Claimable(j)
  /\ state' = [state EXCEPT ![j] = "running"]
  /\ UNCHANGED <<owed, owedAll, bridged>>

Returns(r) ==
  /\ pc' = [pc EXCEPT ![r] = "idle"]
  /\ wake' = [wake EXCEPT ![r] = 0]

ClaimNow(c) ==
  /\ pc[c] = "idle"
  /\ \E j \in Jobs : Takes(c, j)
  /\ UNCHANGED <<notifier, pc, wake>>

(* The queue was empty a moment ago; the request is not parked yet. *)
FindsNothing(c) ==
  /\ pc[c] = "idle"
  /\ ~\E j \in Jobs : Claimable(j)
  /\ pc' = [pc EXCEPT ![c] = "empty"]
  /\ UNCHANGED <<store, notifier, wake>>

ParkClaim(c) ==
  /\ pc[c] = "empty"
  /\ Done(c)
  /\ pc' = [pc EXCEPT ![c] = "parked"]
  /\ UNCHANGED store

WokenClaims(c) ==
  /\ pc[c] = "parked" /\ Woken(c)
  /\ \E j \in Jobs : Takes(c, j)
  /\ Returns(c)
  /\ UNCHANGED notifier

WokenInVain(c) ==
  /\ pc[c] = "parked" /\ Woken(c)
  /\ ~\E j \in Jobs : Claimable(j)
  /\ pc' = [pc EXCEPT ![c] = "empty"]
  /\ UNCHANGED <<store, notifier, wake>>

(* The re-poll timer fires; an empty poll only backs off. *)
PollsOnlyWhenWoken(c) ==
  /\ pc[c] = "parked" /\ Woken(c)
  /\ \E j \in Jobs : Takes(c, j)
  /\ Forget(wake[c])
  /\ Returns(c)
PollClaims(c) ==
  /\ pc[c] = "parked"
  /\ \E j \in Jobs : Takes(c, j)
  /\ Forget(wake[c])
  /\ Returns(c)

(* deadline, cancelled request, or a claim error *)
LeaveClaim(c) ==
  /\ pc[c] = "parked"
  /\ Forget(wake[c])
  /\ Returns(c)
  /\ UNCHANGED store

-----------------------------------------------------------------------------
(* WaitState *)

(* A job that does not exist or has ended answers at once.  The last         *)
(* conjunct is the bound ChanCap: channels are left for the other requests.  *)
StartsWaiting(p) ==
  /\ pc[p] = "idle"
  /\ Cardinality(FreeChans) > Cardinality(Requests)
  /\ state[WatchOf[p]] # "absent" /\ ~Terminal(WatchOf[p])
  /\ pc' = [pc EXCEPT ![p] = "seen"]
  /\ UNCHANGED <<store, notifier, wake>>

ParkWait(p) ==
  /\ pc[p] = "seen"
  /\ Done(p)
  /\ pc' = [pc EXCEPT ![p] = "parked"]
  /\ UNCHANGED store

(* A woken producer parks again before it re-reads the job. *)
WokenReparks(p) ==
  /\ pc[p] = "parked" /\ Woken(p)
  /\ Done(p)
  /\ pc' = [pc EXCEPT ![p] = "reading"]
  /\ UNCHANGED store

(* The job has ended: the wake or the re-poll finds it. *)
SeesTheEndOnlyWhenWoken(p) ==
  /\ pc[p] = "reading"
  /\ Terminal(WatchOf[p])
  /\ Returns(p)
  /\ UNCHANGED <<store, notifier>>
SeesTheEnd(p) ==
  /\ pc[p] \in {"parked", "reading"}
  /\ Terminal(WatchOf[p])
  /\ Returns(p)
  /\ UNCHANGED <<store, notifier>>

ReadsOn(p) ==
  /\ pc[p] = "reading"
  /\ ~Terminal(WatchOf[p])
  /\ pc' = [pc EXCEPT ![p] = "parked"]
  /\ UNCHANGED <<store, notifier, wake>>

(* deadline, cancelled request, or a read error: the channel stays queued *)
LeaveWait(p) ==
  /\ pc[p] \in {"parked", "reading"}
  /\ Returns(p)
  /\ UNCHANGED <<store, notifier>>

-----------------------------------------------------------------------------
PollNext ==
  \/ \E j \in Jobs : \/ Submit(j) \/ GiveBack(j) \/ GiveUp(j) \/ Cancel(j)
                     \/ Retry(j) \/ Complete(j) \/ ClaimFinalization(j)
  \/ \E S \in SUBSET Jobs : SubmitBatch(S)
  \/ \E S, F \in SUBSET Jobs : RequeueExpired(S, F)
  \/ DeliverNotify \/ DeliverBroadcast \/ DeliverBridged \/ ListenBreaks
  \/ \E c \in Claimers : \/ ClaimNow(c) \/ FindsNothing(c) \/ ParkClaim(c)
                         \/ WokenClaims(c) \/ WokenInVain(c)
                         \/ PollClaims(c) \/ LeaveClaim(c)
  \/ \E p \in Producers : \/ StartsWaiting(p) \/ ParkWait(p) \/ WokenReparks(p)
                          \/ SeesTheEnd(p) \/ ReadsOn(p) \/ LeaveWait(p)

(* The re-poll timers keep firing while a request is parked; no signal has   *)
(* to arrive and no deadline has to pass.                                    *)
PollFairness ==
  /\ \A c \in Claimers : WF_pollVars(PollClaims(c))
  /\ \A p \in Producers : WF_pollVars(SeesTheEnd(p)) /\ WF_pollVars(ReadsOn(p))

PollSpec == PollInit /\ [][PollNext]_pollVars /\ PollFairness

-----------------------------------------------------------------------------
(* Properties *)

(* The notifier's own bookkeeping: the queue has no channel twice, queue and *)
(* present agree, and no queued channel is already closed, so that Notify    *)
(* never skips a waiter and never closes a channel twice (which panics).     *)
(* And a parked request can always be woken: its channel is in the queue or  *)
(* has already been closed, whatever wakes, forgets and broadcasts came      *)
(* between.                                                                  *)
NotifierSound ==
  /\ queue \in Seq(Chans)
  /\ Cardinality(Queued) = Len(queue)
  /\ present = Queued
  /\ closed \cap Queued = {}
  /\ \A r \in Requests : pc[r] = "parked" =>
       wake[r] \in Chans /\ (wake[r] \in Queued \/ Woken(r))

(* A worker does not sleep on work: with a claimable job in the store its    *)
(* long poll ends, even when the signal was lost or taken by someone else.   *)
NoSleepOnWork ==
  \A c \in Claimers :
    (pc[c] = "parked" /\ \E j \in Jobs : Claimable(j))
      ~> (pc[c] # "parked" \/ ~\E j \in Jobs : Claimable(j))

(* A producer learns of the end of its job, even when Complete sent no       *)
(* signal or the signal woke someone else.                                   *)
NoMissedEnd ==
  \A p \in Producers :
    (pc[p] = "parked" /\ Terminal(WatchOf[p]))
      ~> (pc[p] # "parked" \/ ~Terminal(WatchOf[p]))

(* No long poll sleeps through what it waits for. *)
EveryLongPollEnds == NoSleepOnWork /\ NoMissedEnd
=============================================================================
