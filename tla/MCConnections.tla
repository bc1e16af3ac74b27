--------------------------- MODULE MCConnections ---------------------------
(* The two long connections of the system, one at a time: the long polls of  *)
(* the queue, and the upload that follows a render's file while it grows.    *)
(* They share no state, so a behaviour runs one of them, the part, and the   *)
(* other stays in its first state.                                           *)
EXTENDS TailUpload, LongPoll, TLC

CONSTANTS j1, j2, p1
VARIABLE part

\* stagingSessionID gives every upload a session of its own.
OwnSession == [u \in Uploads |-> u]
\* a producer waits for j1
WatchFirst == p1 :> j1

ConnectionsInit == part \in {"poll", "tail"} /\ Init /\ PollInit

TailRuns == part = "tail" /\ Next /\ UNCHANGED <<part, pollVars>>
PollRuns == part = "poll" /\ PollNext /\ UNCHANGED <<part, vars>>
ConnectionsNext == TailRuns \/ PollRuns

\* The fairness of each part: no step of the uploads or the polls that it is about is
\* possible in the first state, so it asks nothing of the part that does not run.
ConnectionsSpec ==
  /\ ConnectionsInit /\ [][ConnectionsNext]_<<part, vars, pollVars>>
  /\ UploadFairness /\ PollFairness

\* Every request that waits is answered and every upload comes to its end.
EveryConnectionEnds == EveryUploadEnds /\ EveryLongPollEnds
=============================================================================
