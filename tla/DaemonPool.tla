----------------------------- MODULE DaemonPool -----------------------------
(***************************************************************************)
(* The life of the warm renderer daemons (renderinggen/internal/chronon/   *)
(* daemon_pool.go): StartDaemonPool adopts the sockets that serve, starts  *)
(* a daemon for each missing one and waits until it answers; Shutdown      *)
(* stops the daemons this process started.  The daemons are external: they *)
(* begin to serve, hang or die as they please.                             *)
(***************************************************************************)
EXTENDS Naturals

CONSTANT DaemonCount

Daemons == 1..DaemonCount

VARIABLES
  pool,      \* "starting", "failing", "failed", "ready", "stopping", "stopped"
  index,     \* the daemon the loop is at
  sockFile,  \* per socket path what is there: "none", "socket" or "other"
  serves,    \* sockets that answer STATUS
  proc,     \* per daemon the process started here: "none", "alive", "exited", "reaped"
  handle,    \* per daemon the pool's entry: "none", "adopted" or "owned"
  asked      \* owned daemons that were told to stop, or killed

daemonVars == <<pool, index, sockFile, serves, proc, handle, asked>>

PoolInit ==
  /\ pool = "starting" /\ index = 1
  /\ sockFile \in [Daemons -> {"none", "socket", "other"}]
  /\ serves \in SUBSET {d \in Daemons : sockFile[d] = "socket"}
  /\ proc = [d \in Daemons |-> "none"]
  /\ handle = [d \in Daemons |-> "none"]
  /\ asked = {}

\* The pool entry for the daemon of the loop; after the last one it is ready.
Enter(kind) ==
  /\ handle' = [handle EXCEPT ![index] = kind]
  /\ index' = index + 1
  /\ pool' = IF index = DaemonCount THEN "ready" ELSE "starting"

Here == pool = "starting" /\ index \in Daemons

\* An existing path must be a socket that answers before the deadline; the daemon
\* behind it belongs to somebody else.
AdoptDaemon ==
  /\ Here /\ sockFile[index] = "socket" /\ proc[index] = "none"
  /\ index \in serves
  /\ Enter("adopted")
  /\ UNCHANGED <<sockFile, serves, proc, asked>>

RefuseSocket ==
  /\ Here /\ proc[index] = "none"
  /\ \/ sockFile[index] = "other"
     \/ sockFile[index] = "socket" /\ index \notin serves
  /\ pool' = "failing"
  /\ UNCHANGED <<index, sockFile, serves, proc, handle, asked>>

SpawnDaemon ==
  /\ Here /\ sockFile[index] = "none" /\ proc[index] = "none"
  /\ \/ proc' = [proc EXCEPT ![index] = "alive"] /\ UNCHANGED pool
     \/ pool' = "failing" /\ UNCHANGED proc
  /\ UNCHANGED <<index, sockFile, serves, handle, asked>>

\* waitForDaemon: a socket file is not enough, STATUS has to be answered.
AnswersStatus == index \in serves

DaemonReady ==
  /\ Here /\ proc[index] \in {"alive", "exited"} /\ AnswersStatus
  /\ Enter("owned")
  /\ UNCHANGED <<sockFile, serves, proc, asked>>

\* The child exits first, the caller gives up or the time is over: it is killed
\* and awaited before the others are.
WaitsForTheExit ==
  /\ Here /\ proc[index] = "exited"
  /\ proc' = [proc EXCEPT ![index] = "reaped"]
  /\ serves' = serves \ {index}
  /\ pool' = "failing"
  /\ UNCHANGED <<index, sockFile, handle, asked>>
DaemonNotReady ==
  /\ Here /\ proc[index] \in {"alive", "exited"}
  /\ proc' = [proc EXCEPT ![index] = "reaped"]
  /\ serves' = serves \ {index}
  /\ pool' = "failing"
  /\ UNCHANGED <<index, sockFile, handle, asked>>

\* killStarted: every daemon started here, and only those.
KillsOnlyTheLast(d) == handle[d] = "owned" /\ d = index
KillsStarted(d) == handle[d] = "owned"

KillStarted ==
  /\ pool = "failing"
  /\ proc' = [d \in Daemons |-> IF KillsStarted(d) THEN "reaped" ELSE proc[d]]
  /\ serves' = {d \in serves : ~KillsStarted(d)}
  /\ pool' = "failed"
  /\ UNCHANGED <<index, sockFile, handle, asked>>

-----------------------------------------------------------------------------
(* Shutdown *)

BeginShutdown ==
  /\ pool = "ready"
  /\ pool' = "stopping" /\ index' = 1
  /\ UNCHANGED <<sockFile, serves, proc, handle, asked>>

\* A daemon that was adopted is left alone; one that does not answer is killed.
StopsAny == TRUE
OwnedHere == handle[index] = "owned"
AskToStop ==
  /\ pool = "stopping" /\ index \in Daemons /\ index \notin asked
  /\ IF OwnedHere
     THEN /\ asked' = asked \cup {index}
          /\ proc' = [proc EXCEPT ![index] =
                         IF @ = "alive" /\ index \notin serves THEN "exited" ELSE @]
          /\ UNCHANGED <<index, pool>>
     ELSE /\ index' = index + 1
          /\ pool' = IF index = DaemonCount THEN "stopped" ELSE pool
          /\ UNCHANGED <<asked, proc>>
  /\ UNCHANGED <<sockFile, serves, handle>>

\* reap: the single Wait result, with a kill after the grace period.
SkipsReap == UNCHANGED <<proc, serves>>
Reaped ==
  /\ proc' = [proc EXCEPT ![index] = "reaped"]
  /\ serves' = serves \ {index}
ReapDaemon ==
  /\ pool = "stopping" /\ index \in asked
  /\ Reaped
  /\ index' = index + 1
  /\ pool' = IF index = DaemonCount THEN "stopped" ELSE pool
  /\ UNCHANGED <<sockFile, handle, asked>>

-----------------------------------------------------------------------------
(* The daemons *)

DaemonServes(d) ==
  /\ proc[d] = "alive"
  /\ sockFile' = [sockFile EXCEPT ![d] = "socket"]
  /\ \/ serves' = serves \cup {d}
     \/ UNCHANGED serves               \* bound but not yet serving
  /\ UNCHANGED <<pool, index, proc, handle, asked>>

DaemonExits(d) ==
  /\ proc[d] = "alive"
  /\ proc' = [proc EXCEPT ![d] = "exited"]
  /\ serves' = serves \ {d}
  /\ UNCHANGED <<pool, index, sockFile, handle, asked>>

\* A daemon of somebody else may stop at any time; its socket file stays.
ForeignExits(d) ==
  /\ proc[d] = "none" /\ d \in serves
  /\ serves' = serves \ {d}
  /\ UNCHANGED <<pool, index, sockFile, proc, handle, asked>>

PoolStep ==
  \/ AdoptDaemon \/ RefuseSocket \/ SpawnDaemon \/ DaemonReady \/ DaemonNotReady
  \/ KillStarted \/ AskToStop \/ ReapDaemon

PoolNext ==
  \/ PoolStep \/ BeginShutdown
  \/ \E d \in Daemons : DaemonServes(d) \/ DaemonExits(d) \/ ForeignExits(d)

PoolSpec == PoolInit /\ [][PoolNext]_daemonVars
PoolFairness == WF_daemonVars(PoolStep)

-----------------------------------------------------------------------------
(* Properties *)

\* A start that failed and a shutdown that returned leave no process of theirs
\* behind, whatever daemon refused to start, hung or died, and no zombie.
NoDaemonLeftBehind ==
  pool \in {"failed", "stopped"} => \A d \in Daemons : proc[d] \in {"none", "reaped"}

\* A daemon that was serving before this process came is never stopped by it.
ForeignDaemonSpared ==
  [][\A d \in Daemons : handle[d] = "adopted" => proc'[d] = "none" /\ d \notin asked']_daemonVars

\* Start and shutdown come to an end although a daemon never answers.
PoolSettles == (pool \in {"starting", "stopping"}) ~> (pool \in {"ready", "failed", "stopped"})
=============================================================================
