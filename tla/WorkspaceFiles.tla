--------------------------- MODULE WorkspaceFiles ---------------------------
(***************************************************************************)
(* The files behind one job's workspace (renderinggen/internal/workspace): *)
(* the job directory, its lock file, the lock registry and the liveness    *)
(* marker, shared by every worker process on the host.                     *)
(*                                                                         *)
(* A name and what it names are kept apart: a directory or lock file is an *)
(* inode, an unlinked inode lives on while a process has it open, and an   *)
(* flock belongs to the inode.  Every system call whose order matters is a *)
(* step; what a process does under the registry lock is one step unless an *)
(* unlocked step of somebody else can tell.                                *)
(***************************************************************************)
CONSTANTS
  Opens,     \* calls of New: attempts of the job in any process of the host
  Sweepers,  \* stale sweeps, one per worker process
  Inodes,    \* bound of the model: inodes of each kind in use at a time
  NoInode

Users == Opens \cup Sweepers

\* A new file always finds an inode that no user has open.
ASSUME InodeAssumption ==
  /\ NoInode \notin Inodes
  /\ \A used \in [Users -> Inodes \cup {NoInode}] : \E i \in Inodes : \A u \in Users : i # used[u]

VARIABLES
  jobDir,     \* the directory the job's name refers to, or NoInode
  lockEntry,  \* the lock file its lock name refers to, or NoInode
  flocked,    \* lock files some process holds an flock on
  registry,   \* the users inside the lock registry (at most one)
  step,       \* where each user is
  root,       \* the directory a user has pinned, or NoInode
  lockFile,   \* the lock file a user has open and locked, or NoInode
  marker,     \* jobDir's .lease_until: "none", "valid" or "expired"
  aged        \* whether jobDir's modification time is behind the cutoff

wsVars == <<jobDir, lockEntry, flocked, registry, step, root, lockFile,
            marker, aged>>

OpenSteps == {"idle", "made", "locked", "refused", "open", "emptied", "removed",
              "stuck"}
SweepSteps == {"idle", "seen", "checking", "doomed", "cleared"}

WsInit ==
  /\ jobDir = NoInode /\ lockEntry = NoInode
  /\ flocked = {} /\ registry = {}
  /\ step = [u \in Users |-> "idle"]
  /\ root = [u \in Users |-> NoInode]
  /\ lockFile = [u \in Users |-> NoInode]
  /\ marker = "none" /\ aged = FALSE

Moves(u, from, to) == step[u] = from /\ step' = [step EXCEPT ![u] = to]

\* Any unused inode serves for a new file: nothing depends on which.
NewDir == CHOOSE i \in Inodes : i # jobDir /\ \A u \in Users : i # root[u]
NewLock == CHOOSE i \in Inodes : i # lockEntry /\ i \notin flocked

\* RemoveAll of the job's directory, by name: its marker goes with it.
RemoveAll == jobDir' = NoInode /\ marker' = "none" /\ aged' = FALSE

-----------------------------------------------------------------------------
(* New *)

\* Mkdir, before any lock is taken; an existing directory is fine.
MakeDir(u) ==
  /\ Moves(u, "idle", "made")
  /\ jobDir' = IF jobDir # NoInode THEN jobDir ELSE NewDir
  /\ UNCHANGED <<marker, aged, lockEntry, flocked, registry, root, lockFile>>

\* openWorkspaceLock: the lock file at the name, created if there is none.
OpenedLock == IF lockEntry = NoInode THEN NewLock ELSE lockEntry

\* lockWorkspaceSlot, not waiting.
LocksAnyway(i) == TRUE
CanLock(i) == i \notin flocked

\* acquireWorkspaceLock, under the registry lock from beginning to end.
AcquireLock(u) ==
  /\ registry = {}
  /\ LET i == OpenedLock IN
       /\ lockEntry' = i
       /\ IF CanLock(i)
          THEN /\ Moves(u, "made", "locked")
               /\ flocked' = flocked \cup {i}
               /\ lockFile' = [lockFile EXCEPT ![u] = i]
          ELSE /\ Moves(u, "made", "idle")      \* errWorkspaceBusy
               /\ UNCHANGED <<flocked, lockFile>>
  /\ UNCHANGED <<jobDir, registry, root, marker, aged>>

\* Lstat, OpenRoot and SameFile: the directory of Mkdir may be gone by now.
PinRoot(u) ==
  /\ IF jobDir = NoInode
     THEN Moves(u, "locked", "refused") /\ UNCHANGED root
     ELSE Moves(u, "locked", "open") /\ root' = [root EXCEPT ![u] = jobDir]
  /\ UNCHANGED <<jobDir, lockEntry, flocked, registry, lockFile, marker, aged>>

\* What closing a lock file does, whoever closes it.
CloseLock(u) ==
  /\ flocked' = flocked \ {lockFile[u]}
  /\ lockFile' = [lockFile EXCEPT ![u] = NoInode]
  /\ root' = [root EXCEPT ![u] = NoInode]

\* removeWorkspaceLock, the way out of a New that failed.
RemoveLock(u) ==
  /\ registry = {}
  /\ Moves(u, "refused", "idle")
  /\ lockEntry' = NoInode
  /\ CloseLock(u)
  /\ UNCHANGED <<jobDir, registry, marker, aged>>

\* WriteLease, through the pinned root.
WriteLease(u) ==
  /\ step[u] = "open" /\ root[u] = jobDir
  /\ marker' = "valid"
  /\ UNCHANGED <<jobDir, lockEntry, flocked, registry, step, root, lockFile, aged>>

-----------------------------------------------------------------------------
(* Cleanup *)

\* RemoveAll by name, inside the registry.
RemoveTree(u) ==
  /\ registry = {}
  /\ registry' = {u}
  /\ Moves(u, "open", "emptied")
  /\ RemoveAll
  /\ UNCHANGED <<lockEntry, flocked, root, lockFile>>

\* RemoveAll fails: the directory and the lock stay with the process.
RemoveTreeFails(u) ==
  /\ registry = {}
  /\ Moves(u, "open", "stuck")
  /\ UNCHANGED <<jobDir, lockEntry, flocked, registry, root, lockFile, marker, aged>>

\* The entry goes and the registry is left while the lock is still held ...
RemoveEntry(u) ==
  /\ Moves(u, "emptied", "removed")
  /\ lockEntry' = NoInode
  /\ registry' = {}
  /\ UNCHANGED <<jobDir, flocked, root, lockFile, marker, aged>>

\* ... and only then the unlinked file is unlocked.
ReleaseLock(u) ==
  /\ Moves(u, "removed", "idle")
  /\ CloseLock(u)
  /\ UNCHANGED <<jobDir, lockEntry, registry, marker, aged>>

-----------------------------------------------------------------------------
(* CleanupStale *)

\* ReadDir, Lstat and OpenRoot of a directory older than the cutoff.
FindCandidate(s) ==
  /\ jobDir # NoInode /\ aged
  /\ Moves(s, "idle", "seen")
  /\ root' = [root EXCEPT ![s] = jobDir]
  /\ UNCHANGED <<jobDir, lockEntry, flocked, registry, lockFile, marker, aged>>

\* The registry is kept while the candidate's lock is tried.
LockCandidate(s) ==
  /\ registry = {}
  /\ LET i == OpenedLock IN
       /\ lockEntry' = i
       /\ IF CanLock(i)
          THEN /\ Moves(s, "seen", "checking")
               /\ registry' = {s}
               /\ flocked' = flocked \cup {i}
               /\ lockFile' = [lockFile EXCEPT ![s] = i]
               /\ UNCHANGED root
          ELSE /\ Moves(s, "seen", "idle")
               /\ root' = [root EXCEPT ![s] = NoInode]
               /\ UNCHANGED <<registry, flocked, lockFile>>
  /\ UNCHANGED <<jobDir, marker, aged>>

\* The marker is read through the pinned root: an unlinked tree has none.
AnyMarkerCounts(s) == root[s] = jobDir /\ marker # "none"
MarkerValid(s) == root[s] = jobDir /\ marker = "valid"

CheckMarker(s) ==
  /\ IF MarkerValid(s)
     THEN Moves(s, "checking", "idle") /\ registry' = {} /\ CloseLock(s)
     ELSE Moves(s, "checking", "doomed") /\ UNCHANGED <<registry, flocked, lockFile, root>>
  /\ UNCHANGED <<jobDir, lockEntry, marker, aged>>

\* RemoveAll by name.
SweepTree(s) ==
  /\ Moves(s, "doomed", "cleared")
  /\ RemoveAll
  /\ UNCHANGED <<lockEntry, flocked, registry, root, lockFile>>

\* RemoveAll fails: the sweep lets go of the directory and of its lock.
SweepFails(s) ==
  /\ Moves(s, "doomed", "idle")
  /\ registry' = {}
  /\ CloseLock(s)
  /\ UNCHANGED <<jobDir, lockEntry, marker, aged>>

SweepEntry(s) ==
  /\ Moves(s, "cleared", "idle")
  /\ lockEntry' = NoInode
  /\ registry' = {}
  /\ CloseLock(s)
  /\ UNCHANGED <<jobDir, marker, aged>>

-----------------------------------------------------------------------------
(* Time and crashes *)

Age ==
  /\ jobDir # NoInode
  /\ aged' = TRUE
  /\ UNCHANGED <<jobDir, lockEntry, flocked, registry, step, root, lockFile, marker>>

MarkerExpires ==
  /\ marker = "valid"
  /\ marker' = "expired"
  /\ UNCHANGED <<jobDir, lockEntry, flocked, registry, step, root, lockFile, aged>>

\* The kernel drops the locks of a process that dies; its files stay.
UserDies(u) ==
  /\ step[u] # "idle"
  /\ step' = [step EXCEPT ![u] = "idle"]
  /\ registry' = registry \ {u}
  /\ CloseLock(u)
  /\ UNCHANGED <<jobDir, lockEntry, marker, aged>>

-----------------------------------------------------------------------------
OpenStep(u) == MakeDir(u) \/ AcquireLock(u) \/ PinRoot(u) \/ RemoveLock(u)
CleanupStep(u) == RemoveTree(u) \/ RemoveEntry(u) \/ ReleaseLock(u)
SweepStep(s) ==
  FindCandidate(s) \/ LockCandidate(s) \/ CheckMarker(s) \/ SweepTree(s) \/ SweepEntry(s)

WsNext ==
  \/ \E u \in Opens : \/ OpenStep(u) \/ WriteLease(u) \/ CleanupStep(u)
                      \/ RemoveTreeFails(u)
  \/ \E s \in Sweepers : SweepStep(s) \/ SweepFails(s)
  \/ \E u \in Users : UserDies(u)
  \/ Age \/ MarkerExpires

WsSpec == WsInit /\ [][WsNext]_wsVars

\* A call that has begun goes on, the sweeps keep coming (a host does not die at
\* the same step of every sweep) and time passes; no attempt has to begin, and an
\* open workspace need never be cleaned up.
WsFairness ==
  /\ \A u \in Opens : WF_wsVars(step[u] # "idle" /\ OpenStep(u))
                        /\ WF_wsVars(step[u] # "open" /\ CleanupStep(u))
  /\ \A s \in Sweepers :
       /\ SF_wsVars(FindCandidate(s)) /\ SF_wsVars(LockCandidate(s))
       /\ SF_wsVars(CheckMarker(s)) /\ SF_wsVars(SweepTree(s))
       /\ SF_wsVars(SweepEntry(s))
  /\ WF_wsVars(Age) /\ WF_wsVars(MarkerExpires)

WsFairSpec == WsSpec /\ WsFairness

-----------------------------------------------------------------------------
(* Properties *)

\* An open workspace is the directory at the job's name until its own Cleanup:
\* no sweep that pinned an older tree, no late Cleanup and no failed New of
\* another attempt removes it, and no two attempts have it open.
WorkspaceIsOwned ==
  \A u \in Opens : step[u] \in {"open", "stuck"} =>
    /\ root[u] = jobDir
    /\ \A v \in Opens \ {u} : step[v] \notin {"open", "stuck", "emptied"}

\* A directory a dead worker left behind is swept or used again; only a live
\* process with the lock can keep it.
LeftoverIsSwept ==
  jobDir # NoInode ~> (jobDir = NoInode \/ \E u \in Opens : lockFile[u] # NoInode)
=============================================================================
