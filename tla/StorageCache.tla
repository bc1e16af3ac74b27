---------------------------- MODULE StorageCache ----------------------------
(***************************************************************************)
(* The three-level cache of a worker (renderinggen/internal/storage): the  *)
(* objects on the heap (L1), the files on the local disk with their index  *)
(* (L2), and the object store (L3).                                        *)
(*                                                                         *)
(* A key is a content address; bytes are "good" when somebody has compared *)
(* them with their key, "rotten" when the store lost some of them since,   *)
(* and "unproven" when nobody has looked; every object has size 1, so that *)
(* budgets count objects.  Large I/O runs without the lock of the index:   *)
(* looking up, fetching and committing are steps of their own.  Only the   *)
(* streaming download compares a digest; the byte path, that of a backend  *)
(* which can not stream (storage.Memory), and the copy of PutFile install  *)
(* what they read.                                                         *)
(***************************************************************************)
EXTENDS Integers, Sequences, FiniteSets, SequencesExt

CONSTANTS
  Keys, Media,      \* content addresses; the ones too large for L1
  CacheCalls,       \* concurrent calls of the client
  L1Max, L2Max,     \* the caps of the two levels, in objects
  EvictionBatch,    \* evictionBatch
  NoFlight          \* no download of the key is in flight

ASSUME CacheAssumption == Media \subseteq Keys /\ L1Max \in Nat /\ L2Max \in Nat /\ EvictionBatch \in Nat /\ NoFlight \notin CacheCalls

VARIABLES
  streaming,        \* the backend implements ReaderBackend
  l1,               \* memCache.order: FIFO of the keys on the heap
  heap,             \* memCache.items: key -> its bytes, or "none"
  l2,               \* key -> the bytes of its file, or "none"
  index,            \* diskCache.entries, oldest access first
  total,            \* diskCache.total
  census,           \* reconcileOnce has run
  stuckFiles,       \* keys whose file an eviction could not remove
  l3,               \* key -> the bytes of the object in the store, or "absent"
  flight,           \* key -> the call that leads its download (inflight or pathInflight)
  cacheCall         \* call -> [pc, op, key, lead, bytes in hand]

memVars == <<l1, heap>>
diskVars == <<l2, index, total, stuckFiles>>
cacheVars == <<streaming, memVars, diskVars, census, l3, flight, cacheCall>>

Idle == [pc |-> "idle", op |-> "none", key |-> "none", lead |-> NoFlight, bytes |-> "none"]
ToSetOf(s) == {s[i] : i \in DOMAIN s}
Files == {k \in Keys : l2[k] # "none"}

CacheInit ==
  /\ streaming \in BOOLEAN
  /\ l1 = << >> /\ index = << >> /\ total = 0 /\ census = FALSE /\ stuckFiles = {}
  /\ heap = [k \in Keys |-> "none"]
  /\ l2 = [k \in Keys |-> "none"]
  /\ l3 = [k \in Keys |-> "good"]
  /\ flight = [k \in Keys |-> NoFlight]
  /\ cacheCall = [c \in CacheCalls |-> Idle]

At2(c, pc) == cacheCall[c].pc = pc
Goto2(c, pc) == cacheCall' = [cacheCall EXCEPT ![c].pc = pc]
Carries(c, pc, bytes) == cacheCall' = [cacheCall EXCEPT ![c].pc = pc, ![c].bytes = bytes]
Returns(c) == cacheCall' = [cacheCall EXCEPT ![c] = Idle]

\* LocalPath and, of a backend without streaming, Get.
Begin(c, op, k) ==
  /\ At2(c, "idle")
  /\ cacheCall' = [cacheCall EXCEPT ![c] = [Idle EXCEPT
       !.op = op, !.key = k, !.pc = IF op = "path" THEN "lookup" ELSE "heap"]]
  /\ UNCHANGED <<streaming, memVars, diskVars, census, l3, flight>>

\* Put of a plan and PutFile of a video: the store comes first.  The one behind HTTP
\* refuses bytes that do not hash to their key; storage.Memory takes anything.
StoreFirst(c, k) ==
  /\ At2(c, "idle")
  /\ l3' = [l3 EXCEPT ![k] = "good"]
  /\ cacheCall' = [cacheCall EXCEPT ![c] = [Idle EXCEPT
       !.op = IF k \in Media THEN "file" ELSE "put", !.key = k, !.pc = "install",
       !.bytes = IF streaming THEN "good" ELSE "unproven"]]
  /\ UNCHANGED <<streaming, memVars, diskVars, census, flight>>

\* PutFile opens its source a second time and does not hash the copy: it has what was
\* stored, unless the file has changed by then.
SourceChanges(c) ==
  /\ At2(c, "install") /\ cacheCall[c].op = "file"
  /\ Carries(c, "install", "unproven")
  /\ UNCHANGED <<streaming, memVars, diskVars, census, l3, flight>>

-----------------------------------------------------------------------------
(* L1 *)

Admits(k) == k \notin Media /\ L1Max > 0
L1Put(k, bytes) ==
  IF ~Admits(k) \/ heap[k] # "none" THEN UNCHANGED memVars
  ELSE LET full == Len(l1) >= L1Max
       IN /\ l1' = Append(IF full THEN Tail(l1) ELSE l1, k)
          /\ heap' = [j \in Keys |-> IF j = k THEN bytes
                                     ELSE IF full /\ j = Head(l1) THEN "none" ELSE heap[j]]

-----------------------------------------------------------------------------
(* L2: lookups, the census and the commit of an install *)

\* ContextPath: what is there is handed out, without a look at the index.
Lookup(c) ==
  /\ At2(c, "lookup")
  /\ IF l2[cacheCall[c].key] # "none" THEN Returns(c) ELSE Goto2(c, "recall")
  /\ UNCHANGED <<streaming, memVars, diskVars, census, l3, flight>>

\* reconcile: every file an earlier process left is indexed once, before the first
\* install of this one.
SkipsTheCensus == index' = index /\ total' = total
Reconcile ==
  LET left == Files \ ToSetOf(index)
  IN index' = SetToSeq(left) \o index /\ total' = total + Cardinality(left)
EnsureIndexed(c) ==
  /\ cacheCall[c].pc \in {"install", "warm", "download"} /\ ~census
  /\ census' = TRUE /\ Reconcile
  /\ UNCHANGED <<streaming, memVars, l2, stuckFiles, l3, flight, cacheCall>>

\* enforceBudget over the index s whose accounted size is n: the oldest entries go
\* until the budget holds or the batch is used up.  A file that cannot be removed is
\* forgotten all the same.
KeepsTheOldest(s, n) == 0
Victims(s, n) == IF n > L2Max THEN Min({n - L2Max, Len(s), EvictionBatch}) ELSE 0

Installed(k) == k \in ToSetOf(index) /\ l2[k] # "none"

\* The commit: a concurrent install of the key wins, an entry without a file is
\* dropped first, then rename, index and budget.
Commit(k, bytes) ==
  IF Installed(k)
  THEN /\ index' = Append(RemoveFirst(index, k), k)
       /\ UNCHANGED <<l2, total, stuckFiles>>
  ELSE LET s == Append(RemoveFirst(index, k), k)
           n == total + (IF k \in ToSetOf(index) THEN 0 ELSE 1)
           v == Victims(s, n)
           out == {s[i] : i \in 1..v}
       IN \E stays \in SUBSET out :
            /\ index' = SubSeq(s, v + 1, Len(s))
            /\ total' = n - v
            /\ l2' = [j \in Keys |-> IF j \in out \ stays THEN "none"
                                    ELSE IF j = k THEN bytes ELSE l2[j]]
            /\ stuckFiles' = (stuckFiles \ {k}) \cup {j \in stays : l2'[j] # "none"}

\* PutBytes or PutFile of the bytes in hand.
Install(c) ==
  /\ At2(c, "install") /\ census
  /\ Commit(cacheCall[c].key, cacheCall[c].bytes)
  /\ IF cacheCall[c].op = "put" THEN L1Put(cacheCall[c].key, cacheCall[c].bytes) ELSE UNCHANGED memVars
  /\ Returns(c)
  /\ UNCHANGED <<streaming, census, l3, flight>>

-----------------------------------------------------------------------------
(* L3: the single flight of a download *)

\* An object that is still on the heap is installed again; otherwise startPathFetch, or
\* startFetch of the byte path, makes the call the leader of the download or a follower.
EveryoneLeads(k) == TRUE
NobodyLeads(k) == flight[k] = NoFlight
Join(c, k) ==
  IF NobodyLeads(k)
  THEN /\ flight' = [flight EXCEPT ![k] = c]
       /\ cacheCall' = [cacheCall EXCEPT ![c].pc = IF streaming THEN "download" ELSE "fetch",
                                         ![c].lead = c]
  ELSE /\ cacheCall' = [cacheCall EXCEPT ![c].pc = "follow", ![c].lead = flight[k]]
       /\ UNCHANGED flight
\* Without the heap: the download of a backend that streams, or Get.
FromStore(c) ==
  IF streaming THEN Join(c, cacheCall[c].key) ELSE Goto2(c, "heap") /\ UNCHANGED flight
Recall(c) ==
  /\ At2(c, "recall")
  /\ LET k == cacheCall[c].key
     IN IF heap[k] # "none" THEN Carries(c, "install", heap[k]) /\ UNCHANGED flight
                            ELSE FromStore(c)
  /\ UNCHANGED <<streaming, memVars, diskVars, census, l3>>

\* A write of the cache that fails costs Put nothing; it sends LocalPath to the store,
\* and fails PutFile and a LocalPath that has been there ("again").
InstallFails(c) ==
  /\ At2(c, "install")
  /\ CASE cacheCall[c].op = "put" -> /\ L1Put(cacheCall[c].key, cacheCall[c].bytes) /\ Returns(c)
                                     /\ UNCHANGED flight
       [] cacheCall[c].op = "path" -> FromStore(c) /\ UNCHANGED memVars
       [] OTHER -> Returns(c) /\ UNCHANGED <<memVars, flight>>
  /\ UNCHANGED <<streaming, diskVars, census, l3>>

\* finishPathFetch: the result for the followers, and the next miss leads again.
Follows(d, c) == At2(d, "follow") /\ cacheCall[d].lead = c
LeavesThemWaiting(c) == Returns(c) /\ UNCHANGED flight
FinishPathFetch(c) ==
  /\ flight' = [flight EXCEPT ![cacheCall[c].key] = NoFlight]
  /\ cacheCall' = [d \in CacheCalls |-> IF d = c \/ Follows(d, c) THEN Idle ELSE cacheCall[d]]

\* InstallReader: size and digest of the stream are compared before the commit.
TakesAnything(bytes) == TRUE
StreamProves(bytes) == bytes = "good"

Download(c) ==
  /\ At2(c, "download") /\ census
  /\ LET k == cacheCall[c].key IN
     \/ /\ l3[k] # "absent" /\ StreamProves(l3[k])
        /\ Commit(k, l3[k]) /\ FinishPathFetch(c)
     \/ \* no such object, the request or the disk fails, the bytes are wrong
        /\ FinishPathFetch(c)
        /\ UNCHANGED diskVars
  /\ UNCHANGED <<streaming, memVars, census, l3>>

\* A follower whose own context ends does not wait for the leader.
FollowerGivesUp(c) ==
  /\ At2(c, "follow") /\ Returns(c)
  /\ UNCHANGED <<streaming, memVars, diskVars, census, l3, flight>>

-----------------------------------------------------------------------------
(* The byte path of a backend without streaming: Get, by itself or for LocalPath. *)

\* A call with the bytes of Get: LocalPath installs them once more.
Got(call, bytes) ==
  IF call.op = "get" THEN Idle
  ELSE [call EXCEPT !.op = "again", !.pc = "install", !.lead = NoFlight, !.bytes = bytes]
GotBytes(c, bytes) == cacheCall' = [cacheCall EXCEPT ![c] = Got(@, bytes)]

\* The heap, the file, which is too large or cannot be read if not absent, the store.
Get(c) ==
  /\ At2(c, "heap")
  /\ LET k == cacheCall[c].key IN
     IF heap[k] # "none" THEN GotBytes(c, heap[k]) /\ UNCHANGED flight
     ELSE \/ l2[k] # "none" /\ Carries(c, "touch", l2[k]) /\ UNCHANGED flight
          \/ Join(c, k)
  /\ UNCHANGED <<streaming, memVars, diskVars, census, l3>>

\* diskCache.Get writes the index entry of what it has read, and not the total.
TouchEntry(c) ==
  /\ At2(c, "touch")
  /\ LET k == cacheCall[c].key IN
     /\ index' = Append(RemoveFirst(index, k), k)
     /\ L1Put(k, cacheCall[c].bytes) /\ GotBytes(c, cacheCall[c].bytes)
  /\ UNCHANGED <<streaming, l2, total, census, stuckFiles, l3, flight>>

\* Whatever the store has under the key is taken as it is; a failure is shared by the
\* followers.
Fetch(c) ==
  /\ At2(c, "fetch")
  /\ LET k == cacheCall[c].key IN
     \/ l3[k] # "absent" /\ Carries(c, "warm", "unproven") /\ UNCHANGED flight
     \/ FinishPathFetch(c)
  /\ UNCHANGED <<streaming, memVars, diskVars, census, l3>>

\* warmL2: a write that fails is only counted.
WarmL2(c) ==
  /\ At2(c, "warm")
  /\ \/ census /\ Commit(cacheCall[c].key, cacheCall[c].bytes)
     \/ UNCHANGED diskVars
  /\ Goto2(c, "share")
  /\ UNCHANGED <<streaming, memVars, census, l3, flight>>

\* L1, and finishFetch: the followers get a copy.
ShareFetch(c) ==
  /\ At2(c, "share")
  /\ LET call == cacheCall[c] IN
     /\ L1Put(call.key, call.bytes)
     /\ flight' = [flight EXCEPT ![call.key] = NoFlight]
     /\ cacheCall' = [d \in CacheCalls |->
          IF d = c \/ Follows(d, c) THEN Got(cacheCall[d], call.bytes) ELSE cacheCall[d]]
  /\ UNCHANGED <<streaming, diskVars, census, l3>>

-----------------------------------------------------------------------------
(* The environment *)

\* An operator or the system removes a cached file.
FileVanishes(k) ==
  /\ l2[k] # "none"
  /\ l2' = [l2 EXCEPT ![k] = "none"] /\ stuckFiles' = stuckFiles \ {k}
  /\ UNCHANGED <<streaming, memVars, index, total, census, l3, flight, cacheCall>>

\* The stored object is lost, or rots; the store does not look at it on a read, and a
\* reader of the byte path cannot tell.
ObjectDecays(k) ==
  /\ \A j \in Keys : l3[j] = "good"       \* one object at a time
  /\ \/ l3' = [l3 EXCEPT ![k] = "absent"]
     \/ streaming /\ l3' = [l3 EXCEPT ![k] = "rotten"]
  /\ UNCHANGED <<streaming, memVars, diskVars, census, flight, cacheCall>>

\* The worker dies: the files stay, everything else is gone.
WorkerRestarts ==
  /\ l1' = << >> /\ heap' = [k \in Keys |-> "none"]
  /\ index' = << >> /\ total' = 0 /\ census' = FALSE /\ stuckFiles' = {}
  /\ flight' = [k \in Keys |-> NoFlight]
  /\ cacheCall' = [c \in CacheCalls |-> Idle]
  /\ UNCHANGED <<streaming, l2, l3>>

CacheStep(c) ==
  \/ Lookup(c) \/ Recall(c) \/ EnsureIndexed(c) \/ Install(c) \/ InstallFails(c) \/ Download(c)
  \/ Get(c) \/ TouchEntry(c) \/ Fetch(c) \/ WarmL2(c) \/ ShareFetch(c)

Ops == IF streaming THEN {"path"} ELSE {"path", "get"}

CacheNext ==
  \/ \E c \in CacheCalls : \/ CacheStep(c) \/ FollowerGivesUp(c)
                           \/ SourceChanges(c)
                           \/ \E k \in Keys : StoreFirst(c, k) \/ \E op \in Ops : Begin(c, op, k)
  \/ \E k \in Keys : FileVanishes(k) \/ ObjectDecays(k)
  \/ WorkerRestarts

CacheSpec == CacheInit /\ [][CacheNext]_cacheVars

-----------------------------------------------------------------------------
(* Properties *)

\* Calls that lead a download, of a path or of bytes.
Leads(c) == cacheCall[c].pc \in {"download", "fetch", "warm", "share"}

\* Of a streaming backend: however calls, evictions, restarts and a rotting store
\* interleave, every cached file holds the bytes of its key, but for one that PutFile
\* copied after it had changed, and RAM is never wrong.  Of any backend: a key is
\* downloaded by one call at a time, and whoever follows a download has a leader that is
\* still at it: nobody waits for a download that has ended.
CacheIsGenuine ==
  /\ streaming => \A k \in Keys :
       /\ l2[k] \in {"none", "good"} \/ (l2[k] = "unproven" /\ k \in Media)
       /\ heap[k] \in {"none", "good"}
  /\ \A c, d \in CacheCalls :
       Leads(c) /\ Leads(d) /\ cacheCall[c].key = cacheCall[d].key => c = d
  /\ \A c \in CacheCalls : At2(c, "follow") =>
       LET d == cacheCall[c].lead
       IN  /\ d \in CacheCalls /\ Leads(d)
           /\ cacheCall[d].key = cacheCall[c].key /\ flight[cacheCall[c].key] = d

\* Once the census ran, the budget is kept against the real directory: the files
\* are those of the index and those that could not be removed, the accounted size
\* is that of the index, and whatever an earlier process left behind, an install
\* brings it within the budget or makes it smaller by all but one of a batch.  Of a
\* streaming backend only: the byte path indexes what it reads without accounting
\* for it.
DiskWithinBudget ==
  /\ [](streaming /\ census => total = Len(index) /\ Files \subseteq ToSetOf(index) \cup stuckFiles)
  /\ [][streaming /\ (\E k \in Keys : l2[k] = "none" /\ l2'[k] # "none") =>
          total' <= L2Max \/ total' <= total + 1 - EvictionBatch]_cacheVars
=============================================================================
