----------------------------- MODULE ObjectStore -----------------------------
(***************************************************************************)
(* A verified PUT of the object store (objectstore/internal) from the HTTP *)
(* client of a worker to the disk, with power losses at every step, and    *)
(* the audit of what is stored.                                            *)
(*                                                                         *)
(* What a reader sees (visible) and what survives a power loss (durable)   *)
(* are kept apart: contents are durable after the fsync of the file, names *)
(* after the fsync of the directory; before that a power loss may keep     *)
(* either.  Staged uploads are in TailUpload.                              *)
(***************************************************************************)
EXTENDS Naturals, FiniteSets

CONSTANTS Addresses, Uploads

VARIABLES
  adapter,      \* "disk" or "memory": the Backend behind the handlers
  visible,      \* address -> "none", "good", "wrong" or "torn" bytes, or "unsynced"
                \* ones, which a power loss tears
  durable,      \* address -> what a power loss leaves
  fileSynced,   \* uploads whose temporary file was fsynced
  temps,        \* uploads whose temporary file exists
  upload,       \* upload -> [pc, key, bytes, token]
  verdictOf,    \* upload -> what the client concludes
  acked,        \* addresses whose PUT was answered 201 to a client
  decayed       \* addresses an outside event has changed

storeVars == <<adapter, visible, durable, fileSynced, temps, upload, verdictOf, acked, decayed>>

NoUpload == [pc |-> "none", key |-> "malformed", bytes |-> "right", token |-> TRUE]

StoreInit ==
  /\ adapter \in {"disk", "memory"}
  /\ visible = [k \in Addresses |-> "none"] /\ durable = visible
  /\ fileSynced = {} /\ temps = {} /\ acked = {} /\ decayed = {}
  /\ upload = [q \in Uploads |-> NoUpload]
  /\ verdictOf = [q \in Uploads |-> "none"]

In(q, pc) == upload[q].pc = pc
Moved2(q, pc) == upload' = [upload EXCEPT ![q].pc = pc]

\* StoreReader of the HTTP backend: the statuses a retry cannot change are told apart.
RetriesNothing(status) == IF status = 201 THEN "stored" ELSE "rejected"
ClientConcludes(status) ==
  IF status \in {200, 201, 204} THEN "stored"
  ELSE IF status \in {400, 422} THEN "rejected" ELSE "failed"

Respond(q, status) ==
  /\ Moved2(q, "answered")
  /\ \/ /\ verdictOf' = [verdictOf EXCEPT ![q] = ClientConcludes(status)]
        /\ acked' = IF status = 201 THEN acked \cup {upload[q].key} ELSE acked
     \/ \* the answer is lost
        verdictOf' = [verdictOf EXCEPT ![q] = "failed"] /\ UNCHANGED acked

\* A worker sends bytes under a key; the bytes may be other ones, or fewer than
\* announced, and the token may be missing.
SendPut(q) ==
  /\ In(q, "none")
  /\ \E k \in Addresses \cup {"malformed"}, b \in {"right", "wrong", "short", "large"},
        t \in BOOLEAN :
       upload' = [upload EXCEPT ![q] = [pc |-> "sent", key |-> k, bytes |-> b, token |-> t]]
  /\ UNCHANGED <<adapter, visible, durable, fileSynced, temps, verdictOf, acked, decayed>>

\* authMiddleware, CanonicalContentAddress and the temporary file.
Accept(q) ==
  /\ In(q, "sent")
  /\ CASE ~upload[q].token -> Respond(q, 401) /\ UNCHANGED temps
       [] upload[q].token /\ upload[q].key = "malformed" -> Respond(q, 400) /\ UNCHANGED temps
       [] OTHER -> /\ Moved2(q, "stream")
                   /\ temps' = IF adapter = "disk" THEN temps \cup {q} ELSE temps
                   /\ UNCHANGED <<verdictOf, acked>>
  /\ UNCHANGED <<adapter, visible, durable, fileSynced, decayed>>

\* The copy with its digest: body cap, content length, then the address.  A refused
\* upload removes its temporary file.
TrustsTheKey(q) == upload[q].bytes \in {"right", "wrong"}
DigestIsKey(q) == upload[q].bytes = "right"
PutErrorStatus(q) ==
  CASE upload[q].bytes = "large" -> 413 [] upload[q].bytes = "short" -> 500
    [] OTHER -> 422
Content(q) == IF upload[q].bytes = "right" THEN "good" ELSE "wrong"

StreamAndVerify(q) ==
  /\ In(q, "stream")
  /\ IF DigestIsKey(q)
     THEN /\ Moved2(q, IF adapter = "disk" THEN "sync" ELSE "install")
          /\ UNCHANGED <<temps, verdictOf, acked>>
     ELSE Respond(q, PutErrorStatus(q)) /\ temps' = temps \ {q}
  /\ UNCHANGED <<adapter, visible, durable, fileSynced, decayed>>

\* A write, a sync or a rename that fails: 500, and the temporary file goes.
DiskFails(q) ==
  /\ upload[q].pc \in {"stream", "sync", "install", "syncdir"}
  /\ Respond(q, 500) /\ temps' = temps \ {q}
  /\ UNCHANGED <<adapter, visible, durable, fileSynced, decayed>>

SkipsTheSync(q) == UNCHANGED fileSynced
SyncFile(q) == fileSynced' = fileSynced \cup {q}
FsyncTemp(q) ==
  /\ In(q, "sync") /\ SyncFile(q) /\ Moved2(q, "install")
  /\ UNCHANGED <<adapter, visible, durable, temps, verdictOf, acked, decayed>>

\* The rename; in memory, the assignment under the lock.
Rename(q) ==
  /\ In(q, "install")
  /\ visible' = [visible EXCEPT ![upload[q].key] =
                   IF adapter = "disk" /\ q \notin fileSynced THEN "unsynced" ELSE Content(q)]
  /\ temps' = temps \ {q}
  /\ IF adapter = "disk"
     THEN Moved2(q, "syncdir") /\ UNCHANGED <<verdictOf, acked, decayed>>
     ELSE Respond(q, 201) /\ decayed' = decayed \ {upload[q].key}
  /\ UNCHANGED <<adapter, durable, fileSynced>>

\* The directory is synced and the PUT acknowledged.
AcksTooEarly(q) == UNCHANGED durable
SyncDir(q) == durable' = [durable EXCEPT ![upload[q].key] = visible[upload[q].key]]
Acknowledge(q) ==
  /\ In(q, "syncdir") /\ SyncDir(q) /\ Respond(q, 201)
  /\ decayed' = IF visible[upload[q].key] = "good" THEN decayed \ {upload[q].key} ELSE decayed
  /\ UNCHANGED <<adapter, visible, fileSynced, temps>>

-----------------------------------------------------------------------------
(* The environment *)

\* The name of a rename that was not synced may be there or not, and a file that was
\* not synced may be torn.  Requests in flight end without an answer.
PowerLoss ==
  /\ adapter = "disk"
  /\ \E kept \in SUBSET Addresses :
       visible' = [k \in Addresses |->
         LET left == IF k \in kept THEN visible[k] ELSE durable[k]
         IN IF left = "unsynced" THEN "torn" ELSE left]
  /\ durable' = visible'
  /\ upload' = [q \in Uploads |-> IF upload[q].pc \in {"none", "answered"} THEN upload[q]
                                  ELSE [upload[q] EXCEPT !.pc = "answered"]]
  /\ verdictOf' = [q \in Uploads |-> IF upload[q].pc \in {"none", "answered"} THEN verdictOf[q]
                                     ELSE "failed"]
  /\ UNCHANGED <<adapter, fileSynced, temps, acked, decayed>>

\* Bit rot, a restored volume or a copy by hand.
Decay(k) ==
  /\ visible[k] # "none" /\ k \notin decayed
  /\ \E bytes \in {"none", "wrong"} :
       /\ visible' = [visible EXCEPT ![k] = bytes] /\ durable' = [durable EXCEPT ![k] = bytes]
  /\ decayed' = decayed \cup {k}
  /\ UNCHANGED <<adapter, fileSynced, temps, upload, verdictOf, acked>>

StoreNext ==
  \/ \E q \in Uploads : \/ SendPut(q) \/ Accept(q) \/ StreamAndVerify(q) \/ DiskFails(q)
                        \/ FsyncTemp(q) \/ Rename(q) \/ Acknowledge(q)
  \/ PowerLoss
  \/ \E k \in Addresses : Decay(k)

StoreSpec == StoreInit /\ [][StoreNext]_storeVars

-----------------------------------------------------------------------------
(* The audit: Verify, Scan and Clean *)

AcceptsWhatIsThere(k) == IF visible[k] = "none" THEN 404 ELSE 200
Verify(k) == CASE visible[k] = "none" -> 404 [] visible[k] \in {"good", "unsynced"} -> 200 [] OTHER -> 409

Scan == [failures |-> {k \in Addresses : Verify(k) = 409},
         staging |-> IF adapter = "disk" THEN temps ELSE {}]

-----------------------------------------------------------------------------
(* Properties *)

\* An object whose PUT a client saw acknowledged is there with its bytes for ever,
\* through power losses at any step of any later upload, unless something outside
\* the store changed it; and without such a change no scan finds a violation.
AcknowledgedSurvives ==
  /\ \A k \in acked \ decayed : Verify(k) = 200
  /\ Scan.failures \subseteq decayed

\* The client gives up on an upload for good only when the bytes or the key are
\* wrong: no outage, no lost answer and no refused token looks like that.
RejectionIsDeserved ==
  \A q \in Uploads : verdictOf[q] = "rejected" =>
    upload[q].key = "malformed" \/ upload[q].bytes # "right"

\* What the store acknowledges it keeps, and what it refuses deserves it.
StoreIsHonest == AcknowledgedSurvives /\ RejectionIsDeserved
=============================================================================
