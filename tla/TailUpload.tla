----------------------------- MODULE TailUpload -----------------------------
(***************************************************************************)
(* The streaming artifact upload: the render lane starts it before the     *)
(* render, a GrowingFileReader tails the output file while the mux appends *)
(* to it, the object store hashes the stream into a pending object, and    *)
(* the post pool commits (Finish) or discards (Abort) it.  An upload that  *)
(* fails falls back to hash-then-PUT.                                      *)
(*                                                                         *)
(* Four parties interleave: the lane that owns the job, the upload         *)
(* goroutine, the store's request handlers (which run on after the client  *)
(* has given up) and the network.                                          *)
(*                                                                         *)
(* Bytes are chunks, and the SHA-256 of a content is the content itself.   *)
(***************************************************************************)
EXTENDS Naturals, FiniteSets

CONSTANTS
    Uploads,    \* render attempts, one streaming upload each
    Sessions,   \* staging session ids
    Session,    \* stagingSessionID: the session of an upload
    Chunks,     \* chunks of a finished output file
    NoContent   \* absent pending object, recorded digest or visible object

ASSUME UploadAssumptions ==
    /\ Session \in [Uploads -> Sessions]
    /\ Chunks \in Nat \ {0}

VARIABLES
    lane,       \* where the job is on its way through RunGPU and FinalizeJob
    scoped,     \* the GPU stage runs under a context of its own (job.Lease > 0)
    cancelled,  \* the context the upload was started with is cancelled
    path,       \* the inode the output path names
    written,    \* chunks the GPU render has written
    retried,    \* chunks the software fallback has written
    reader,     \* the flags of the GrowingFileReader: what the lane told it
    at,         \* where the upload goroutine is in StoreStaged
    saw,        \* the finished flag as Read last looked at it
    fd,         \* the inode Read has open
    read,       \* chunks delivered to the request body
    ok,         \* the upload ended with its bytes installed
    handler,    \* the store's handler of the upload's current request
    got,        \* what the store read of the request body
    claim,      \* the content address the verification gate resolved
    hash,       \* StorageKey of the artifact the store phase returned
    fault,      \* the transport or the store failed this upload
    pending,    \* staging/<session>.pending
    recorded,   \* staging/<session>.sha256
    objects     \* the visible objects, by content address

laneVars == <<lane, scoped, path, written, retried, claim, hash>>
tailVars == <<at, saw, fd, read, ok>>
requestVars == <<handler, got, fault>>
storeVars == <<pending, recorded, objects>>
vars == <<laneVars, cancelled, reader, tailVars, requestVars, storeVars>>

Inodes == {"gpu", "software"}

\* An output is written by the GPU render or by the software fallback; a stream
\* may be corrupted on the wire, and a receipt may claim an address of its own.
Contents == [of : Uploads, inode : Inodes, n : 0 .. Chunks,
             tag : {"bytes", "corrupt", "claimed"}]

Content(u, i, n, t) == [of |-> u, inode |-> i, n |-> n, tag |-> t]

Bytes(u, i, n) == Content(u, i, n, "bytes")

ASSUME ContentAssumption == NoContent \notin Contents

\* Chunks in an inode.
Size(u, i) == IF i = "gpu" THEN written[u] ELSE retried[u]

\* The file the verification gates of FinalizeJob looked at.
Output(u) == Bytes(u, path[u], Size(u, path[u]))

\* An address a receipt claims for it that is not its own.
Claimed(u) == Content(u, path[u], Size(u, path[u]), "claimed")

LaneStates == {"idle", "gpu", "software", "abandoning", "post", "rejecting",
               "waiting", "putting", "stored", "failed", "rejected"}

TailStates == {"off", "look", "read", "eof", "finalizing", "discard", "done"}

HandlerStates == {"none", "received", "renamed", "staged", "finalize", "compared",
                  "installed", "refused", "failed"}

Init ==
    /\ lane = [u \in Uploads |-> "idle"]
    /\ scoped = [u \in Uploads |-> FALSE]
    /\ cancelled = [u \in Uploads |-> FALSE]
    /\ path = [u \in Uploads |-> "none"]
    /\ written = [u \in Uploads |-> 0]
    /\ retried = [u \in Uploads |-> 0]
    /\ reader = [u \in Uploads |-> "tailing"]
    /\ at = [u \in Uploads |-> "off"]
    /\ saw = [u \in Uploads |-> FALSE]
    /\ fd = [u \in Uploads |-> "none"]
    /\ read = [u \in Uploads |-> 0]
    /\ ok = [u \in Uploads |-> FALSE]
    /\ handler = [u \in Uploads |-> "none"]
    /\ got = [u \in Uploads |-> NoContent]
    /\ claim = [u \in Uploads |-> NoContent]
    /\ hash = [u \in Uploads |-> NoContent]
    /\ fault = [u \in Uploads |-> FALSE]
    /\ pending = [s \in Sessions |-> NoContent]
    /\ recorded = [s \in Sessions |-> NoContent]
    /\ objects = [k \in Contents |-> NoContent]

-----------------------------------------------------------------------------
(* The render lane: RunGPU under withLeaseVoid.                            *)

\* startTailUpload, before the render.  The pooled worker runs the stage in a
\* context of its own, cancelled when the stage returns; the serial pipeline
\* runs every stage in the caller's.
StartTailUpload(u) ==
    /\ lane[u] = "idle"
    /\ lane' = [lane EXCEPT ![u] = "gpu"]
    /\ \E s \in BOOLEAN : scoped' = [scoped EXCEPT ![u] = s]
    /\ at' = [at EXCEPT ![u] = "look"]
    /\ UNCHANGED <<cancelled, path, written, retried, claim, hash, reader, saw, fd, read, ok, requestVars, storeVars>>

\* The renderer appends to its output.  The software retry writes elsewhere and
\* its file is renamed to the output path when it is complete.
OutputGrows(u) ==
    /\ \/ /\ lane[u] = "gpu"
          /\ written[u] < Chunks
          /\ written' = [written EXCEPT ![u] = @ + 1]
          /\ path' = [path EXCEPT ![u] = "gpu"]
          /\ UNCHANGED retried
       \/ /\ lane[u] = "software"
          /\ retried[u] < Chunks
          /\ retried' = [retried EXCEPT ![u] = @ + 1]
          /\ UNCHANGED <<path, written>>
    /\ UNCHANGED <<lane, scoped, claim, hash, cancelled, reader, tailVars, requestVars, storeVars>>

\* The reader's Abort: no effect on a finished stream.
AbortForgetsReader(u) ==
    UNCHANGED reader
AbortReader(u) ==
    reader' = [reader EXCEPT ![u] = IF @ = "finished" THEN @ ELSE "aborted"]

\* RunGPU hands the upload to the store phase; withLeaseVoid cancels the
\* stage's context as it returns.
CommitsBeforeTheGates(u) ==
    /\ lane' = [lane EXCEPT ![u] = "post"]
    /\ cancelled' = [cancelled EXCEPT ![u] = @ \/ scoped[u]]
    /\ reader' = [reader EXCEPT ![u] = "finished"]
HandOff(u) ==
    /\ lane' = [lane EXCEPT ![u] = "post"]
    /\ cancelled' = [cancelled EXCEPT ![u] = @ \/ scoped[u]]
    /\ UNCHANGED reader

\* RunGPU's error paths discard the upload and wait for its goroutine.
Abandon(u) ==
    /\ lane' = [lane EXCEPT ![u] = "abandoning"]
    /\ AbortReader(u)
    /\ UNCHANGED cancelled

RenderSucceeds(u) ==
    /\ lane[u] = "gpu"
    /\ written[u] = Chunks
    /\ HandOff(u)
    /\ UNCHANGED <<scoped, path, written, retried, claim, hash, tailVars, requestVars, storeVars>>

\* The render fails for good, or the native gate refuses its output.
RenderFails(u) ==
    /\ lane[u] \in {"gpu", "software"}
    /\ Abandon(u)
    /\ UNCHANGED <<scoped, path, written, retried, claim, hash, tailVars, requestVars, storeVars>>

\* A recoverable device error before the output was complete: the same plan is
\* retried in software.  The renderer may have removed its partial output.
RetryInSoftware(u) ==
    /\ lane[u] = "gpu"
    /\ written[u] < Chunks
    /\ lane' = [lane EXCEPT ![u] = "software"]
    /\ path' \in {path, [path EXCEPT ![u] = "none"]}
    /\ UNCHANGED <<scoped, written, retried, claim, hash, cancelled, reader, tailVars, requestVars, storeVars>>

\* The retry's output is published under the output path, unless the original
\* render left one there.
PublishFallback(u) ==
    /\ lane[u] = "software"
    /\ retried[u] = Chunks
    /\ IF path[u] = "none"
       THEN HandOff(u) /\ path' = [path EXCEPT ![u] = "software"]
       ELSE Abandon(u) /\ UNCHANGED path
    /\ UNCHANGED <<scoped, written, retried, claim, hash, tailVars, requestVars, storeVars>>

\* The renewal goroutine gives the lease up and cancels the stage's context.
LoseLease(u) ==
    /\ lane[u] \in {"gpu", "software"}
    /\ scoped[u] /\ ~cancelled[u]
    /\ cancelled' = [cancelled EXCEPT ![u] = TRUE]
    /\ UNCHANGED <<laneVars, reader, tailVars, requestVars, storeVars>>

-----------------------------------------------------------------------------
(* The post pool: FinalizeJob and storeArtifact.                           *)

\* A verification gate fails closed: the deferred Abort discards the upload.
RejectOutput(u) ==
    /\ lane[u] = "post"
    /\ lane' = [lane EXCEPT ![u] = "rejecting"]
    /\ AbortReader(u)
    /\ UNCHANGED <<scoped, path, written, retried, claim, hash, cancelled, tailVars, requestVars, storeVars>>

\* Abort returns once the goroutine has ended.
Aborted(u) ==
    /\ at[u] = "done"
    /\ \/ lane[u] = "abandoning" /\ lane' = [lane EXCEPT ![u] = "failed"]
       \/ lane[u] = "rejecting" /\ lane' = [lane EXCEPT ![u] = "rejected"]
    /\ UNCHANGED <<scoped, path, written, retried, claim, hash, cancelled, reader, tailVars, requestVars, storeVars>>

\* The gates passed; the address they resolved is unknown, right, or (accepted
\* on a size match alone) wrong.
Finish(u) ==
    /\ lane[u] = "post"
    /\ lane' = [lane EXCEPT ![u] = "waiting"]
    /\ reader' = [reader EXCEPT ![u] = "finished"]
    /\ \E c \in {NoContent, Output(u), Claimed(u)} : claim' = [claim EXCEPT ![u] = c]
    /\ UNCHANGED <<scoped, path, written, retried, hash, cancelled, tailVars, requestVars, storeVars>>

\* What storeArtifact refuses of a stream that was installed.
TrustsTheStream(u) ==
    claim[u] \notin {NoContent, Bytes(u, fd[u], read[u])}
StreamContradicts(u) ==
    \/ read[u] # Size(u, path[u])
    \/ claim[u] \notin {NoContent, Bytes(u, fd[u], read[u])}

Wait(u) ==
    /\ lane[u] = "waiting"
    /\ at[u] = "done"
    /\ \/ /\ ~ok[u]
          /\ lane' = [lane EXCEPT ![u] = "putting"]
          /\ UNCHANGED hash
       \/ /\ ok[u] /\ StreamContradicts(u)
          /\ lane' = [lane EXCEPT ![u] = "failed"]
          /\ UNCHANGED hash
       \/ /\ ok[u] /\ ~StreamContradicts(u)
          /\ lane' = [lane EXCEPT ![u] = "stored"]
          /\ hash' = [hash EXCEPT ![u] = Bytes(u, fd[u], read[u])]
    /\ UNCHANGED <<scoped, path, written, retried, claim, cancelled, reader, tailVars, requestVars, storeVars>>

\* hash-then-PUT: the claimed address, or the hash of the file.
PutKey(u) == IF claim[u] = NoContent THEN Output(u) ELSE claim[u]

\* Store.PutReader verifies the bytes against the key before it installs them.
TrustsTheKey(u) == TRUE
Verified(u) == PutKey(u) = Output(u)

Put(u) ==
    /\ lane[u] = "putting"
    /\ Verified(u)
    /\ objects' = [objects EXCEPT ![PutKey(u)] = Output(u)]
    /\ \/ /\ lane' = [lane EXCEPT ![u] = "stored"]
          /\ hash' = [hash EXCEPT ![u] = PutKey(u)]
       \/ /\ lane' = [lane EXCEPT ![u] = "failed"]      \* the answer is lost
          /\ UNCHANGED hash
    /\ UNCHANGED <<scoped, path, written, retried, claim, cancelled, reader, tailVars, requestVars, pending, recorded>>

\* 422 for bytes that are not the key's, or a transport failure.
PutFails(u) ==
    /\ lane[u] = "putting"
    /\ lane' = [lane EXCEPT ![u] = "failed"]
    /\ UNCHANGED <<scoped, path, written, retried, claim, hash, cancelled, reader, tailVars, requestVars, storeVars>>

-----------------------------------------------------------------------------
(* The upload goroutine: StoreStaged reading a GrowingFileReader.          *)

Ends(u, b) == at' = [at EXCEPT ![u] = "done"] /\ ok' = [ok EXCEPT ![u] = b]

\* The top of Read's loop: the flags are read before the file.
LookAtFlags(u) ==
    /\ at[u] = "look"
    /\ IF reader[u] = "aborted"
       THEN Ends(u, FALSE)
       ELSE /\ at' = [at EXCEPT ![u] = "read"]
            /\ UNCHANGED ok
    /\ saw' = [saw EXCEPT ![u] = reader[u] = "finished"]
    /\ UNCHANGED <<laneVars, cancelled, reader, fd, read, requestVars, storeVars>>

\* The file Read has open: opened once, at the first poll that finds one.
Opened(u) == IF fd[u] = "none" THEN path[u] ELSE fd[u]

\* The file holds more than the reader has delivered.
More(u) == Opened(u) # "none" /\ read[u] < Size(u, Opened(u))

\* An empty read is the end of the stream only if Finish was seen before it.
EndsOnAnEmptyRead(u) == Opened(u) # "none"
AtEnd(u) == saw[u]

ReadFile(u) ==
    /\ at[u] = "read"
    /\ fd' = [fd EXCEPT ![u] = Opened(u)]
    /\ read' = [read EXCEPT ![u] = IF More(u) THEN @ + 1 ELSE @]
    /\ at' = [at EXCEPT ![u] = IF More(u) \/ ~AtEnd(u) THEN "look"
                               ELSE IF Opened(u) = "none" THEN "done" ELSE "eof"]
    /\ UNCHANGED <<laneVars, cancelled, reader, saw, ok, requestVars, storeVars>>

Asserted(u) == Bytes(u, fd[u], read[u])

\* The 201 carries the store's digest; the client finalizes under its own.
Staged(u) ==
    /\ at[u] = "eof"
    /\ handler[u] = "staged"
    /\ IF got[u] = Asserted(u)
       THEN /\ at' = [at EXCEPT ![u] = "finalizing"]
            /\ handler' = [handler EXCEPT ![u] = "finalize"]
       ELSE /\ at' = [at EXCEPT ![u] = "discard"]
            /\ UNCHANGED handler
    /\ UNCHANGED <<laneVars, cancelled, reader, saw, fd, read, ok, got, fault, storeVars>>

Finalized(u) ==
    /\ at[u] = "finalizing"
    /\ \/ handler[u] = "installed" /\ Ends(u, TRUE)
       \/ handler[u] = "refused" /\ at' = [at EXCEPT ![u] = "discard"] /\ UNCHANGED ok
    /\ UNCHANGED <<laneVars, cancelled, reader, saw, fd, read, requestVars, storeVars>>

\* A request that fails ends the upload; only a failed finalize is followed by
\* abortStaged.
RequestFails(u) ==
    \/ at[u] \in {"look", "read", "eof"} /\ Ends(u, FALSE)
    \/ at[u] = "finalizing" /\ at' = [at EXCEPT ![u] = "discard"] /\ UNCHANGED ok

ContextCancelled(u) ==
    /\ cancelled[u]
    /\ RequestFails(u)
    /\ UNCHANGED <<laneVars, cancelled, reader, saw, fd, read, requestVars, storeVars>>

\* The network drops the connection, or the store answers with an error; what
\* the handler had begun may run on.
TransportFails(u) ==
    /\ RequestFails(u)
    /\ fault' = [fault EXCEPT ![u] = TRUE]
    /\ handler' \in {handler, [handler EXCEPT ![u] = "failed"]}
    /\ UNCHANGED <<laneVars, cancelled, reader, saw, fd, read, got, storeVars>>

\* abortStaged is best effort: the DELETE may not arrive.
Discard(u) ==
    /\ at[u] = "discard"
    /\ Ends(u, FALSE)
    /\ \/ /\ pending' = [pending EXCEPT ![Session[u]] = NoContent]
          /\ recorded' = [recorded EXCEPT ![Session[u]] = NoContent]
       \/ UNCHANGED <<pending, recorded>>
    /\ UNCHANGED <<laneVars, cancelled, reader, saw, fd, read, requestVars, objects>>

-----------------------------------------------------------------------------
(* The object store's handlers.                                            *)

\* StagingWrite has copied and hashed the whole body, as it arrived.
Receive(u) ==
    /\ at[u] = "eof"
    /\ handler[u] = "none"
    /\ handler' = [handler EXCEPT ![u] = "received"]
    /\ \/ got' = [got EXCEPT ![u] = Asserted(u)] /\ UNCHANGED fault
       \/ /\ got' = [got EXCEPT ![u] = Content(u, fd[u], read[u], "corrupt")]
          /\ fault' = [fault EXCEPT ![u] = TRUE]
    /\ UNCHANGED <<laneVars, cancelled, reader, tailVars, storeVars>>

RenamePending(u) ==
    /\ handler[u] = "received"
    /\ handler' = [handler EXCEPT ![u] = "renamed"]
    /\ pending' = [pending EXCEPT ![Session[u]] = got[u]]
    /\ UNCHANGED <<laneVars, cancelled, reader, tailVars, got, fault, recorded, objects>>

RecordDigest(u) ==
    /\ handler[u] = "renamed"
    /\ handler' = [handler EXCEPT ![u] = "staged"]
    /\ recorded' = [recorded EXCEPT ![Session[u]] = got[u]]
    /\ UNCHANGED <<laneVars, cancelled, reader, tailVars, got, fault, pending, objects>>

\* StagingFinalize compares the asserted digest with the recorded one ...
CompareDigest(u) ==
    /\ handler[u] = "finalize"
    /\ \/ /\ recorded[Session[u]] = Asserted(u)
          /\ handler' = [handler EXCEPT ![u] = "compared"]
          /\ UNCHANGED <<pending, recorded>>
       \/ /\ recorded[Session[u]] # Asserted(u)
          /\ handler' = [handler EXCEPT ![u] = "refused"]
          /\ pending' = [pending EXCEPT ![Session[u]] =
                            IF recorded[Session[u]] = NoContent THEN @ ELSE NoContent]
          /\ recorded' = [recorded EXCEPT ![Session[u]] = NoContent]
    /\ UNCHANGED <<laneVars, cancelled, reader, tailVars, got, fault, objects>>

\* ... and renames whatever is pending by then to the asserted address.
InstallPending(u) ==
    /\ handler[u] = "compared"
    /\ IF pending[Session[u]] = NoContent
       THEN /\ handler' = [handler EXCEPT ![u] = "refused"]
            /\ UNCHANGED storeVars
       ELSE /\ handler' = [handler EXCEPT ![u] = "installed"]
            /\ objects' = [objects EXCEPT ![Asserted(u)] = pending[Session[u]]]
            /\ pending' = [pending EXCEPT ![Session[u]] = NoContent]
            /\ recorded' = [recorded EXCEPT ![Session[u]] = NoContent]
    /\ UNCHANGED <<laneVars, cancelled, reader, tailVars, got, fault>>

-----------------------------------------------------------------------------
LaneStep(u) ==
    \/ OutputGrows(u) \/ RenderSucceeds(u) \/ RenderFails(u)
    \/ RetryInSoftware(u) \/ PublishFallback(u)
    \/ RejectOutput(u) \/ Aborted(u) \/ Finish(u) \/ Wait(u) \/ Put(u) \/ PutFails(u)

UploadStep(u) ==
    LookAtFlags(u) \/ ReadFile(u) \/ Staged(u) \/ Finalized(u) \/ Discard(u)

StoreStep(u) ==
    \/ Receive(u) \/ RenamePending(u) \/ RecordDigest(u)
    \/ CompareDigest(u) \/ InstallPending(u)

Next ==
    \E u \in Uploads :
        \/ StartTailUpload(u) \/ LaneStep(u) \/ LoseLease(u)
        \/ UploadStep(u) \/ ContextCancelled(u) \/ TransportFails(u)
        \/ StoreStep(u)

Spec == Init /\ [][Next]_vars

\* The stages of a job run to their end, the goroutine keeps polling, and the
\* store's handlers run to completion.  Nothing is assumed of cancellation.
UploadFairness ==
    \A u \in Uploads :
        WF_vars(LaneStep(u)) /\ WF_vars(UploadStep(u)) /\ WF_vars(StoreStep(u))

FairSpec == Spec /\ UploadFairness

-----------------------------------------------------------------------------
(* Properties.                                                             *)

\* The readers deliver no more chunks than an output has, and every address and
\* object is a content of some upload.
TypeOK ==
    /\ lane \in [Uploads -> LaneStates]
    /\ scoped \in [Uploads -> BOOLEAN]
    /\ cancelled \in [Uploads -> BOOLEAN]
    /\ path \in [Uploads -> Inodes \cup {"none"}]
    /\ written \in [Uploads -> 0 .. Chunks]
    /\ retried \in [Uploads -> 0 .. Chunks]
    /\ reader \in [Uploads -> {"tailing", "finished", "aborted"}]
    /\ at \in [Uploads -> TailStates]
    /\ saw \in [Uploads -> BOOLEAN]
    /\ fd \in [Uploads -> Inodes \cup {"none"}]
    /\ read \in [Uploads -> 0 .. Chunks]
    /\ ok \in [Uploads -> BOOLEAN]
    /\ handler \in [Uploads -> HandlerStates]
    /\ got \in [Uploads -> Contents \cup {NoContent}]
    /\ claim \in [Uploads -> Contents \cup {NoContent}]
    /\ hash \in [Uploads -> Contents \cup {NoContent}]
    /\ fault \in [Uploads -> BOOLEAN]
    /\ pending \in [Sessions -> Contents \cup {NoContent}]
    /\ recorded \in [Sessions -> Contents \cup {NoContent}]
    /\ objects \in [Contents -> Contents \cup {NoContent}]

\* Every visible object hashes to its address, whether a staged finalize or a
\* PUT installed it, and whatever became of the request that did.
ContentAddressed ==
    \A k \in Contents : objects[k] \in {NoContent, k}

\* An artifact the store phase reports is the file its gates verified, and the
\* store holds it: not the partial output of a GPU render the reader still has
\* open, nor a corrupted stream, nor an address a receipt merely claimed.
StoredIsTheVerifiedFile ==
    \A u \in Uploads : lane[u] = "stored" =>
        hash[u] = Output(u) /\ objects[Output(u)] = Output(u)

\* A render that failed or an output a gate refused has installed nothing, even
\* though its bytes were being uploaded all along.
RejectedInstallsNothing ==
    \A u \in Uploads : lane[u] \in {"abandoning", "rejecting", "rejected"} =>
        \A k \in Contents : k.of = u => objects[k] = NoContent

\* The tail ends exactly at Finish: every chunk of the file it has open is
\* delivered, and no end of file is reported before.
StreamEndsAtFinish ==
    \A u \in Uploads : at[u] \in {"eof", "finalizing"} =>
        reader[u] = "finished" /\ read[u] = Size(u, fd[u])

\* From the first streamed byte to the reported artifact, only verified bytes are
\* stored: the three facts above, which the store phase relies on together.
OnlyVerifiedIsStored == StoredIsTheVerifiedFile /\ RejectedInstallsNothing /\ StreamEndsAtFinish

\* Neither Wait nor Abort blocks its lane forever.
EveryUploadEnds ==
    \A u \in Uploads :
        lane[u] = "gpu" ~> lane[u] \in {"stored", "failed", "rejected"}

\* tail_upload.go: once Finish committed the stream "the render lane's deferred
\* cleanup cannot retroactively fail it", so only a fault can.
CommittedFailsOnlyByFault ==
    \A u \in Uploads :
        reader[u] = "finished" /\ at[u] = "done" /\ ~ok[u] => fault[u]
=============================================================================
