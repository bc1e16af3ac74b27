---------------------------- MODULE SegmentBatch ----------------------------
(***************************************************************************)
(* A segmented batch render (renderinggen/internal/processor/segments.go): *)
(* one render writes one file per semantic item; the files are verified on *)
(* a bounded pool, a failed one is rendered again once, alone, and every   *)
(* verified one is stored under its own address.  A file is the set of the *)
(* frames it decodes to and whether the other checks of the media contract *)
(* hold of it.                                                             *)
(***************************************************************************)
EXTENDS Integers, Sequences, FiniteSets

CONSTANTS
  CanvasFrames,   \* frames of the plan
  MaxItems,       \* bound of the semantic items
  VerifyPool      \* segmentVerifyConcurrency

ASSUME SegmentAssumption == CanvasFrames \in Nat /\ MaxItems \in Nat

VARIABLES
  windows,   \* the item windows of the compiled plan: pairs of first and end frame
  batch,     \* "planned", "single", "verifying", "returned"
  segFile,   \* per segment [frames, sound]
  segment,   \* per segment: "waiting", "verify", "blocked", "rendering", "reverify", "store", "done"
  verdict,   \* per segment: "none", "stored", "failed", "fatal"
  retryMu,   \* 0, or the segment that holds the mutex
  batchCtx,  \* "alive" or "cancelled"
  receipt    \* [entries, error]: the segments finalizeSegments lists, in plan order, and its error

segVars == <<windows, batch, segFile, segment, verdict, retryMu, batchCtx, receipt>>

Window == (0..CanvasFrames) \X (0..CanvasFrames)
Segments == DOMAIN windows
FramesOf(w) == w[1]..(w[2] - 1)
NoReceipt == [entries |-> {}, error |-> "none"]

SegInit ==
  /\ windows \in UNION {[1..n -> Window] : n \in 0..MaxItems}
  /\ batch = "planned"
  /\ segFile = << >> /\ segment = << >> /\ verdict = << >>
  /\ retryMu = 0 /\ batchCtx = "alive" /\ receipt = NoReceipt

\* planSegmentOutputs: the windows follow each other from frame 0 to the last one.
IgnoresTheEnd(ws) ==
  /\ Len(ws) >= 2 /\ CanvasFrames > 0
  /\ \A i \in DOMAIN ws : /\ ws[i][1] = IF i = 1 THEN 0 ELSE ws[i - 1][2]
                          /\ ws[i][2] > ws[i][1]
Tileable(ws) ==
  /\ Len(ws) >= 2 /\ CanvasFrames > 0
  /\ \A i \in DOMAIN ws : /\ ws[i][1] = IF i = 1 THEN 0 ELSE ws[i - 1][2]
                          /\ ws[i][2] > ws[i][1]
  /\ ws[Len(ws)][2] = CanvasFrames

\* The session writes every file, perhaps a short or an unsound one; a plan that
\* cannot be tiled keeps the single output.
RenderSession ==
  /\ batch = "planned"
  /\ IF Tileable(windows)
     THEN /\ batch' = "verifying"
          /\ \E short, unsound \in SUBSET Segments :
               segFile' = [s \in Segments |->
                             [frames |-> IF s \in short THEN FramesOf(windows[s]) \ {windows[s][2] - 1}
                                                        ELSE FramesOf(windows[s]),
                              sound |-> s \notin unsound]]
          /\ segment' = [s \in Segments |-> "waiting"]
          /\ verdict' = [s \in Segments |-> "none"]
     ELSE batch' = "single" /\ UNCHANGED <<segFile, segment, verdict>>
  /\ UNCHANGED <<windows, retryMu, batchCtx, receipt>>

\* The items of a tiled plan must be told apart by their identities.
RefuseIdentities ==
  /\ batch = "verifying" /\ \A s \in Segments : segment[s] = "waiting"
  /\ batch' = "returned"
  /\ receipt' = [entries |-> {}, error |-> "identity"]
  /\ UNCHANGED <<windows, segFile, segment, verdict, retryMu, batchCtx>>

Step(s, from, to) == batch = "verifying" /\ segment[s] = from /\ segment' = [segment EXCEPT ![s] = to]
Ends(s, how) == verdict' = [verdict EXCEPT ![s] = how]

\* A worker of the pool receives the next index; the indexes are sent in plan order.
TakeIndex(s) ==
  /\ Step(s, "waiting", "verify")
  /\ \A r \in 1..(s - 1) : segment[r] # "waiting"
  /\ Cardinality({r \in Segments : segment[r] \notin {"waiting", "done"}}) < VerifyPool
  /\ UNCHANGED <<windows, batch, segFile, verdict, retryMu, batchCtx, receipt>>

\* verifySegmentOutput: receipt and identity, the decoded frame count against the
\* window, the media contract and the profile.  The probes need a live context.
CountsNothing(s) == batchCtx = "alive" /\ segFile[s].sound
VerifySegmentOutput(s) ==
  /\ batchCtx = "alive" /\ segFile[s].sound
  /\ Cardinality(segFile[s].frames) = windows[s][2] - windows[s][1]

VerifyPasses(s) ==
  /\ VerifySegmentOutput(s)
  /\ Step(s, "verify", "store") \/ Step(s, "reverify", "store")
  /\ UNCHANGED <<windows, batch, segFile, verdict, retryMu, batchCtx, receipt>>

\* The first failure leads to the retry, unless the context is gone.
VerifyFails(s) ==
  /\ ~VerifySegmentOutput(s)
  /\ IF batchCtx = "cancelled"
     THEN Step(s, "verify", "done") /\ Ends(s, "fatal")
     ELSE Step(s, "verify", "blocked") /\ UNCHANGED verdict
  /\ UNCHANGED <<windows, batch, segFile, retryMu, batchCtx, receipt>>

VerifyFailsAgain(s) ==
  /\ ~VerifySegmentOutput(s)
  /\ Step(s, "reverify", "done") /\ Ends(s, "failed")
  /\ UNCHANGED <<windows, batch, segFile, retryMu, batchCtx, receipt>>

\* Re-renders are serialized by the mutex.
RendersAtOnce(s) == TRUE
MutexFree(s) == retryMu = 0
LockRetry(s) ==
  /\ MutexFree(s)
  /\ Step(s, "blocked", "rendering")
  /\ retryMu' = s
  /\ UNCHANGED <<windows, batch, segFile, verdict, batchCtx, receipt>>

\* retrySegment: the same window, with an inclusive last frame, to the same path.
RetryFrames(s) == windows[s][1]..(windows[s][2] - 1)
KeepsTheMutex == retryMu' = retryMu
UnlockRetry == retryMu' = 0
RetrySegment(s) ==
  /\ UnlockRetry
  /\ \/ /\ batchCtx = "alive"
        /\ \E sound \in BOOLEAN :
             segFile' = [segFile EXCEPT ![s] = [frames |-> RetryFrames(s), sound |-> sound]]
        /\ Step(s, "rendering", "reverify") /\ UNCHANGED verdict
     \/ /\ Step(s, "rendering", "done") /\ Ends(s, "failed")      \* render or native gate
        /\ UNCHANGED segFile
  /\ UNCHANGED <<windows, batch, batchCtx, receipt>>

StoreSegment(s) ==
  /\ Step(s, "store", "done")
  /\ \/ batchCtx = "alive" /\ Ends(s, "stored")
     \/ Ends(s, "fatal")
  /\ UNCHANGED <<windows, batch, segFile, retryMu, batchCtx, receipt>>

CancelBatch ==
  /\ batch = "verifying" /\ batchCtx = "alive"
  /\ batchCtx' = "cancelled"
  /\ UNCHANGED <<windows, batch, segFile, segment, verdict, retryMu, receipt>>

\* The receipt is assembled in plan order; a fatal verdict ends the assembly, and
\* only a cancellation keeps the entries before it.
StoredBefore(upTo) == {s \in 1..upTo : verdict[s] = "stored"}
StopsAtTheFirst ==
  LET bad == {s \in Segments : verdict[s] # "stored"}
      first == CHOOSE s \in bad : \A r \in bad : s <= r
  IN IF bad = {} THEN [entries |-> StoredBefore(Len(windows)), error |-> "none"]
     ELSE [entries |-> StoredBefore(first - 1), error |-> verdict[first]]
AssembleEntries ==
  LET fatal == {s \in Segments : verdict[s] = "fatal"}
      first == CHOOSE s \in fatal : \A r \in fatal : s <= r
  IN IF fatal # {}
     THEN [entries |-> IF batchCtx = "cancelled" THEN StoredBefore(first - 1) ELSE {},
           error |-> "fatal"]
     ELSE [entries |-> StoredBefore(Len(windows)),
           error |-> IF \E s \in Segments : verdict[s] = "failed" THEN "failed" ELSE "none"]

ReturnBatch ==
  /\ batch = "verifying" /\ \A s \in Segments : segment[s] = "done"
  /\ batch' = "returned"
  /\ receipt' = AssembleEntries
  /\ UNCHANGED <<windows, segFile, segment, verdict, retryMu, batchCtx>>

SegStep(s) ==
  \/ TakeIndex(s) \/ VerifyPasses(s) \/ VerifyFails(s) \/ VerifyFailsAgain(s)
  \/ LockRetry(s) \/ RetrySegment(s) \/ StoreSegment(s)

BatchStep == RenderSession \/ ReturnBatch \/ \E s \in Segments : batch = "verifying" /\ SegStep(s)
SegNext == BatchStep \/ RefuseIdentities \/ CancelBatch

SegSpec == SegInit /\ [][SegNext]_segVars

-----------------------------------------------------------------------------
(* Properties *)

\* A plan is segmented only if every frame belongs to exactly one window, so that
\* the files put end to end are the clip; and a batch that reports success stored a
\* file for every item, and the files together hold every frame.
SuccessIsTheWholeClip ==
  /\ batch = "verifying" =>
       \A f \in 0..(CanvasFrames - 1) :
         Cardinality({s \in Segments : f \in FramesOf(windows[s])}) = 1
  /\ batch = "returned" /\ receipt.error = "none" =>
       /\ receipt.entries = Segments
       /\ UNION {segFile[s].frames : s \in Segments} = 0..(CanvasFrames - 1)

\* At most one re-render is on the renderer at any time, however many segments of
\* the pool fail at once.
OneRetryAtATime ==
  batch = "verifying" =>
    Cardinality({s \in Segments : segment[s] = "rendering"}) <= 1

\* One item that exhausts its retry costs no sibling: each of the others is stored
\* and listed, unless the batch as a whole was cut short.
SiblingsArePreserved ==
  batch = "returned" /\ receipt.error \in {"none", "failed"} /\ batchCtx = "alive" =>
    \A s \in Segments :
      segFile[s].sound /\ segFile[s].frames = FramesOf(windows[s])
        => s \in receipt.entries

\* What a segmented render may report: the whole clip, made without two re-renders
\* on the renderer, and never at the cost of a sibling.
BatchIsSound == SuccessIsTheWholeClip /\ OneRetryAtATime /\ SiblingsArePreserved

\* The batch returns: no lane waits for ever for the mutex or for an index.
BatchReturns == (batch = "verifying") ~> (batch = "returned")
=============================================================================
