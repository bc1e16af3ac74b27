----------------------------- MODULE MediaProbe -----------------------------
(***************************************************************************)
(* How a finished file is measured and certified: ffprobe's document, the  *)
(* scan of the packet table for the closed-GOP cadence, the cache of       *)
(* probes, and the contracts a file is held to (renderinggen/internal/     *)
(* media), as FinalizeJob and ImportOverlayArtifact use them (processor/   *)
(* finalize_job.go, import_artifact.go).                                   *)
(*                                                                         *)
(* A file is its packet table (TRUE for a keyframe), whether its streams   *)
(* are the ones every contract of the model asks for, and whether it       *)
(* decodes.  ffprobe is external: it writes the table to a pipe and exits; *)
(* Wait, which a goroutine calls at once, closes the pipe when it has.     *)
(***************************************************************************)
EXTENDS Naturals, Sequences, FiniteSets, Functions

CONSTANTS
  Probers,        \* threads that probe
  MediaFiles,     \* set of [packets, streams, decodes]
  PipeSize,       \* bound of the model: tokens the pipe holds
  ProbeCacheMax,  \* probeCacheMaxEntries
  MaxProbes,      \* bound of the model: probes of one prober
  MaxProbeFaults  \* bound of the model: failures of ffprobe

ASSUME MediaAssumption == \A f \in MediaFiles : f.packets \in Seq(BOOLEAN)

VARIABLES
  pr,          \* prober -> its probe
  probeCache,  \* file -> verdict
  probeFaults

mediaVars == <<pr, probeCache, probeFaults>>

Verdict(c, u, i) == [closed |-> c, uncertifiable |-> u, interval |-> i]
Unknown == Verdict(FALSE, TRUE, 0)
NoProbe == [stage |-> "idle", runs |-> 0, file |-> [packets |-> << >>, streams |-> FALSE, decodes |-> FALSE],
            use |-> "none", profile |-> "none", written |-> 0, read |-> 0, keys |-> << >>,
            child |-> "none", pipe |-> "none", measured |-> FALSE, streams |-> FALSE,
            verdict |-> Unknown]

MediaInit == pr = [p \in Probers |-> NoProbe] /\ probeCache = << >> /\ probeFaults = 0

\* The table and the bracket that closes it.
Tokens(f) == Len(f.packets) + 1
ProbeFault == probeFaults < MaxProbeFaults /\ probeFaults' = probeFaults + 1

-----------------------------------------------------------------------------
(* Where the facts come from *)

\* ResolveProfile: the profile of an assembly pins the codec configuration and the
\* closed GOP, the one of an overlay neither.
PinsCodecConfig(profile) == profile = "assembly"
RequiresClosedGOP(profile) == profile = "assembly"

\* probeFactsForFinalize takes a canonical receipt at its word, which says nothing of
\* the codec configuration: a profile that pins it has the file probed after all
\* (ensureCodecConfigProbe).
TrustsTheReceipt(profile) == FALSE
MustProbe(profile) == PinsCodecConfig(profile)

FreshProbe(p, f, use, profile) ==
  [pr[p] EXCEPT !.file = f, !.use = use, !.profile = profile, !.runs = @ + 1,
                !.measured = FALSE, !.verdict = Unknown]
FromReceipt(fresh, receipt, claim) ==
  CASE fresh.profile = "unlisted" -> [fresh EXCEPT !.stage = "rejected"]
    [] fresh.profile # "unlisted" /\ receipt = "claims" /\ ~MustProbe(fresh.profile) ->
         [fresh EXCEPT !.stage = "probed", !.streams = claim, !.verdict = Verdict(claim, FALSE, 0)]
    [] OTHER -> [fresh EXCEPT !.stage = "document"]
FinalizeFacts(p) ==
  /\ pr[p].stage = "idle" /\ pr[p].runs < MaxProbes
  /\ \E f \in MediaFiles, profile \in {"none", "overlay", "assembly", "unlisted"},
        receipt \in {"none", "claims"}, claim \in BOOLEAN :
       pr' = [pr EXCEPT ![p] = FromReceipt(FreshProbe(p, f, "finalize", profile), receipt, claim)]
  /\ UNCHANGED <<probeCache, probeFaults>>

\* ImportOverlayArtifact goes through the cache.
FromCache(fresh) ==
  IF fresh.file \in DOMAIN probeCache
  THEN [fresh EXCEPT !.stage = "probed", !.measured = TRUE, !.streams = fresh.file.streams,
                     !.verdict = probeCache[fresh.file]]
  ELSE [fresh EXCEPT !.stage = "document"]
ImportFacts(p) ==
  /\ pr[p].stage = "idle" /\ pr[p].runs < MaxProbes
  /\ \E f \in MediaFiles : pr' = [pr EXCEPT ![p] = FromCache(FreshProbe(p, f, "import", "none"))]
  /\ UNCHANGED <<probeCache, probeFaults>>

-----------------------------------------------------------------------------
(* probeFile and probeClosedGOP *)

ProbeDocument(p) ==
  /\ pr[p].stage = "document"
  /\ pr' = [pr EXCEPT ![p].stage = "scan", ![p].streams = pr[p].file.streams, ![p].measured = TRUE,
                      ![p].written = 0, ![p].read = 0, ![p].keys = << >>,
                      ![p].child = "running", ![p].pipe = "open"]
  /\ UNCHANGED <<probeCache, probeFaults>>
DocumentFails(p) ==
  /\ pr[p].stage = "document" /\ ProbeFault
  /\ pr' = [pr EXCEPT ![p].stage = "failed"]
  /\ UNCHANGED probeCache

ChildWrites(p) ==
  /\ pr[p].stage = "scan" /\ pr[p].child = "running"
  /\ pr[p].written < Tokens(pr[p].file) /\ pr[p].written - pr[p].read < PipeSize
  /\ pr' = [pr EXCEPT ![p].written = @ + 1]
  /\ UNCHANGED <<probeCache, probeFaults>>
ChildExits(p) ==
  /\ pr[p].stage = "scan" /\ pr[p].child = "running"
  /\ \/ pr[p].written = Tokens(pr[p].file) /\ pr' = [pr EXCEPT ![p].child = "done"] /\ UNCHANGED probeFaults
     \/ ProbeFault /\ pr' = [pr EXCEPT ![p].child = "broken"]
  /\ UNCHANGED probeCache
\* cmd.Wait of the goroutine
WaitCloses(p) ==
  /\ pr[p].stage = "scan" /\ pr[p].child # "running" /\ pr[p].pipe = "open"
  /\ pr' = [pr EXCEPT ![p].pipe = "closed"]
  /\ UNCHANGED <<probeCache, probeFaults>>

\* A third keyframe proves the cadence broken before the table ends.
CadenceBroken(keys) ==
  Len(keys) >= 3 /\ keys[Len(keys)] - keys[Len(keys) - 1] # keys[2] - keys[1]
\* closedGOPPositionsCadence
CadenceProven(keys) ==
  /\ Len(keys) >= 3 /\ keys[1] = 0
  /\ \A i \in 3..Len(keys) : keys[i] - keys[i - 1] = keys[2] - keys[1]

Concludes(p, verdict) == pr' = [pr EXCEPT ![p].stage = "scanned", ![p].verdict = verdict]

ReadPacket(p) ==
  LET me == pr[p]
      keys == IF me.file.packets[me.read + 1] THEN Append(me.keys, me.read) ELSE me.keys IN
  /\ me.stage = "scan" /\ me.pipe = "open" /\ me.read < me.written /\ me.read < Len(me.file.packets)
  /\ IF CadenceBroken(keys) THEN Concludes(p, Verdict(FALSE, FALSE, 0))
     ELSE pr' = [pr EXCEPT ![p].read = @ + 1, ![p].keys = keys]
  /\ UNCHANGED <<probeCache, probeFaults>>
\* The table has been read, and the child's exit status with it.
TableEnds(p) ==
  LET me == pr[p] IN
  /\ me.stage = "scan" /\ me.pipe = "open" /\ me.read = Len(me.file.packets) /\ me.written = Tokens(me.file)
  /\ me.child # "running"
  /\ Concludes(p, CASE me.child = "broken" -> Unknown
                    [] me.child # "broken" /\ CadenceProven(me.keys) ->
                         Verdict(TRUE, FALSE, me.keys[2] - me.keys[1])
                    [] OTHER -> Verdict(FALSE, FALSE, 0))
  /\ UNCHANGED <<probeCache, probeFaults>>
\* failProbe: the table ends early, or the pipe has been closed under the reader.
SaysOpenGOP == Verdict(FALSE, FALSE, 0)
FailedProbe == Unknown
DecodeFails(p) ==
  LET me == pr[p] IN
  /\ me.stage = "scan"
  /\ \/ me.pipe = "closed"
     \/ me.child = "broken" /\ me.read = me.written /\ me.read < Tokens(me.file)
  /\ Concludes(p, FailedProbe)
  /\ UNCHANGED <<probeCache, probeFaults>>

\* ProbeFileCached stores whatever probeFile returned without an error; a full
\* cache gives up an arbitrary entry.
Keep(p) ==
  LET me == pr[p] IN
  /\ me.stage = "scanned"
  /\ pr' = [pr EXCEPT ![p].stage = "probed"]
  /\ IF me.use # "import" THEN UNCHANGED probeCache
     ELSE \E kept \in SUBSET DOMAIN probeCache :
            /\ Cardinality(DOMAIN probeCache) - Cardinality(kept) =
                 IF Cardinality(DOMAIN probeCache) >= ProbeCacheMax THEN 1 ELSE 0
            /\ probeCache' = [f \in kept \cup {me.file} |-> IF f = me.file THEN me.verdict ELSE probeCache[f]]
  /\ UNCHANGED probeFaults

-----------------------------------------------------------------------------
(* The contracts *)

\* ValidateProbe, ValidateOverlay and, for an import, ValidateDecode.
Accepts(me) ==
  /\ me.streams
  /\ RequiresClosedGOP(me.profile) => me.verdict.closed
  /\ me.use = "import" => me.file.decodes
Validate(p) ==
  /\ pr[p].stage = "probed"
  /\ pr' = [pr EXCEPT ![p].stage = IF Accepts(pr[p]) THEN "accepted" ELSE "rejected"]
  /\ UNCHANGED <<probeCache, probeFaults>>
NextProbe(p) ==
  /\ pr[p].stage \in {"accepted", "rejected", "failed"} /\ pr[p].runs < MaxProbes
  /\ pr' = [pr EXCEPT ![p] = [NoProbe EXCEPT !.runs = pr[p].runs]]
  /\ UNCHANGED <<probeCache, probeFaults>>

MediaNext ==
  \E p \in Probers :
    \/ FinalizeFacts(p) \/ ImportFacts(p) \/ ProbeDocument(p) \/ DocumentFails(p)
    \/ ChildWrites(p) \/ ChildExits(p) \/ WaitCloses(p)
    \/ ReadPacket(p) \/ TableEnds(p) \/ DecodeFails(p)
    \/ Keep(p) \/ Validate(p) \/ NextProbe(p)

MediaSpec == MediaInit /\ [][MediaNext]_mediaVars

-----------------------------------------------------------------------------
(* Properties *)

\* The keyframes are the multiples of one interval, from the first packet to the last
\* keyframe; nothing is said of the packets after it.
Uniform(f, n) ==
  n > 0 /\ \E last \in DOMAIN f.packets :
             f.packets[last] /\ \A i \in DOMAIN f.packets : f.packets[i] <=> (i - 1) % n = 0 /\ i <= last
ProvablyUniform(f) ==
  /\ \E n \in 1..Len(f.packets) : Uniform(f, n)
  /\ Cardinality({i \in DOMAIN f.packets : f.packets[i]}) >= 3

\* However ffprobe, the goroutine that waits for it and the reader of its pipe
\* interleave, and through the cache: a verdict on the cadence that was reached is the
\* truth about the file, an early refusal included; a file is accepted as ready for
\* assembly only if its own bytes show the streams and the closed GOP, whatever the
\* engine's receipt claims; and an imported file decodes.
ProbeTellsTheTruth ==
  \A p \in Probers :
    LET me == pr[p] IN
    /\ me.measured /\ me.stage \notin {"document", "scan"} /\ ~me.verdict.uncertifiable =>
         /\ me.verdict.closed = ProvablyUniform(me.file)
         /\ me.verdict.closed => Uniform(me.file, me.verdict.interval)
    /\ me.stage = "accepted" /\ me.profile = "assembly" => me.file.streams /\ ProvablyUniform(me.file)
    /\ me.stage = "accepted" /\ me.use = "import" => me.file.streams /\ me.file.decodes
=============================================================================
