----------------------------- MODULE OutputGates -----------------------------
(***************************************************************************)
(* The gates a rendered artifact passes before it is stored and recorded   *)
(* (renderinggen/internal/processor: native_gate.go, finalize_job.go,      *)
(* receipt_verify.go, receipt_identity.go, store_artifact.go,              *)
(* composition_check.go; the documents they read are decoded by            *)
(* chronon/telemetry.go and execution_facts.go).  One warm daemon renders  *)
(* the jobs one after the other; its counters are cumulative.  The engine  *)
(* is external: it renders as it likes and its receipt may be missing or   *)
(* wrong about the bytes, but it does not claim a decode it did not do.    *)
(* What a gate reads is chosen when it reads it.                           *)
(***************************************************************************)
EXTENDS Naturals

CONSTANTS
  MaxJobs,    \* bound of the jobs one daemon renders
  Frames      \* frames of a job

Levels == {"fast", "normal", "sample", "certify", "strict"}

VARIABLES
  level,       \* receiptVerifyLevel
  strict,      \* strictNativeBackend
  counters,    \* [nvenc, software]: frames counted since the daemon started
  jobsDone,
  gate,        \* "idle", then the last gate passed, or "rejected" / "accepted"
  facts        \* what is known of the artifact at hand (the truth included)

gateVars == <<level, strict, counters, jobsDone, gate, facts>>

NoFacts == [source |-> FALSE, overlay |-> FALSE, software |-> 0, certified |-> FALSE,
            receipt |-> "unread", decodes |-> TRUE, address |-> "none",
            sent |-> FALSE, direct |-> FALSE]

GatesInit ==
  /\ level \in Levels /\ strict \in BOOLEAN
  /\ counters = [nvenc |-> 0, software |-> 0]
  /\ jobsDone = 0
  /\ gate = "idle" /\ facts = NoFacts

Passes(stage) == gate' = stage /\ UNCHANGED <<level, strict, counters, jobsDone>>
Rejects == gate' = "rejected" /\ UNCHANGED <<level, strict, counters, jobsDone>>

-----------------------------------------------------------------------------
(* The render and the native gate of RunGPU *)

\* The plan has a source video or an authored overlay; software of the job's frames
\* were encoded in software, some may be missing.
EngineRenders ==
  /\ gate = "idle" /\ jobsDone < MaxJobs
  /\ \E source, overlay \in BOOLEAN, software, native \in 0..Frames :
       /\ source \/ overlay
       /\ software + native <= Frames
       /\ counters' = [nvenc |-> counters.nvenc + native,
                       software |-> counters.software + software]
       /\ facts' = [NoFacts EXCEPT !.source = source, !.overlay = overlay,
                                   !.software = software]
  /\ jobsDone' = jobsDone + 1
  /\ gate' = "rendered"
  /\ UNCHANGED <<level, strict>>

DaemonRestarts ==
  /\ gate = "idle"
  /\ counters' = [nvenc |-> 0, software |-> 0]
  /\ UNCHANGED <<level, strict, jobsDone, gate, facts>>

\* requireNativeVulkanTelemetry on a document that reports all its counters
CountsFramesOnly == counters.nvenc >= Frames
NativeCounters == counters.software = 0 /\ counters.nvenc >= Frames

NativeGate ==
  /\ gate = "rendered"
  /\ IF strict /\ facts.source
     THEN \E document \in {"missing", "bounded"} :
            IF document = "bounded" /\ NativeCounters
            THEN Passes("native") /\ facts' = [facts EXCEPT !.certified = TRUE]
            ELSE Rejects /\ UNCHANGED facts
     ELSE Passes("native") /\ UNCHANGED facts

-----------------------------------------------------------------------------
(* verifyArtifactReceipt *)

\* enforceReceiptVerificationDirect: only fast tolerates a missing receipt.
ReceiptGate ==
  /\ gate = "native"
  /\ \E receipt \in {"absent", "pass", "fail"} :
       /\ facts' = [facts EXCEPT !.receipt = receipt]
       /\ IF receipt = "pass" \/ (receipt = "absent" /\ level = "fast")
          THEN Passes("receipt") ELSE Rejects

PromisesDecode == level \in {"normal", "sample", "certify"}

\* receiptProvesDecode
AnyReceiptProves(tier) == facts.receipt = "pass"
ReceiptProvesDecode(tier) == facts.receipt = "pass" /\ tier \in {"normal", "certify"}

\* enforceDecodableOutput: the sampled check never rejects, it escalates.
DecodeGate ==
  /\ gate = "receipt"
  /\ \E decodes, sampleFails \in BOOLEAN, tier \in {"fast", "normal", "certify"} :
       /\ facts.receipt = "pass" /\ tier # "fast" => decodes
       /\ facts' = [facts EXCEPT !.decodes = decodes]
       /\ IF \/ ~PromisesDecode
             \/ ReceiptProvesDecode(tier)
             \/ level = "sample" /\ ~sampleFails
             \/ decodes
          THEN Passes("decode") ELSE Rejects

\* resolveArtifactIdentity: the address the artifact will be stored under.  "right"
\* is the digest of the bytes, "wrong" any other claim, "none" means hash them.
SizeIsEnough(claim) == claim
Proven(claim) == IF level = "fast" THEN claim ELSE "right"

IdentityGate ==
  /\ gate = "decode"
  /\ IF facts.receipt = "absent"
     THEN Passes("identity") /\ UNCHANGED facts
     ELSE \E sizeMatches \in BOOLEAN, claim \in {"right", "wrong"} :
            IF ~sizeMatches
            THEN IF level = "fast" THEN Passes("identity") /\ UNCHANGED facts
                                   ELSE Rejects /\ UNCHANGED facts
            ELSE IF Proven(claim) = claim
                 THEN Passes("identity") /\ facts' = [facts EXCEPT !.address = claim]
                 ELSE Rejects /\ UNCHANGED facts

-----------------------------------------------------------------------------
(* storeArtifact: hash if there is no address, put, then the composition check *)

StoreBytes ==
  /\ gate = "identity"
  /\ LET address == IF facts.address = "none" THEN "right" ELSE facts.address
     IN /\ facts' = [facts EXCEPT !.address = address, !.sent = TRUE]
        /\ \/ address = "right" /\ Passes("stored")   \* the store verifies the digest
           \/ Rejects                                 \* and may fail

\* checkCompositionPrediction with the error of verifyCompositionPrediction
NeverDiverges(direct, composited) == FALSE
Diverges(direct, composited) ==
  IF facts.overlay THEN direct
  ELSE composited = "yes" /\ level \in {"certify", "strict"}

\* A summary that is absent or cannot be decoded is tolerated.
CompositionGate ==
  /\ gate = "stored"
  /\ \E summary \in {"absent", "unreadable", "ok"}, direct \in BOOLEAN,
        composited \in {"yes", "no", "unreported"} :
       /\ direct => composited # "yes"
       /\ facts' = [facts EXCEPT !.direct = summary = "ok" /\ direct]
       /\ IF summary = "ok" /\ Diverges(direct, composited)
          THEN Rejects ELSE Passes("accepted")

NextJob ==
  /\ gate \in {"accepted", "rejected"}
  /\ gate' = "idle" /\ facts' = NoFacts
  /\ UNCHANGED <<level, strict, counters, jobsDone>>

GatesNext ==
  \/ EngineRenders \/ DaemonRestarts \/ NativeGate \/ ReceiptGate \/ DecodeGate
  \/ IdentityGate \/ StoreBytes \/ CompositionGate \/ NextJob

GatesSpec == GatesInit /\ [][GatesNext]_gateVars

-----------------------------------------------------------------------------
(* Properties *)

\* A job that is published under the native identity had no frame encoded in
\* software, although the counters it is judged by are those of the whole session.
CertifiedIsNative == facts.certified => facts.software = 0

\* Under a policy that promises a complete decode nothing is published that does
\* not decode, whoever did the decode.
DecodePromiseKept == gate = "accepted" /\ level \in {"normal", "certify"} => facts.decodes

\* Except under fast, no bytes leave the worker under an address that is not theirs,
\* whatever the receipt of the engine says.
NothingSentUnderAWrongAddress == facts.sent /\ level # "fast" => facts.address = "right"

\* A plan with an authored overlay is never published from a render the engine itself
\* reports as single-source.
PictureMatchesPlan == gate = "accepted" /\ facts.overlay => ~facts.direct

\* What is published was proven in each of these four ways, whatever the order in
\* which jobs, restarts of the daemon and failures come.
PublishedIsProven ==
  /\ CertifiedIsNative
  /\ DecodePromiseKept
  /\ NothingSentUnderAWrongAddress
  /\ PictureMatchesPlan
=============================================================================
