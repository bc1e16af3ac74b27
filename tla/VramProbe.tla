------------------------------ MODULE VramProbe ------------------------------
(***************************************************************************)
(* The laboratory harness that measures what two warm renderers cost       *)
(* (renderinggen/internal/vramprobe): the two-runtime measurement with its *)
(* sampler goroutine and its concurrent renders, the suite that repeats it *)
(* over a matrix of shapes, and the single-job probe that uses the same    *)
(* sampler.                                                                *)
(*                                                                         *)
(* Of a sample the phase it is tagged with is kept; the bytes of a render  *)
(* are one of two digests, or none could be taken; a run sees one of two   *)
(* devices (a driver update between runs).                                 *)
(***************************************************************************)
EXTENDS Integers, Sequences, FiniteSets

CONSTANTS
  Matrices,          \* matrices of shapes, [label, repeat, concrete]; sources of a probe
  Runtimes,          \* the owned daemons of a measurement; the two jobs of a probe
  MinRunsPerShape,   \* MinRunsPerShape
  MaxSamples         \* bound of the model: samples of one measurement

ASSUME ProbeAssumption ==
  /\ MinRunsPerShape \in Nat \ {0} /\ MaxSamples \in Nat
  /\ \A m \in Matrices : \A i \in DOMAIN m : m[i].repeat \in Nat

VARIABLES
  mode,      \* "suite" or "single"
  matrix,    \* SuiteManifest.Shapes, or the jobs of the probe's source manifest
  probeAt,   \* where the command is: "off", a stage of a measurement, "over"
  ctxDone,   \* the command's context has ended
  looping,   \* the sampler goroutine runs
  tick,      \* its tick: "none", "read", the phase it is tagged with, "append"
  ticks,     \* poolSampler.samples: the phases of the samples
  counter,   \* poolSampler.counter
  facts,     \* runtime -> PoolJobFacts: "none", "failed", "unread" or a digest
  device,    \* PoolReport.Device
  runs,      \* SuiteReport runs: shape -> its repetitions so far, NoReport if failed
  exit       \* "none", "ok" or "error": what the command returns

probeVars == <<mode, matrix, probeAt, ctxDone, looping, tick, ticks, counter, facts, device, runs, exit>>

NoReport == [identical |-> FALSE, device |-> 0, samples |-> 0, tagged |-> 0]

\* poolSampler.phase in each stage of a command.
Stages == {"snapshot", "idle", "warm_pools", "rendering", "resident_hold", "after_shutdown", "setup", "probe"}
CurrentPhase == IF probeAt \in {"snapshot", "setup"} THEN "idle" ELSE probeAt

ProbeInit ==
  /\ mode \in {"suite", "single"} /\ matrix \in Matrices
  /\ probeAt = "off" /\ ctxDone = FALSE /\ looping = FALSE /\ tick = "none"
  /\ ticks = << >> /\ counter = 0 /\ device = 0
  /\ facts = [r \in Runtimes |-> "none"]
  /\ runs = [i \in DOMAIN matrix |-> << >>] /\ exit = "none"

\* A signal ends the context; what runs under it finds out by itself.
ContextEnds ==
  /\ exit = "none" /\ ~ctxDone /\ ctxDone' = TRUE
  /\ UNCHANGED <<mode, matrix, probeAt, looping, tick, ticks, counter, facts, device, runs, exit>>

-----------------------------------------------------------------------------
(* The sampler *)

\* loop: a tick reads the device, tags what it read with the phase of that moment,
\* reads the daemons' memory, appends the sample and counts it.
ReadDevice ==
  /\ looping /\ tick = "none" /\ ~ctxDone /\ Len(ticks) < MaxSamples /\ tick' = "read"
  /\ UNCHANGED <<mode, matrix, probeAt, ctxDone, looping, ticks, counter, facts, device, runs, exit>>
ReadingFails ==
  /\ tick = "read" /\ tick' = "none"
  /\ UNCHANGED <<mode, matrix, probeAt, ctxDone, looping, ticks, counter, facts, device, runs, exit>>
TagSample ==
  /\ tick = "read" /\ probeAt \in Stages /\ tick' = CurrentPhase
  /\ UNCHANGED <<mode, matrix, probeAt, ctxDone, looping, ticks, counter, facts, device, runs, exit>>
AppendSample ==
  /\ tick \notin {"none", "read", "append"} /\ ticks' = Append(ticks, tick) /\ tick' = "append"
  /\ UNCHANGED <<mode, matrix, probeAt, ctxDone, looping, counter, facts, device, runs, exit>>
CountSample ==
  /\ tick = "append" /\ tick' = "none" /\ counter' = counter + 1
  /\ UNCHANGED <<mode, matrix, probeAt, ctxDone, looping, ticks, facts, device, runs, exit>>

\* The loop ends by itself when the context does, between two ticks.
SamplerGivesUp ==
  /\ looping /\ ctxDone /\ tick = "none" /\ looping' = FALSE
  /\ UNCHANGED <<mode, matrix, probeAt, ctxDone, tick, ticks, counter, facts, device, runs, exit>>

\* stop returns when the loop has ended, not when it has been told to.
StopsWithoutWaiting == TRUE      \* slip: does not wait for doneCh
LoopHasEnded == tick = "none"
StopSampler == LoopHasEnded /\ looping' = FALSE /\ UNCHANGED tick

\* phaseFacts: the samples behind the numbers of each phase.
PhaseFacts == [p \in {ticks[i] : i \in DOMAIN ticks} |-> {i \in DOMAIN ticks : ticks[i] = p}]
Reduced == Cardinality(UNION {PhaseFacts[p] : p \in DOMAIN PhaseFacts})

-----------------------------------------------------------------------------
(* One measurement *)

\* A matrix is run only if its labels tell the shapes apart and every shape is repeated
\* often enough to be a calibration.
AcceptsAnyRepeat ==              \* slip: no floor for the repetitions
  matrix # << >> /\ \A i, j \in DOMAIN matrix : i # j => matrix[i].label # matrix[j].label
LoadSuiteManifest ==
  /\ matrix # << >>
  /\ \A i, j \in DOMAIN matrix : i # j => matrix[i].label # matrix[j].label
  /\ \A i \in DOMAIN matrix : matrix[i].repeat >= MinRunsPerShape
\* Every plan is one a daemon can render.
PlanSuite == \A i \in DOMAIN matrix : matrix[i].concrete
Refused(accepted) ==
  /\ probeAt = "off" /\ exit = "none" /\ ~accepted
  /\ exit' = "error" /\ probeAt' = "over"
  /\ UNCHANGED <<mode, matrix, ctxDone, looping, tick, ticks, counter, facts, device, runs>>

\* The suite takes its shapes in order, and each shape's repetitions one by one.
Unfinished == {i \in DOMAIN matrix : Len(runs[i]) < matrix[i].repeat}
CurrentShape(i) == i \in Unfinished /\ \A j \in Unfinished : i <= j
SuiteGoesOn ==
  /\ mode = "suite" /\ LoadSuiteManifest /\ PlanSuite /\ Unfinished # {}
  /\ probeAt = "off" /\ exit = "none"

\* A repetition that ended: its report, or the gap it leaves.  Under a context that has
\* ended a repetition that failed ends the suite.
Records(report) ==
  /\ \E i \in DOMAIN matrix : CurrentShape(i) /\ runs' = [runs EXCEPT ![i] = Append(@, report)]
  /\ probeAt' = "off" /\ ticks' = << >> /\ counter' = 0 /\ device' = 0
  /\ facts' = [r \in Runtimes |-> "none"] /\ UNCHANGED exit
RunFails ==
  \/ ~ctxDone /\ Records(NoReport)
  \/ ctxDone /\ exit' = "error" /\ probeAt' = "over" /\ UNCHANGED <<ticks, counter, facts, device, runs>>

\* The plan, the directories or the device are not there.
CannotBegin ==
  /\ SuiteGoesOn /\ RunFails
  /\ UNCHANGED <<mode, matrix, ctxDone, looping, tick>>
\* newPoolSampler, after the device has been identified.
BeginMeasurement ==
  /\ SuiteGoesOn /\ ~ctxDone /\ device' \in 1..2
  /\ probeAt' = "snapshot" /\ looping' = TRUE
  /\ UNCHANGED <<mode, matrix, ctxDone, tick, ticks, counter, facts, runs, exit>>
\* snapshot takes the idle baseline beside the loop, whether or not the device answers.
Snapshot ==
  /\ probeAt = "snapshot" /\ probeAt' = "idle"
  /\ ticks' = Append(ticks, "idle") /\ counter' = counter + 1
  /\ UNCHANGED <<mode, matrix, ctxDone, looping, tick, facts, device, runs, exit>>
\* The pool does not start, or does not own every socket.
PoolRefused ==
  /\ probeAt = "idle" /\ StopSampler /\ RunFails
  /\ UNCHANGED <<mode, matrix, ctxDone>>

\* The pool is up, the jobs are submitted, and after the hold the pool is shut down.
NextPhase == [idle |-> "warm_pools", warm_pools |-> "rendering", resident_hold |-> "after_shutdown"]
Advance ==
  /\ probeAt \in DOMAIN NextPhase /\ probeAt' = NextPhase[probeAt]
  /\ UNCHANGED <<mode, matrix, ctxDone, looping, tick, ticks, counter, facts, device, runs, exit>>

\* runPoolJobs: every runtime renders at once, and the next phase waits for all.  A file
\* that cannot be read back has no digest.
RenderEnds(r) ==
  /\ probeAt = "rendering" /\ facts[r] = "none"
  /\ \E f \in {"failed"} \cup (IF ctxDone THEN {} ELSE {"unread", "same", "other"}) :
       facts' = [facts EXCEPT ![r] = f]
  /\ UNCHANGED <<mode, matrix, probeAt, ctxDone, looping, tick, ticks, counter, device, runs, exit>>
AllRendered ==
  /\ probeAt = "rendering" /\ \A r \in Runtimes : facts[r] # "none"
  /\ probeAt' = "resident_hold"
  /\ UNCHANGED <<mode, matrix, ctxDone, looping, tick, ticks, counter, facts, device, runs, exit>>

NoFailedJobs == \A r \in Runtimes : facts[r] # "failed"
JobsIdentical ==
  /\ \A r \in Runtimes : facts[r] \notin {"failed", "unread"}
  /\ \A r, q \in Runtimes : facts[r] = facts[q]

\* The report counts the samples its numbers are reduced from; the repetition fails if a
\* file cannot be written or a job failed.
Report ==
  /\ probeAt = "after_shutdown" /\ StopSampler
  /\ \/ NoFailedJobs /\ Records([identical |-> JobsIdentical, device |-> device,
                                 samples |-> counter, tagged |-> Reduced])
     \/ RunFails
  /\ UNCHANGED <<mode, matrix, ctxDone>>

-----------------------------------------------------------------------------
(* The suite *)

RunsCompleted(i) == {k \in DOMAIN runs[i] : runs[i][k] # NoReport}
OnlyCountsTheRuns(i) ==          \* slip: what the runs rendered does not matter
  Cardinality(RunsCompleted(i)) < matrix[i].repeat
IncompleteReason(i) ==
  \/ Cardinality(RunsCompleted(i)) < matrix[i].repeat
  \/ \E k \in RunsCompleted(i) : ~runs[i][k].identical
  \/ \E k, n \in RunsCompleted(i) : runs[i][k].device # runs[i][n].device
\* The report is written either way; an incomplete suite and a report that cannot be
\* written are errors.
SuiteEnds ==
  /\ mode = "suite" /\ probeAt = "off" /\ exit = "none"
  /\ LoadSuiteManifest /\ PlanSuite /\ Unfinished = {}
  /\ \/ exit' = "error"
     \/ (\A i \in DOMAIN matrix : ~IncompleteReason(i)) /\ exit' = "ok"
  /\ probeAt' = "over"
  /\ UNCHANGED <<mode, matrix, ctxDone, looping, tick, ticks, counter, facts, device, runs>>

-----------------------------------------------------------------------------
(* The single-job probe: two jobs that go through the queue, under one phase. *)
(* The state of a job is reported, whatever it is.                            *)

\* buildProbe takes the first phrase job and the first of another kind.
BuildProbe == \E i, j \in DOMAIN matrix : matrix[i].label = "phrase" /\ matrix[j].label # "phrase"
\* The device answers, and the sampler is started in the phase it is born with.
Probe ==
  /\ mode = "single" /\ BuildProbe /\ ~ctxDone /\ probeAt = "off" /\ exit = "none"
  /\ probeAt' = "setup" /\ looping' = TRUE
  /\ UNCHANGED <<mode, matrix, ctxDone, tick, ticks, counter, facts, device, runs, exit>>
SetProbePhase ==
  /\ probeAt = "setup" /\ probeAt' = "probe"
  /\ UNCHANGED <<mode, matrix, ctxDone, looping, tick, ticks, counter, facts, device, runs, exit>>
ProbeJobEnds(r) ==
  /\ probeAt = "probe" /\ facts[r] = "none"
  /\ \E f \in {"failed", "same"} : facts' = [facts EXCEPT ![r] = f]
  /\ UNCHANGED <<mode, matrix, probeAt, ctxDone, looping, tick, ticks, counter, device, runs, exit>>
\* No manifest could be written, no device, no queue, a refused job or a wait that ends
\* without an answer; the deferred stop covers them all.
ProbeFails ==
  /\ mode = "single" /\ BuildProbe /\ probeAt \in {"off", "probe"} /\ exit = "none" /\ StopSampler
  /\ exit' = "error" /\ probeAt' = "over"
  /\ UNCHANGED <<mode, matrix, ctxDone, ticks, counter, facts, device, runs>>
ProbeReports ==
  /\ probeAt = "probe" /\ \A r \in Runtimes : facts[r] # "none"
  /\ StopSampler /\ exit' \in {"ok", "error"} /\ probeAt' = "over"
  /\ UNCHANGED <<mode, matrix, ctxDone, ticks, counter, facts, device, runs>>

ProbeNext ==
  \/ ContextEnds \/ ReadDevice \/ ReadingFails \/ TagSample \/ AppendSample \/ CountSample \/ SamplerGivesUp
  \/ CannotBegin \/ BeginMeasurement \/ Snapshot \/ PoolRefused \/ Advance \/ AllRendered \/ Report \/ SuiteEnds
  \/ Refused(IF mode = "suite" THEN LoadSuiteManifest /\ PlanSuite ELSE BuildProbe)
  \/ Probe \/ SetProbePhase \/ ProbeFails \/ ProbeReports
  \/ \E r \in Runtimes : RenderEnds(r) \/ ProbeJobEnds(r)

-----------------------------------------------------------------------------
(* Properties *)

\* A suite that is reported as a calibration is one: every repetition of every
\* shape ran to its end, rendered one result on one device; and each report counts
\* the samples its numbers are reduced from, the tick that was in flight when the
\* sampler was stopped included.
CalibrationIsReal ==
  /\ mode = "suite" /\ exit = "ok" =>
       \A i \in DOMAIN matrix :
         /\ Len(runs[i]) >= MinRunsPerShape
         /\ \A k, n \in DOMAIN runs[i] : /\ runs[i][k] # NoReport /\ runs[i][k].identical
                                         /\ runs[i][k].device = runs[i][n].device
  /\ \A i \in DOMAIN matrix : \A k \in DOMAIN runs[i] : runs[i][k].samples = runs[i][k].tagged
  /\ mode = "single" /\ exit = "ok" => counter = Len(ticks)
=============================================================================
