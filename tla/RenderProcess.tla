---------------------------- MODULE RenderProcess ----------------------------
(***************************************************************************)
(* One render through the CLI (renderinggen/internal/chronon: Client.Render*)
(* in client.go, the stall watchdog of stall_watch.go, the output scanners *)
(* of output_scan.go): the child process writes lines on two pipes, one    *)
(* scanner per pipe touches the activity clock and forwards progress, the  *)
(* watchdog samples the clock, and Render returns the child's verdict.     *)
(* Instants are kept as ages, counted in sampling periods and saturating   *)
(* once they are beyond the timeout.                                       *)
(***************************************************************************)
EXTENDS Integers, FiniteSetsExt

CONSTANTS
  StallTimeout,  \* silence, in periods, that is still tolerated
  MaxLines       \* bound of the lines a child writes on one stream

ASSUME ProcAssumption == StallTimeout \in Nat /\ MaxLines \in Nat

Streams == {"stdout", "stderr"}

VARIABLES
  child,      \* "none", "running", "succeeded", "failed" (exited), "killed"
  written,    \* per stream the lines the child wrote
  forwarded,  \* per stream the lines the scanner handed to the callback
  scanner,    \* per stream [pc, stamp]: "idle", "read" (line in hand), "done", "broken"
  activity,   \* age of stallActivity.nanos
  lastLine,   \* history: age of the latest stamp any scanner touched the clock with
  watch,      \* the watchdog: "off", "sampling", "fired", "stopped"
  caller,     \* the caller's context: "alive" or "cancelled"
  cancelled,  \* renderCtx
  outcome     \* "none", "ok", "stalled", "stream failure", "failed", "refused"

procVars == <<child, written, forwarded, scanner, activity, lastLine, watch,
              caller, cancelled, outcome>>

ProcInit ==
  /\ child = "none"
  /\ written = [s \in Streams |-> 0] /\ forwarded = written
  /\ scanner = [s \in Streams |-> [pc |-> "idle", stamp |-> 0]]
  /\ activity = 0 /\ lastLine = 0
  /\ watch = "off"
  /\ caller = "alive" /\ cancelled = FALSE
  /\ outcome = "none"

Running == child # "none" /\ outcome = "none"
Exited == child \in {"succeeded", "failed", "killed"}

\* validateRenderRequest, the segment refusal and cmd.Start
StartChild ==
  /\ child = "none" /\ outcome = "none"
  /\ \/ child' = "running" /\ watch' = "sampling" /\ UNCHANGED outcome
     \/ outcome' = "refused" /\ UNCHANGED <<child, watch>>
  /\ UNCHANGED <<written, forwarded, scanner, activity, lastLine, caller, cancelled>>

-----------------------------------------------------------------------------
(* The child (external) *)

ChildWrites(s) ==
  /\ child = "running" /\ written[s] < MaxLines
  /\ written' = [written EXCEPT ![s] = @ + 1]
  /\ UNCHANGED <<child, forwarded, scanner, activity, lastLine, watch, caller,
                 cancelled, outcome>>

ChildExits ==
  /\ child = "running"
  /\ child' \in {"succeeded", "failed"}
  /\ UNCHANGED <<written, forwarded, scanner, activity, lastLine, watch, caller,
                 cancelled, outcome>>

\* exec.CommandContext kills the child when renderCtx is done.
KillChild ==
  /\ child = "running" /\ cancelled
  /\ child' = "killed"
  /\ UNCHANGED <<written, forwarded, scanner, activity, lastLine, watch, caller,
                 cancelled, outcome>>

-----------------------------------------------------------------------------
(* The scanners: scanRenderOutput with the callback of streamLines *)

\* scanner.Scan and the time.Now() of the callback
ReadLine(s) ==
  /\ Running /\ scanner[s].pc = "idle" /\ forwarded[s] < written[s]
  /\ scanner' = [scanner EXCEPT ![s] = [pc |-> "read", stamp |-> 0]]
  /\ UNCHANGED <<child, written, forwarded, activity, lastLine, watch, caller,
                 cancelled, outcome>>

\* stallActivity.touch: a stamp older than the recorded one is ignored.
StoresAnyStamp(stamp) == stamp
Touched(stamp) == IF stamp >= activity THEN activity ELSE stamp

\* touch, the failure diagnostics and the progress callback
ForwardLine(s) ==
  /\ scanner[s].pc = "read"
  /\ activity' = Touched(scanner[s].stamp)
  /\ lastLine' = Min({lastLine, scanner[s].stamp})
  /\ forwarded' = [forwarded EXCEPT ![s] = @ + 1]
  /\ scanner' = [scanner EXCEPT ![s] = [pc |-> "idle", stamp |-> 0]]
  /\ UNCHANGED <<child, written, watch, caller, cancelled, outcome>>

\* A line beyond maxRenderOutputLine: the scanner gives up and aborts the render.
BreakStream(s) ==
  /\ Running /\ scanner[s].pc = "idle" /\ forwarded[s] < written[s]
  /\ scanner' = [scanner EXCEPT ![s].pc = "broken"]
  /\ cancelled' = TRUE
  /\ UNCHANGED <<child, written, forwarded, activity, lastLine, watch, caller, outcome>>

\* EOF: the child closed the write end and the pipe is empty.
EndStream(s) ==
  /\ Running /\ scanner[s].pc = "idle" /\ Exited /\ forwarded[s] = written[s]
  /\ scanner' = [scanner EXCEPT ![s].pc = "done"]
  /\ UNCHANGED <<child, written, forwarded, activity, lastLine, watch, caller,
                 cancelled, outcome>>

-----------------------------------------------------------------------------
(* The watchdog: stallWatch.run *)

NeverStalled == FALSE
StalledAt == activity > StallTimeout

Older(age) == Min({age + 1, StallTimeout + 1})

PassTime ==
  /\ Running
  /\ activity' = Older(activity) /\ lastLine' = Older(lastLine)
  /\ scanner' = [s \in Streams |->
                   IF scanner[s].pc = "read" THEN [scanner[s] EXCEPT !.stamp = Older(@)]
                                             ELSE scanner[s]]
  /\ UNCHANGED <<child, written, forwarded, watch, caller, cancelled, outcome>>

FireWatch ==
  /\ watch = "sampling" /\ Running /\ StalledAt
  /\ watch' = "fired" /\ cancelled' = TRUE
  /\ UNCHANGED <<child, written, forwarded, scanner, activity, lastLine, caller, outcome>>

CancelCaller ==
  /\ Running /\ caller = "alive"
  /\ caller' = "cancelled" /\ cancelled' = TRUE
  /\ UNCHANGED <<child, written, forwarded, scanner, activity, lastLine, watch, outcome>>

-----------------------------------------------------------------------------
(* The end: streamWG.Wait, cmd.Wait and the classification of its error *)

WaitsForExitOnly == Exited
StreamsDrained == \A s \in Streams : scanner[s].pc \in {"done", "broken"}

StreamFailed == \E s \in Streams : scanner[s].pc = "broken"

ErrorClass ==
  IF cancelled /\ caller = "alive"
  THEN (IF StreamFailed THEN "stream failure" ELSE "stalled")
  ELSE "failed"

\* Wait reports a child that had already succeeded as cancelled or as a success,
\* according to which of the two the goroutine of os/exec saw first.
ReturnRender ==
  /\ Running /\ Exited /\ StreamsDrained
  /\ outcome' \in IF child = "succeeded"
                  THEN {"ok"} \cup (IF cancelled THEN {ErrorClass} ELSE {})
                  ELSE {ErrorClass}
  /\ watch' = IF watch = "sampling" THEN "stopped" ELSE watch
  /\ UNCHANGED <<child, written, forwarded, scanner, activity, lastLine, caller, cancelled>>

ProcNext ==
  \/ StartChild \/ ChildExits \/ KillChild \/ PassTime \/ FireWatch \/ CancelCaller
  \/ ReturnRender
  \/ \E s \in Streams :
       ChildWrites(s) \/ ReadLine(s) \/ ForwardLine(s) \/ BreakStream(s) \/ EndStream(s)

ProcSpec == ProcInit /\ [][ProcNext]_procVars

\* The kernel delivers the kill, goroutines run, the ticker ticks.  The child
\* promises nothing.
ProcFair ==
  \/ KillChild \/ PassTime \/ FireWatch \/ ReturnRender
  \/ \E s \in Streams : ReadLine(s) \/ ForwardLine(s) \/ EndStream(s)

-----------------------------------------------------------------------------
(* Properties *)

\* When Render returns no scanner runs any more, and of a stream that did not
\* break every line the child wrote was forwarded, the last milestone included.
NoMilestoneLost ==
  outcome \notin {"none", "refused"} =>
    \A s \in Streams :
      /\ scanner[s].pc \in {"done", "broken"}
      /\ scanner[s].pc = "done" => forwarded[s] = written[s]

\* A render is aborted for silence only if no line was recorded for longer than
\* the timeout, in whatever order the two scanners touch the clock; and a render
\* its caller cancelled is not reported as one that stalled.
StallIsReal ==
  /\ [][watch' = "fired" /\ watch # "fired" => lastLine > StallTimeout]_procVars
  /\ [][outcome' = "stalled" => watch' = "fired"]_procVars

\* Whatever the child does, Render returns.
RenderReturns == (child = "running") ~> (outcome # "none")
=============================================================================
