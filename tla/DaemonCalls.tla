----------------------------- MODULE DaemonCalls -----------------------------
(***************************************************************************)
(* The calls a worker makes to a renderer daemon over its socket           *)
(* (renderinggen/internal/chronon/ipc.go): Render and Assemble, which wait *)
(* as long as the daemon takes, and the service calls Status,              *)
(* PrefetchAsset and Shutdown, which carry a deadline.  Every call dials,  *)
(* writes one frame and reads one reply.  The daemon is external: it may   *)
(* answer, refuse, hang or die.                                            *)
(***************************************************************************)
EXTENDS Naturals

CONSTANTS
  IpcCalls,     \* the calls, each made once
  CallKind,     \* per call: "render", "assemble" or "service"
  CallPolicy    \* per call the receipt policy it carries: "fast" or "certify"

VARIABLES
  ipc,       \* per call: "new", "dialed", "sent", "ok", "error"
  ctx,       \* per call the caller's context: "alive" or "cancelled"
  elapsed,   \* calls whose service timeout is over
  daemon,    \* "up", "hung" or "gone"
  rendered,  \* calls the daemon did the work of
  reply      \* per call the frame that came back: "none" or a member of Replies

ipcVars == <<ipc, ctx, elapsed, daemon, rendered, reply>>

\* Frames: a structured success, a plain "ok", a structured failure under status Ok,
\* another known status, an unknown one, a frame that cannot be read.
Replies == {"ok json", "ok plain", "ok failed", "shutdown", "refused", "unknown status", "broken"}

IpcInit ==
  /\ ipc = [c \in IpcCalls |-> "new"]
  /\ ctx = [c \in IpcCalls |-> "alive"]
  /\ elapsed = {} /\ daemon = "up" /\ rendered = {}
  /\ reply = [c \in IpcCalls |-> "none"]

InCall(c) == ipc[c] \in {"dialed", "sent"}
Return(c, result) == ipc' = [ipc EXCEPT ![c] = result]

\* serviceContext: only the service calls are bounded.
NoBound(c) == FALSE
HasDeadline(c) == CallKind[c] = "service"

Dial(c) ==
  /\ ipc[c] = "new"
  /\ IF ctx[c] = "cancelled" \/ daemon = "gone"
     THEN Return(c, "error")
     ELSE ipc' = [ipc EXCEPT ![c] = "dialed"]
  /\ UNCHANGED <<ctx, elapsed, daemon, rendered, reply>>

WriteRequest(c) ==
  /\ ipc[c] = "dialed"
  /\ IF daemon = "gone" THEN Return(c, "error") ELSE ipc' = [ipc EXCEPT ![c] = "sent"]
  /\ UNCHANGED <<ctx, elapsed, daemon, rendered, reply>>

\* The deadline of the connection ends the write or the read.
DeadlineHits(c) ==
  /\ InCall(c) /\ HasDeadline(c) /\ c \in elapsed
  /\ Return(c, "error")
  /\ UNCHANGED <<ctx, elapsed, daemon, rendered, reply>>

ConnectionBreaks(c) ==
  /\ ipc[c] = "sent" /\ daemon = "gone" /\ reply[c] = "none"
  /\ Return(c, "error")
  /\ UNCHANGED <<ctx, elapsed, daemon, rendered, reply>>

\* RequiresStructuredReply
ToleratesAnyBody(policy) == FALSE
RequiresStructuredReply(policy) == policy \in {"normal", "certify"}

Verdict(c) ==
  CASE CallKind[c] = "render" ->
         \/ reply[c] = "ok json"
         \/ reply[c] = "ok plain" /\ ~RequiresStructuredReply(CallPolicy[c])
    [] CallKind[c] = "assemble" -> reply[c] \in {"ok json", "ok plain", "ok failed"}
    [] OTHER -> reply[c] \in {"ok json", "ok plain", "ok failed", "shutdown"}

ReadReply(c) ==
  /\ ipc[c] = "sent" /\ reply[c] # "none"
  /\ Return(c, IF Verdict(c) THEN "ok" ELSE "error")
  /\ UNCHANGED <<ctx, elapsed, daemon, rendered, reply>>

-----------------------------------------------------------------------------
(* The caller, the clock and the daemon *)

\* Cancelling the context of a call that has its connection interrupts nothing.
CancelCall(c) ==
  /\ ctx[c] = "alive" /\ (ipc[c] = "new" \/ InCall(c))
  /\ ctx' = [ctx EXCEPT ![c] = "cancelled"]
  /\ UNCHANGED <<ipc, elapsed, daemon, rendered, reply>>

TimeIsOver(c) ==
  /\ InCall(c) /\ c \notin elapsed
  /\ elapsed' = elapsed \cup {c}
  /\ UNCHANGED <<ipc, ctx, daemon, rendered, reply>>

DaemonWorks(c) ==
  /\ ipc[c] = "sent" /\ daemon = "up" /\ c \notin rendered /\ reply[c] = "none"
  /\ rendered' = rendered \cup {c}
  /\ UNCHANGED <<ipc, ctx, elapsed, daemon, reply>>

\* The structured success is what a daemon says of work it did; every other frame
\* may come with or without it.
DaemonReplies(c) ==
  /\ ipc[c] = "sent" /\ daemon = "up" /\ reply[c] = "none"
  /\ \E r \in Replies :
       /\ r = "ok json" => c \in rendered
       /\ reply' = [reply EXCEPT ![c] = r]
  /\ UNCHANGED <<ipc, ctx, elapsed, daemon, rendered>>

DaemonStops ==
  /\ daemon' \in CASE daemon = "up" -> {"hung", "gone"} [] daemon = "hung" -> {"gone"}
                   [] OTHER -> {}
  /\ UNCHANGED <<ipc, ctx, elapsed, rendered, reply>>

IpcStep(c) ==
  Dial(c) \/ WriteRequest(c) \/ DeadlineHits(c) \/ ConnectionBreaks(c) \/ ReadReply(c)

IpcNext ==
  \/ \E c \in IpcCalls : IpcStep(c) \/ CancelCall(c) \/ TimeIsOver(c)
                         \/ DaemonWorks(c) \/ DaemonReplies(c)
  \/ DaemonStops

IpcSpec == IpcInit /\ [][IpcNext]_ipcVars

\* The client runs and time passes; the daemon owes nothing.
IpcFair(c) == IpcStep(c) \/ TimeIsOver(c)

-----------------------------------------------------------------------------
(* Properties *)

\* A service call returns although the daemon hangs with the connection open.
ServiceCallsReturn ==
  \A c \in IpcCalls : (CallKind[c] = "service" /\ InCall(c)) ~> ~InCall(c)

\* Under a policy that claims proof, a render is only believed if the daemon did it,
\* whatever an older or broken daemon answers.
CreditedRenderHappened ==
  \A c \in IpcCalls :
    CallKind[c] = "render" /\ CallPolicy[c] = "certify" /\ ipc[c] = "ok" => c \in rendered
=============================================================================
