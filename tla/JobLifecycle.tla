---------------------------- MODULE JobLifecycle ----------------------------
(***************************************************************************)
(* What a job store promises its producers and workers, whichever backend  *)
(* is behind it (the Repository interface of queue/internal/repository):   *)
(* every job goes through its own life cycle, a job in progress has        *)
(* exactly one holder, a stored artifact is never lost, a finished or      *)
(* cancelled job stays as it is, and only a job with tries left goes back  *)
(* in line by itself.  A step may move several jobs (a batch submit, a     *)
(* sweep), each along its own life cycle.                                  *)
(***************************************************************************)
EXTENDS Naturals

CONSTANTS
  Jobs, Workers, None,
  Corrupt,      \* jobs whose stored row cannot be decoded
  MaxAttempts   \* 0 means no limit

VARIABLES
  phase,   \* where each job is in its life
  holder,  \* the worker that works on it
  tries,   \* how many times it was started
  stored   \* whether its artifact is durable

vars == <<phase, holder, tries, stored>>

Phases == {"absent", "queued", "working", "completed", "failed", "cancelled"}

(* The next values of one job. *)
Becomes(j, p, h, t, s) ==
  phase'[j] = p /\ holder'[j] = h /\ tries'[j] = t /\ stored'[j] = s

Accept(j) == phase[j] = "absent" /\ Becomes(j, "queued", None, 0, FALSE)

Start(j) ==
  /\ phase[j] = "queued"
  /\ \E w \in Workers : Becomes(j, "working", w, tries[j] + 1, stored[j])

(* A finalizer takes an assembly anchor. *)
Assemble(j) ==
  /\ phase[j] \in {"queued", "working"}
  /\ \E w \in Workers : Becomes(j, "working", w, tries[j], stored[j])

GiveBack(j) ==
  /\ phase[j] = "working"
  /\ MaxAttempts > 0 => tries[j] < MaxAttempts
  /\ Becomes(j, "queued", None, tries[j], stored[j])

(* Rendered but not published: the artifact is kept for the next holder. *)
Park(j) == phase[j] = "working" /\ Becomes(j, "queued", None, tries[j], TRUE)

Finish(j) == phase[j] = "working" /\ Becomes(j, "completed", None, tries[j], TRUE)

GiveUp(j) == phase[j] = "working" /\ Becomes(j, "failed", None, tries[j], stored[j])

Withdraw(j) ==
  /\ phase[j] \in {"queued", "working"}
  /\ Becomes(j, "cancelled", None, tries[j], stored[j])

Reopen(j) == phase[j] = "failed" /\ Becomes(j, "queued", None, tries[j], stored[j])

Poison(j) ==
  /\ j \in Corrupt
  /\ phase[j] # "absent"
  /\ Becomes(j, "failed", None, tries[j], stored[j])

Stay(j) == Becomes(j, phase[j], holder[j], tries[j], stored[j])

JobStep(j) ==
  \/ Accept(j) \/ Start(j) \/ Assemble(j) \/ GiveBack(j) \/ Park(j)
  \/ Finish(j) \/ GiveUp(j) \/ Withdraw(j) \/ Reopen(j) \/ Poison(j)
  \/ Stay(j)

Init ==
  /\ phase = [j \in Jobs |-> "absent"]
  /\ holder = [j \in Jobs |-> None]
  /\ tries = [j \in Jobs |-> 0]
  /\ stored = [j \in Jobs |-> FALSE]

Next == \A j \in Jobs : JobStep(j)

Spec == Init /\ [][Next]_vars
=============================================================================
