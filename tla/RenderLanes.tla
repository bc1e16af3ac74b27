----------------------------- MODULE RenderLanes -----------------------------
(***************************************************************************)
(* How a render gets a daemon (renderinggen/internal/chronon): the         *)
(* lock-free least-loaded choice of DaemonPool.Render and                  *)
(* spreadRenderer.Render, and the concurrency gate of each lane            *)
(* (SerializedRenderer).  Every atomic load and the compare-and-swap are   *)
(* steps of their own.                                                     *)
(***************************************************************************)
EXTENDS Naturals, FiniteSets

CONSTANTS
  RenderCalls,  \* calls of Render, each made once
  LaneCount,    \* the sockets
  TotalLanes    \* gpu_lanes: renders the worker runs at once

\* SpreadAcrossSockets refuses an empty list of sockets, StartDaemonPool starts one daemon at least.
ASSUME LanesAssumption == IsFiniteSet(RenderCalls) /\ LaneCount \in Nat \ {0} /\ TotalLanes \in Nat

\* The gate of each socket: the ceiling, never zero.
LanesPerSocket(total, sockets) ==
  IF sockets < 1 THEN 1 ELSE ((IF total < 1 THEN 1 ELSE total) + sockets - 1) \div sockets
PerLane == LanesPerSocket(TotalLanes, LaneCount)

Lanes == 0..(LaneCount - 1)
NoLane == LaneCount

VARIABLES
  cursor,    \* next: the round-robin counter
  inflight,  \* per lane the renders assigned to it and not returned
  admitted,  \* per lane the tokens taken from its gate
  render     \* per call [pc, slot, offset, best, load]

laneVars == <<cursor, inflight, admitted, render>>

LanesInit ==
  /\ cursor = 0
  /\ inflight = [l \in Lanes |-> 0]
  /\ admitted = [l \in Lanes |-> 0]
  /\ render = [c \in RenderCalls |->
                 [pc |-> "new", slot |-> 0, offset |-> 0, best |-> NoLane, load |-> 0]]

At(c, pc) == render[c].pc = pc
Goto(c, pc) == render' = [render EXCEPT ![c].pc = pc]

\* next.Add(1) - 1
TakeSlot(c) ==
  /\ At(c, "new")
  /\ cursor' = cursor + 1
  /\ render' = [render EXCEPT ![c].pc = "scan", ![c].slot = cursor]
  /\ UNCHANGED <<inflight, admitted>>

\* One load of the scan; a lane is better if it is the first or less loaded.
ScanLane(c) ==
  /\ At(c, "scan") /\ render[c].offset < LaneCount
  /\ LET l == (render[c].slot + render[c].offset) % LaneCount
         better == render[c].best = NoLane \/ inflight[l] < render[c].load
     IN render' = [render EXCEPT ![c].offset = @ + 1,
                                 ![c].best = IF better THEN l ELSE @,
                                 ![c].load = IF better THEN inflight[l] ELSE @]
  /\ UNCHANGED <<cursor, inflight, admitted>>

\* The compare-and-swap on the chosen lane; if it lost a race the scan begins anew.
StoresBlindly(c) ==
  /\ inflight' = [inflight EXCEPT ![render[c].best] = render[c].load + 1]
  /\ Goto(c, "queued")
CompareAndSwap(c) ==
  IF inflight[render[c].best] = render[c].load
  THEN /\ inflight' = [inflight EXCEPT ![render[c].best] = render[c].load + 1]
       /\ Goto(c, "queued")
  ELSE /\ render' = [render EXCEPT ![c].offset = 0, ![c].best = NoLane, ![c].load = 0]
       /\ UNCHANGED inflight

Reserve(c) ==
  /\ At(c, "scan") /\ render[c].offset = LaneCount
  /\ CompareAndSwap(c)
  /\ UNCHANGED <<cursor, admitted>>

\* The gate of the lane: a token, or the end of the caller's context.
Admit(c) ==
  /\ At(c, "queued")
  /\ admitted[render[c].best] < PerLane
  /\ admitted' = [admitted EXCEPT ![render[c].best] = @ + 1]
  /\ Goto(c, "rendering")
  /\ UNCHANGED <<cursor, inflight>>

GiveUp(c) ==
  /\ At(c, "queued")
  /\ Goto(c, "leaving")
  /\ UNCHANGED <<cursor, inflight, admitted>>

\* The inner Render returns, with or without an error, and the token is given back.  When
\* is up to the daemon: IPCClient.Render has no deadline.
KeepsToken(c) == admitted' = admitted
ReturnToken(c) == admitted' = [admitted EXCEPT ![render[c].best] = @ - 1]

InnerReturns(c) ==
  /\ At(c, "rendering")
  /\ ReturnToken(c)
  /\ Goto(c, "leaving")
  /\ UNCHANGED <<cursor, inflight>>

\* The deferred decrement.
LeaveLane(c) ==
  /\ At(c, "leaving")
  /\ inflight' = [inflight EXCEPT ![render[c].best] = @ - 1]
  /\ Goto(c, "done")
  /\ UNCHANGED <<cursor, admitted>>

\* What the goroutine of the call does by itself.
CallStep(c) == TakeSlot(c) \/ ScanLane(c) \/ Reserve(c) \/ Admit(c) \/ LeaveLane(c)

LanesNext == \E c \in RenderCalls : CallStep(c) \/ InnerReturns(c) \/ GiveUp(c)

LanesSpec == LanesInit /\ [][LanesNext]_laneVars

\* The calls run; no caller has to give up and no daemon has to answer.
LanesFairness == \A c \in RenderCalls : WF_laneVars(CallStep(c))

-----------------------------------------------------------------------------
(* Properties *)

Assigned(l) == {c \in RenderCalls :
                  render[c].best = l /\ render[c].pc \in {"queued", "rendering", "leaving"}}

\* The load the choice goes by is the number of renders the lane really has, for
\* all interleavings of scans, swaps and decrements, and no gate admits too many.
LoadIsExact ==
  \A l \in Lanes :
    /\ inflight[l] = Cardinality(Assigned(l))
    /\ Cardinality({c \in Assigned(l) : At(c, "rendering")}) <= PerLane

\* A call the daemons hold up: it is in one, or its lane is full of calls that are.
HeldUp(c) ==
  \/ At(c, "rendering")
  \/ At(c, "queued") /\ Cardinality({d \in Assigned(render[c].best) : At(d, "rendering")}) = PerLane

\* Only the daemons keep a render waiting: a lost race only repeats the scan, a lane with
\* a token left admits, and a call whose daemon has answered returns.  So every call
\* returns if every daemon answers, and one that hangs holds up its own lane and no more.
EveryCallReturns == \A c \in RenderCalls : ~At(c, "done") ~> At(c, "done") \/ HeldUp(c)
=============================================================================
