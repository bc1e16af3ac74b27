-------------------------- MODULE RenderHostProofs --------------------------
(***************************************************************************)
(* What holds of the components of a render host for every value of their  *)
(* constants.  Each section has the inductive invariant of one component,  *)
(* its step, and the theorem about the component's own specification; the  *)
(* last one puts them together for the host that runs any of them.         *)
(***************************************************************************)
EXTENDS MCRenderHost, FiniteSetTheorems, SequenceTheorems, WellFoundedInduction, NaturalsInduction, TLAPS

-----------------------------------------------------------------------------
(* The lanes *)

OnLane == {"queued", "rendering", "leaving"}
Rendering(l) == {c \in RenderCalls : render[c].best = l /\ render[c].pc = "rendering"}

CallState ==
  [pc : {"new", "scan", "done"} \cup OnLane, slot : Nat, offset : Nat, best : Nat, load : Nat]

LanesTyped ==
  /\ cursor \in Nat
  /\ inflight \in [Lanes -> Nat] /\ admitted \in [Lanes -> Nat]
  /\ render \in [RenderCalls -> CallState]

(* A scan that has looked at a lane has chosen one, and a render keeps it. *)
HasLane ==
  \A c \in RenderCalls :
    \/ render[c].best \in Lanes
    \/ render[c].pc \in {"new", "scan"} /\ render[c].offset = 0 /\ render[c].best = NoLane

(* The counters are the renders they count. *)
CountersExact ==
  \A l \in Lanes : /\ inflight[l] = Cardinality(Assigned(l))
                   /\ admitted[l] = Cardinality(Rendering(l))
                   /\ admitted[l] <= PerLane

LanesInv == LanesTyped /\ HasLane /\ CountersExact

LEMMA PerLaneIsNat == PerLane \in Nat
<1>1. ASSUME NEW t \in Nat \ {0}, NEW n \in Nat \ {0} PROVE (t + n - 1) \div n \in Nat
  OBVIOUS
<1>2. QED
  BY <1>1, LanesAssumption DEF PerLane, LanesPerSocket

LEMMA CallSetsAreFinite == \A l : IsFiniteSet(Assigned(l)) /\ IsFiniteSet(Rendering(l))
<1> TAKE l
<1>1. Assigned(l) \subseteq RenderCalls /\ Rendering(l) \subseteq RenderCalls
  BY DEF Assigned, Rendering
<1>2. QED
  BY <1>1, LanesAssumption, FS_Subset

LEMMA LanesInvInit == LanesInit => LanesInv
<1> SUFFICES ASSUME LanesInit PROVE LanesInv
  OBVIOUS
<1>1. \A l \in Lanes : Assigned(l) = {} /\ Rendering(l) = {}
  BY DEF LanesInit, Assigned, Rendering
<1>2. LanesTyped /\ HasLane
  BY LanesAssumption DEF LanesInit, LanesTyped, CallState, HasLane, NoLane
<1>3. CountersExact
  BY <1>1, PerLaneIsNat, FS_EmptySet DEF LanesInit, CountersExact
<1>4. QED
  BY <1>2, <1>3 DEF LanesInv

(* A step of one call leaves the others as they are. *)
LEMMA OneCallMoves ==
  ASSUME LanesTyped, NEW c \in RenderCalls, NEW r \in CallState, render' = [render EXCEPT ![c] = r]
  PROVE  /\ render' \in [RenderCalls -> CallState]
         /\ \A d \in RenderCalls : render'[d] = IF d = c THEN r ELSE render[d]
BY DEF LanesTyped

(* A step of a call that stays off the lanes, or on its lane without         *)
(* entering or leaving its gate, changes none of the sets that are counted.  *)
LEMMA CountsUntouched ==
  ASSUME CountersExact, UNCHANGED <<inflight, admitted>>,
         \A l \in Lanes : Assigned(l)' = Assigned(l) /\ Rendering(l)' = Rendering(l)
  PROVE  CountersExact'
BY DEF CountersExact

LEMMA LanesInvStep == LanesInv /\ [LanesNext]_laneVars => LanesInv'
<1> SUFFICES ASSUME LanesInv, [LanesNext]_laneVars PROVE LanesInv'
  OBVIOUS
<1> USE DEF OnLane
<1>0. LanesTyped /\ HasLane /\ CountersExact /\ LaneCount \in Nat \ {0}
  BY LanesAssumption DEF LanesInv
<1>1. CASE UNCHANGED laneVars
  <2>1. \A l \in Lanes : Assigned(l)' = Assigned(l) /\ Rendering(l)' = Rendering(l)
    BY <1>1 DEF laneVars, Assigned, Rendering
  <2>2. CountersExact'
    BY <1>0, <1>1, <2>1, CountsUntouched DEF laneVars
  <2>3. QED
    BY <1>0, <1>1, <2>2 DEF laneVars, LanesInv, LanesTyped, HasLane
<1>2. ASSUME NEW c \in RenderCalls, TakeSlot(c) PROVE LanesInv'
  <2> DEFINE r == [render[c] EXCEPT !.pc = "scan", !.slot = cursor]
  <2>a. r \in CallState /\ r.best = render[c].best /\ r.offset = render[c].offset /\ r.pc = "scan"
    BY <1>0 DEF LanesTyped, CallState
  <2>b. render' = [render EXCEPT ![c] = r]
    BY <1>2 DEF TakeSlot
  <2> HIDE DEF r
  <2>c. /\ render' \in [RenderCalls -> CallState]
        /\ \A d \in RenderCalls : render'[d] = IF d = c THEN r ELSE render[d]
    BY <1>0, <2>a, <2>b, OneCallMoves
  <2>1. LanesTyped' /\ HasLane'
    BY <1>0, <1>2, <2>a, <2>c DEF TakeSlot, At, LanesTyped, HasLane
  <2>2. \A l \in Lanes : Assigned(l)' = Assigned(l) /\ Rendering(l)' = Rendering(l)
    BY <1>2, <2>a, <2>c DEF TakeSlot, At, Assigned, Rendering
  <2>3. QED
    BY <1>0, <1>2, <2>1, <2>2, CountsUntouched DEF LanesInv, TakeSlot
<1>3. ASSUME NEW c \in RenderCalls, ScanLane(c) PROVE LanesInv'
  <2> DEFINE l == (render[c].slot + render[c].offset) % LaneCount
             better == render[c].best = NoLane \/ inflight[l] < render[c].load
  <2>1. l \in Lanes /\ l \in Nat
    <3>1. render[c].slot + render[c].offset \in Nat
      BY <1>0 DEF LanesTyped, CallState
    <3>2. QED
      BY <1>0, <3>1 DEF Lanes
  <2> DEFINE r == [render[c] EXCEPT !.offset = @ + 1, !.best = IF better THEN l ELSE @,
                                    !.load = IF better THEN inflight[l] ELSE @]
  <2>2. /\ render' = [render EXCEPT ![c] = r]
        /\ UNCHANGED <<cursor, inflight, admitted>> /\ render[c].pc = "scan"
    BY <1>3 DEF ScanLane, At
  <2>3. inflight[l] \in Nat
    BY <1>0, <2>1 DEF LanesTyped
  <2>4. ~better => render[c].best \in Lanes
    BY <1>0 DEF HasLane
  <2> HIDE DEF l, better
  <2>a. r \in CallState /\ r.pc = "scan" /\ r.best \in Lanes
    <3>1. render[c] \in CallState /\ render[c].pc = "scan"
      BY <1>0, <2>2 DEF LanesTyped
    <3>2. PICK best \in Lanes, load \in Nat :
            /\ best \in Nat
            /\ r = [render[c] EXCEPT !.offset = @ + 1, !.best = best, !.load = load]
      <4>1. CASE better
        BY <2>1, <2>3, <4>1
      <4>2. CASE ~better
        <5>1. render[c].best \in Lanes /\ render[c].best \in Nat /\ render[c].load \in Nat
          BY <2>4, <3>1, <4>2 DEF CallState
        <5>2. r = [render[c] EXCEPT !.offset = @ + 1, !.best = render[c].best, !.load = render[c].load]
          BY <4>2
        <5>3. QED
          BY <5>1, <5>2
      <4>3. QED
        BY <4>1, <4>2
    <3> HIDE DEF r
    <3>3. PICK o \in Nat : o = render[c].offset + 1
      BY <3>1 DEF CallState
    <3>4. r = [render[c] EXCEPT !.offset = o, !.best = best, !.load = load]
      BY <3>2, <3>3
    <3>5. QED
      BY <3>1, <3>2, <3>4 DEF CallState
  <2> HIDE DEF r
  <2>c. /\ render' \in [RenderCalls -> CallState]
        /\ \A d \in RenderCalls : render'[d] = IF d = c THEN r ELSE render[d]
    BY <1>0, <2>2, <2>a, OneCallMoves
  <2>5. LanesTyped'
    BY <1>0, <2>2, <2>c DEF LanesTyped
  <2>6. HasLane'
    BY <1>0, <2>a, <2>c DEF HasLane
  <2>7. \A k \in Lanes : Assigned(k)' = Assigned(k) /\ Rendering(k)' = Rendering(k)
    BY <2>2, <2>a, <2>c DEF Assigned, Rendering
  <2>8. QED
    BY <1>0, <2>2, <2>5, <2>6, <2>7, CountsUntouched DEF LanesInv
<1>4. ASSUME NEW c \in RenderCalls, Reserve(c) PROVE LanesInv'
  <2>0. PICK b \in Lanes : b = render[c].best
    BY <1>0, <1>4 DEF Reserve, HasLane
  <2>1. /\ render[c].pc = "scan" /\ render[c].best = b /\ render[c] \in CallState
        /\ UNCHANGED <<cursor, admitted>> /\ CompareAndSwap(c)
    BY <1>0, <1>4, <2>0 DEF Reserve, At, LanesTyped
  <2>2. CASE inflight[b] = render[c].load
    <3> DEFINE r == [render[c] EXCEPT !.pc = "queued"]
    <3>1. r \in CallState /\ r.pc = "queued" /\ r.best = b
      BY <2>1 DEF CallState
    <3>2. render' = [render EXCEPT ![c] = r] /\ inflight' = [inflight EXCEPT ![b] = inflight[b] + 1]
      BY <2>1, <2>2 DEF CompareAndSwap, Goto
    <3> HIDE DEF r
    <3>3. /\ render' \in [RenderCalls -> CallState]
          /\ \A d \in RenderCalls : render'[d] = IF d = c THEN r ELSE render[d]
      BY <1>0, <3>1, <3>2, OneCallMoves
    <3>4. LanesTyped'
      <4>1. inflight' \in [Lanes -> Nat]
        BY <1>0, <2>1, <3>2 DEF LanesTyped
      <4>2. QED
        BY <1>0, <2>1, <3>3, <4>1 DEF LanesTyped
    <3>5. HasLane'
      BY <1>0, <2>1, <3>1, <3>3 DEF HasLane
    <3>6. \A k \in Lanes : Rendering(k)' = Rendering(k) /\ (k # b => Assigned(k)' = Assigned(k))
      BY <2>1, <3>1, <3>3 DEF Assigned, Rendering
    <3>7. Assigned(b)' = Assigned(b) \cup {c} /\ c \notin Assigned(b)
      BY <2>1, <3>1, <3>3 DEF Assigned
    <3>8. Cardinality(Assigned(b)') = Cardinality(Assigned(b)) + 1
      BY <3>7, CallSetsAreFinite, FS_AddElement
    <3>9. CountersExact'
      <4>1. inflight'[b] = Cardinality(Assigned(b)')
        BY <1>0, <2>1, <3>2, <3>8 DEF CountersExact, LanesTyped
      <4>2. \A k \in Lanes \ {b} : inflight'[k] = inflight[k]
        BY <1>0, <3>2 DEF LanesTyped
      <4>3. ASSUME NEW k \in Lanes
            PROVE  /\ inflight'[k] = Cardinality(Assigned(k)')
                   /\ admitted'[k] = Cardinality(Rendering(k)') /\ admitted'[k] <= PerLane
        <5>1. CASE k = b
          BY <1>0, <2>1, <3>6, <4>1, <5>1 DEF CountersExact
        <5>2. CASE k # b
          BY <1>0, <2>1, <3>6, <4>2, <5>2 DEF CountersExact
        <5>3. QED
          BY <5>1, <5>2
      <4>4. QED
        BY <4>3 DEF CountersExact
    <3>10. QED
      BY <3>4, <3>5, <3>9 DEF LanesInv
  <2>3. CASE inflight[b] # render[c].load
    <3> DEFINE r == [render[c] EXCEPT !.offset = 0, !.best = NoLane, !.load = 0]
    <3>1. r \in CallState /\ r.pc = "scan" /\ r.best = NoLane /\ r.offset = 0
      BY <1>0, <2>1 DEF CallState, NoLane
    <3>2. render' = [render EXCEPT ![c] = r] /\ inflight' = inflight
      BY <2>1, <2>3 DEF CompareAndSwap
    <3> HIDE DEF r
    <3>3. /\ render' \in [RenderCalls -> CallState]
          /\ \A d \in RenderCalls : render'[d] = IF d = c THEN r ELSE render[d]
      BY <1>0, <3>1, <3>2, OneCallMoves
    <3>4. LanesTyped' /\ HasLane'
      BY <1>0, <2>1, <3>1, <3>2, <3>3 DEF LanesTyped, HasLane
    <3>5. \A k \in Lanes : Assigned(k)' = Assigned(k) /\ Rendering(k)' = Rendering(k)
      BY <2>1, <3>1, <3>3 DEF Assigned, Rendering
    <3>6. QED
      BY <1>0, <2>1, <3>2, <3>4, <3>5, CountsUntouched DEF LanesInv
  <2>4. QED
    BY <2>2, <2>3
<1>5. ASSUME NEW c \in RenderCalls, NEW to \in {"rendering", "leaving", "done"},
             render[c].pc \in OnLane, Goto(c, to)
      PROVE  /\ render' \in [RenderCalls -> CallState] /\ HasLane' /\ render[c].best \in Lanes
             /\ \A d \in RenderCalls : /\ render'[d].pc = IF d = c THEN to ELSE render[d].pc
                                       /\ render'[d].best = render[d].best
  <2> DEFINE r == [render[c] EXCEPT !.pc = to]
  <2>1. r \in CallState /\ r.pc = to /\ r.best = render[c].best
    BY <1>0 DEF LanesTyped, CallState
  <2>2. render' = [render EXCEPT ![c] = r]
    BY <1>5 DEF Goto
  <2> HIDE DEF r
  <2>3. /\ render' \in [RenderCalls -> CallState]
        /\ \A d \in RenderCalls : render'[d] = IF d = c THEN r ELSE render[d]
    BY <1>0, <2>1, <2>2, OneCallMoves
  <2>4. render[c].best \in Lanes
    BY <1>0, <1>5 DEF HasLane
  <2>5. QED
    BY <1>0, <2>1, <2>3, <2>4 DEF HasLane
<1>6. ASSUME NEW c \in RenderCalls, Admit(c) PROVE LanesInv'
  <2> DEFINE b == render[c].best
  <2>1. /\ render' \in [RenderCalls -> CallState] /\ HasLane' /\ b \in Lanes
        /\ \A d \in RenderCalls : /\ render'[d].pc = IF d = c THEN "rendering" ELSE render[d].pc
                                  /\ render'[d].best = render[d].best
    BY <1>5, <1>6 DEF Admit, At
  <2>2. /\ render[c].pc = "queued" /\ admitted' = [admitted EXCEPT ![b] = admitted[b] + 1]
        /\ admitted[b] < PerLane /\ UNCHANGED <<cursor, inflight>>
    BY <1>6 DEF Admit, At
  <2>3. LanesTyped'
    BY <1>0, <2>1, <2>2 DEF LanesTyped
  <2>4. \A k \in Lanes : Assigned(k)' = Assigned(k) /\ (k # b => Rendering(k)' = Rendering(k))
    BY <2>1, <2>2 DEF Assigned, Rendering
  <2>5. Rendering(b)' = Rendering(b) \cup {c} /\ c \notin Rendering(b)
    BY <2>1, <2>2 DEF Rendering
  <2>6. Cardinality(Rendering(b)') = Cardinality(Rendering(b)) + 1
    BY <2>5, CallSetsAreFinite, FS_AddElement
  <2>7. CountersExact'
    BY <1>0, <2>1, <2>2, <2>4, <2>6, PerLaneIsNat DEF CountersExact, LanesTyped
  <2>8. QED
    BY <2>1, <2>3, <2>7 DEF LanesInv
<1>7. ASSUME NEW c \in RenderCalls, GiveUp(c) PROVE LanesInv'
  <2>1. /\ render' \in [RenderCalls -> CallState] /\ HasLane'
        /\ \A d \in RenderCalls : /\ render'[d].pc = IF d = c THEN "leaving" ELSE render[d].pc
                                  /\ render'[d].best = render[d].best
    BY <1>5, <1>7 DEF GiveUp, At
  <2>2. render[c].pc = "queued" /\ UNCHANGED <<cursor, inflight, admitted>>
    BY <1>7 DEF GiveUp, At
  <2>3. \A k \in Lanes : Assigned(k)' = Assigned(k) /\ Rendering(k)' = Rendering(k)
    BY <2>1, <2>2 DEF Assigned, Rendering
  <2>4. QED
    BY <1>0, <2>1, <2>2, <2>3, CountsUntouched DEF LanesInv, LanesTyped
<1>8. ASSUME NEW c \in RenderCalls, InnerReturns(c) PROVE LanesInv'
  <2> DEFINE b == render[c].best
  <2>1. /\ render' \in [RenderCalls -> CallState] /\ HasLane' /\ b \in Lanes
        /\ \A d \in RenderCalls : /\ render'[d].pc = IF d = c THEN "leaving" ELSE render[d].pc
                                  /\ render'[d].best = render[d].best
    BY <1>5, <1>8 DEF InnerReturns, At
  <2>2. /\ render[c].pc = "rendering" /\ admitted' = [admitted EXCEPT ![b] = admitted[b] - 1]
        /\ UNCHANGED <<cursor, inflight>>
    BY <1>8 DEF InnerReturns, At, ReturnToken
  <2>3. \A k \in Lanes : Assigned(k)' = Assigned(k) /\ (k # b => Rendering(k)' = Rendering(k))
    BY <2>1, <2>2 DEF Assigned, Rendering
  <2>4. Rendering(b)' = Rendering(b) \ {c} /\ c \in Rendering(b)
    BY <2>1, <2>2 DEF Rendering
  <2>5. /\ Cardinality(Rendering(b)') = Cardinality(Rendering(b)) - 1
        /\ Cardinality(Rendering(b)') \in Nat
    BY <2>4, CallSetsAreFinite, FS_RemoveElement, FS_CardinalityType
  <2>6. admitted'[b] = Cardinality(Rendering(b)') /\ admitted'[b] \in Nat /\ admitted'[b] <= PerLane
    BY <1>0, <2>1, <2>2, <2>5, PerLaneIsNat DEF CountersExact, LanesTyped
  <2>7. LanesTyped'
    BY <1>0, <2>1, <2>2, <2>6 DEF LanesTyped
  <2>8. CountersExact'
    BY <1>0, <2>1, <2>2, <2>3, <2>6 DEF CountersExact, LanesTyped
  <2>9. QED
    BY <2>1, <2>7, <2>8 DEF LanesInv
<1>9. ASSUME NEW c \in RenderCalls, LeaveLane(c) PROVE LanesInv'
  <2> DEFINE b == render[c].best
  <2>1. /\ render' \in [RenderCalls -> CallState] /\ HasLane' /\ b \in Lanes
        /\ \A d \in RenderCalls : /\ render'[d].pc = IF d = c THEN "done" ELSE render[d].pc
                                  /\ render'[d].best = render[d].best
    BY <1>5, <1>9 DEF LeaveLane, At
  <2>2. /\ render[c].pc = "leaving" /\ inflight' = [inflight EXCEPT ![b] = inflight[b] - 1]
        /\ UNCHANGED <<cursor, admitted>>
    BY <1>9 DEF LeaveLane, At
  <2>3. \A k \in Lanes : Rendering(k)' = Rendering(k) /\ (k # b => Assigned(k)' = Assigned(k))
    BY <2>1, <2>2 DEF Assigned, Rendering
  <2>4. Assigned(b)' = Assigned(b) \ {c} /\ c \in Assigned(b)
    BY <2>1, <2>2 DEF Assigned
  <2>5. /\ Cardinality(Assigned(b)') = Cardinality(Assigned(b)) - 1
        /\ Cardinality(Assigned(b)') \in Nat
    BY <2>4, CallSetsAreFinite, FS_RemoveElement, FS_CardinalityType
  <2>6. inflight'[b] = Cardinality(Assigned(b)') /\ inflight'[b] \in Nat
    BY <1>0, <2>1, <2>2, <2>5 DEF CountersExact, LanesTyped
  <2>7. LanesTyped'
    BY <1>0, <2>1, <2>2, <2>6 DEF LanesTyped
  <2>8. CountersExact'
    BY <1>0, <2>1, <2>2, <2>3, <2>6 DEF CountersExact, LanesTyped
  <2>9. QED
    BY <2>1, <2>7, <2>8 DEF LanesInv
<1>10. QED
  BY <1>1, <1>2, <1>3, <1>4, <1>6, <1>7, <1>8, <1>9 DEF LanesNext, CallStep

LEMMA LoadFromInv == LanesInv => LoadIsExact
<1> SUFFICES ASSUME LanesInv, NEW l \in Lanes
             PROVE  /\ inflight[l] = Cardinality(Assigned(l))
                    /\ Cardinality({c \in Assigned(l) : At(c, "rendering")}) <= PerLane
  BY DEF LoadIsExact
<1>1. {c \in Assigned(l) : At(c, "rendering")} = Rendering(l)
  BY DEF Assigned, Rendering, At
<1> QED
  BY <1>1 DEF LanesInv, CountersExact

\* The load the choice goes by is exact and no gate admits too many, for any
\* number of calls and of lanes (LoadIsExact).
THEOREM LoadCorrect == LanesSpec => []LoadIsExact
BY LoadFromInv, LanesInvInit, LanesInvStep, PTL DEF LanesSpec

-----------------------------------------------------------------------------
(* The daemon pool *)

PoolTyped ==
  /\ index \in Nat
  /\ proc \in [Daemons -> {"none", "alive", "exited", "reaped"}]
  /\ handle \in [Daemons -> {"none", "adopted", "owned"}]

(* A process that runs or was not awaited is an entry of the pool, except    *)
(* for the one the start is waiting for; the loop of Shutdown leaves none    *)
(* behind it.                                                                *)
Tracked ==
  \A d \in Daemons : proc[d] \in {"alive", "exited"} =>
    /\ handle[d] = "owned" \/ (pool = "starting" /\ d = index)
    /\ pool \notin {"failed", "stopped"}
    /\ pool = "stopping" => d >= index

(* An adopted daemon was not started here and only owned ones are asked to   *)
(* stop; the start has no entry yet for the sockets to come.                 *)
Adopted ==
  \A d \in Daemons :
    /\ handle[d] = "adopted" => proc[d] = "none"
    /\ d \in asked => handle[d] = "owned"
    /\ pool = "starting" /\ d >= index => handle[d] = "none"

PoolInv == PoolTyped /\ Tracked /\ Adopted

LEMMA PoolInvInit == PoolInit => PoolInv
BY DEF PoolInit, PoolInv, PoolTyped, Tracked, Adopted

LEMMA PoolInvStep == PoolInv /\ [PoolNext]_daemonVars => PoolInv'
<1> SUFFICES ASSUME PoolInv, [PoolNext]_daemonVars PROVE PoolInv'
  OBVIOUS
<1> USE DEF PoolInv, PoolTyped, Tracked, Adopted
<1>d. \A d \in Daemons : d \in Nat /\ d <= DaemonCount
  BY DEF Daemons
<1>1. CASE UNCHANGED daemonVars
  BY <1>1 DEF daemonVars
<1>2. CASE AdoptDaemon
  BY <1>2, <1>d DEF AdoptDaemon, Here, Enter
<1>3. CASE RefuseSocket \/ SpawnDaemon
  BY <1>3, <1>d DEF RefuseSocket, SpawnDaemon, Here
<1>4. CASE DaemonReady
  BY <1>4, <1>d DEF DaemonReady, Here, Enter
<1>5. CASE DaemonNotReady
  BY <1>5, <1>d DEF DaemonNotReady, Here
<1>6. CASE KillStarted
  BY <1>6, <1>d DEF KillStarted, KillsStarted
<1>7. CASE AskToStop
  BY <1>7, <1>d DEF AskToStop, OwnedHere
<1>8. CASE ReapDaemon
  <2>1. /\ proc' = [proc EXCEPT ![index] = "reaped"] /\ index' = index + 1 /\ index \in asked
        /\ pool = "stopping" /\ UNCHANGED <<handle, asked>>
        /\ pool' = "stopping" \/ (pool' = "stopped" /\ index = DaemonCount)
    BY <1>8 DEF ReapDaemon, Reaped
  <2>2. \A d \in Daemons : proc'[d] = IF d = index THEN "reaped" ELSE proc[d]
    BY <2>1
  <2>3. ASSUME NEW d \in Daemons, proc'[d] \in {"alive", "exited"}
        PROVE  handle'[d] = "owned" /\ d >= index' /\ pool' # "stopped"
    <3>1. d # index /\ proc[d] \in {"alive", "exited"}
      BY <2>2, <2>3
    <3>2. d >= index /\ handle[d] = "owned"
      BY <2>1, <3>1
    <3>3. QED
      BY <1>d, <2>1, <3>1, <3>2
  <2>4. Tracked'
    BY <2>1, <2>3
  <2>5. \A d \in Daemons : handle[d] = "adopted" => proc'[d] = "none"
    BY <2>1, <2>2
  <2>6. proc' \in [Daemons -> {"none", "alive", "exited", "reaped"}]
    <3>1. proc \in [Daemons -> {"none", "alive", "exited", "reaped"}]
      OBVIOUS
    <3>2. QED
      BY <2>1, <3>1, Zenon
  <2>7. QED
    BY <2>1, <2>4, <2>5, <2>6
<1>9. CASE BeginShutdown
  BY <1>9, <1>d DEF BeginShutdown, Daemons
<1>10. ASSUME NEW d \in Daemons, DaemonServes(d) \/ DaemonExits(d) \/ ForeignExits(d) PROVE PoolInv'
  BY <1>10 DEF DaemonServes, DaemonExits, ForeignExits
<1>11. QED
  BY <1>1, <1>2, <1>3, <1>4, <1>5, <1>6, <1>7, <1>8, <1>9, <1>10 DEF PoolNext, PoolStep

LEMMA PoolFromInv == PoolInv => NoDaemonLeftBehind
BY DEF PoolInv, PoolTyped, Tracked, NoDaemonLeftBehind

\* A start that failed and a shutdown that returned leave no process behind, for any
\* number of daemons (NoDaemonLeftBehind).
THEOREM PoolCorrect == PoolSpec => []NoDaemonLeftBehind
BY PoolFromInv, PoolInvInit, PoolInvStep, PTL DEF PoolSpec

(* A daemon that was adopted is never stopped (ForeignDaemonSpared): its     *)
(* entry stays what it is.                                                   *)
THEOREM ForeignCorrect == PoolSpec => ForeignDaemonSpared
<1>1. PoolInv /\ PoolInv' /\ [PoolNext]_daemonVars =>
        [\A d \in Daemons : handle[d] = "adopted" => proc'[d] = "none" /\ d \notin asked']_daemonVars
  <2> SUFFICES ASSUME PoolInv, PoolInv', [PoolNext]_daemonVars, NEW d \in Daemons, handle[d] = "adopted"
               PROVE  proc'[d] = "none" /\ d \notin asked'
    OBVIOUS
  <2>1. handle'[d] = "adopted"
    <3>1. CASE UNCHANGED handle
      BY <3>1
    <3>2. CASE AdoptDaemon \/ DaemonReady
      BY <3>2 DEF AdoptDaemon, DaemonReady, Here, Enter, PoolInv, PoolTyped, Adopted
    <3>3. QED
      BY <3>1, <3>2 DEF PoolNext, PoolStep, RefuseSocket, SpawnDaemon, DaemonNotReady, KillStarted, AskToStop,
                        ReapDaemon, BeginShutdown, DaemonServes, DaemonExits, ForeignExits, daemonVars
  <2>2. QED
    BY <2>1 DEF PoolInv, Adopted
<1>2. QED
  BY <1>1, PoolInvInit, PoolInvStep, PTL DEF PoolSpec, ForeignDaemonSpared

-----------------------------------------------------------------------------
(* RenderProcess *)

\* The ages are numbers, so the minima that touch and the clock take exist.
ProcTyped ==
  /\ child \in {"none", "running", "succeeded", "failed", "killed"}
  /\ written \in [Streams -> Nat] /\ forwarded \in [Streams -> Nat]
  /\ scanner \in [Streams -> [pc : {"idle", "read", "done", "broken"}, stamp : Nat]]
  /\ activity \in Nat /\ lastLine \in Nat
  /\ outcome \in {"none", "ok", "stalled", "stream failure", "failed", "refused"}

\* The clock shows the youngest line, although stamps come to it out of order.
ClockIsYoungest == activity = lastLine

\* A scanner that has seen the end of its stream forwarded all of it, and Render
\* returned only when both scanners were at their end.
EndsAreDrained ==
  /\ \A s \in Streams : scanner[s].pc = "done" => Exited /\ forwarded[s] = written[s]
  /\ outcome \notin {"none", "refused"} => Exited /\ StreamsDrained
  /\ outcome = "refused" => child = "none"

\* Every cancellation of the render has one of the three reasons, and the one that
\* is reported as a stall is the watchdog's.
CancelHasCause ==
  /\ cancelled => watch = "fired" \/ caller = "cancelled" \/ StreamFailed
  /\ outcome = "stalled" => watch = "fired"
  /\ child = "none" => watch = "off"

ProcInv == ProcTyped /\ ClockIsYoungest /\ EndsAreDrained /\ CancelHasCause

LEMMA MinOfTwo ==
  ASSUME NEW a \in Nat, NEW b \in Nat
  PROVE  Min({a, b}) = IF a <= b THEN a ELSE b
BY DEF Min

LEMMA CountUp ==
  ASSUME NEW f \in [Streams -> Nat], NEW s \in Streams
  PROVE  [f EXCEPT ![s] = @ + 1] \in [Streams -> Nat]
OBVIOUS

LEMMA OlderIsNat == \A a \in Nat : Older(a) \in Nat
BY ProcAssumption, MinOfTwo DEF Older

LEMMA ProcInvInit == ProcInit => ProcInv
BY DEF ProcInit, ProcInv, ProcTyped, ClockIsYoungest, EndsAreDrained, CancelHasCause,
       StreamsDrained, StreamFailed, Exited

\* A line that is forwarded sets both clocks to the same minimum.
LEMMA TouchedIsMin ==
  ASSUME activity \in Nat, lastLine \in Nat, NEW stamp \in Nat, ClockIsYoungest
  PROVE  Touched(stamp) \in Nat /\ Touched(stamp) = Min({lastLine, stamp})
BY MinOfTwo DEF Touched, ClockIsYoungest

LEMMA ProcTypedStep == ProcInv /\ [ProcNext]_procVars => ProcTyped' /\ ClockIsYoungest'
<1> SUFFICES ASSUME ProcInv, [ProcNext]_procVars
             PROVE  ProcTyped' /\ ClockIsYoungest'
  OBVIOUS
<1> USE DEF ProcInv, ProcTyped, ClockIsYoungest
<1>1. ASSUME NEW s \in Streams, ForwardLine(s)
      PROVE  ProcTyped' /\ ClockIsYoungest'
  <2>1. scanner[s].stamp \in Nat
    OBVIOUS
  <2>2. activity' \in Nat /\ activity' = lastLine'
    BY <1>1, <2>1, TouchedIsMin DEF ForwardLine
  <2>3. forwarded' \in [Streams -> Nat]
    BY <1>1, CountUp DEF ForwardLine
  <2>4. scanner' \in [Streams -> [pc : {"idle", "read", "done", "broken"}, stamp : Nat]]
    BY <1>1 DEF ForwardLine
  <2> QED
    BY <1>1, <2>2, <2>3, <2>4 DEF ForwardLine
<1>2. ASSUME PassTime
      PROVE  ProcTyped' /\ ClockIsYoungest'
  <2>1. activity' \in Nat /\ activity' = lastLine'
    BY <1>2, OlderIsNat DEF PassTime
  <2>2. ASSUME NEW s \in Streams
        PROVE  scanner'[s] \in [pc : {"idle", "read", "done", "broken"}, stamp : Nat]
    BY <1>2, <2>2, OlderIsNat DEF PassTime
  <2>3. scanner' \in [Streams -> [pc : {"idle", "read", "done", "broken"}, stamp : Nat]]
    <3>1. scanner' = [s \in Streams |-> scanner'[s]]
      BY <1>2 DEF PassTime
    <3> QED
      BY <3>1, <2>2
  <2> QED
    BY <1>2, <2>1, <2>3 DEF PassTime
<1>3. ASSUME NEW s \in Streams, ChildWrites(s) \/ ReadLine(s) \/ BreakStream(s) \/ EndStream(s)
      PROVE  ProcTyped' /\ ClockIsYoungest'
  <2>1. CASE ChildWrites(s)
    <3>1. written' \in [Streams -> Nat]
      BY <2>1, CountUp DEF ChildWrites
    <3> QED
      BY <2>1, <3>1 DEF ChildWrites
  <2>2. CASE ReadLine(s)
    BY <2>2 DEF ReadLine
  <2>3. CASE BreakStream(s)
    BY <2>3 DEF BreakStream
  <2>4. CASE EndStream(s)
    BY <2>4 DEF EndStream
  <2> QED
    BY <1>3, <2>1, <2>2, <2>3, <2>4
<1>4. CASE ReturnRender
  BY <1>4 DEF ReturnRender, ErrorClass
<1>5. CASE StartChild \/ ChildExits \/ KillChild \/ FireWatch \/ CancelCaller
  BY <1>5 DEF StartChild, ChildExits, KillChild, FireWatch, CancelCaller
<1>6. CASE UNCHANGED procVars
  BY <1>6 DEF procVars
<1> QED
  BY <1>1, <1>2, <1>3, <1>4, <1>5, <1>6 DEF ProcNext

LEMMA ProcInvStep == ProcInv /\ [ProcNext]_procVars => ProcInv'
<1> SUFFICES ASSUME ProcInv, [ProcNext]_procVars
             PROVE  EndsAreDrained' /\ CancelHasCause'
  BY ProcTypedStep DEF ProcInv
<1> USE DEF ProcInv, ProcTyped, EndsAreDrained, CancelHasCause, StreamsDrained, StreamFailed,
            Exited, Running
<1>1. ASSUME NEW s \in Streams,
             ChildWrites(s) \/ ReadLine(s) \/ ForwardLine(s) \/ BreakStream(s) \/ EndStream(s)
      PROVE  EndsAreDrained' /\ CancelHasCause'
  <2>1. CASE ChildWrites(s)
    BY <2>1 DEF ChildWrites
  <2>2. CASE ReadLine(s)
    BY <2>2 DEF ReadLine
  <2>3. CASE ForwardLine(s)
    BY <2>3 DEF ForwardLine
  <2>4. CASE BreakStream(s)
    BY <2>4 DEF BreakStream
  <2>5. CASE EndStream(s)
    BY <2>5 DEF EndStream
  <2> QED
    BY <1>1, <2>1, <2>2, <2>3, <2>4, <2>5
<1>2. CASE PassTime
  <2>1. \A s \in Streams : scanner'[s].pc = scanner[s].pc
    BY <1>2 DEF PassTime
  <2> QED
    BY <1>2, <2>1 DEF PassTime
<1>3. CASE ReturnRender
  BY <1>3 DEF ReturnRender, ErrorClass
<1>4. CASE StartChild \/ ChildExits \/ KillChild
  <2>1. scanner' = scanner /\ forwarded' = forwarded /\ written' = written
    BY <1>4 DEF StartChild, ChildExits, KillChild
  <2>2. CASE StartChild
    BY <2>1, <2>2 DEF StartChild
  <2>3. CASE ChildExits
    BY <2>1, <2>3 DEF ChildExits
  <2>4. CASE KillChild
    BY <2>1, <2>4 DEF KillChild
  <2> QED
    BY <1>4, <2>2, <2>3, <2>4
<1>5. CASE FireWatch \/ CancelCaller
  BY <1>5 DEF FireWatch, CancelCaller
<1>6. CASE UNCHANGED procVars
  BY <1>6 DEF procVars
<1> QED
  BY <1>1, <1>2, <1>3, <1>4, <1>5, <1>6 DEF ProcNext

LEMMA MilestonesFromInv == ProcInv => NoMilestoneLost
BY DEF ProcInv, EndsAreDrained, NoMilestoneLost, StreamsDrained

\* When Client.Render returns, both output scanners have ended, and every line of a
\* stream that did not break was handed to the progress callback.
THEOREM MilestonesCorrect == ProcSpec => []NoMilestoneLost
BY MilestonesFromInv, ProcInvInit, ProcInvStep, PTL DEF ProcSpec

\* What StallIsReal says of one step.
LEMMA StallStep ==
  ProcInv /\ [ProcNext]_procVars =>
    /\ watch' = "fired" /\ watch # "fired" => lastLine > StallTimeout
    /\ outcome' = "stalled" => watch' = "fired"
<1> SUFFICES ASSUME ProcInv, [ProcNext]_procVars
             PROVE  /\ watch' = "fired" /\ watch # "fired" => lastLine > StallTimeout
                    /\ outcome' = "stalled" => watch' = "fired"
  OBVIOUS
<1>1. outcome' = "stalled" => watch' = "fired"
  BY ProcInvStep DEF ProcInv, CancelHasCause
<1>2. ASSUME watch' = "fired", watch # "fired"
      PROVE  lastLine > StallTimeout
  <2>1. ProcNext
    BY <1>2 DEF procVars
  <2>2. FireWatch
    BY <1>2, <2>1 DEF ProcNext, StartChild, ChildExits, KillChild, PassTime, CancelCaller,
          ReturnRender, ChildWrites, ReadLine, ForwardLine, BreakStream, EndStream
  <2> QED
    BY <2>2 DEF FireWatch, StalledAt, ProcInv, ClockIsYoungest
<1> QED
  BY <1>1, <1>2

\* The watchdog of stall_watch.go fires only after a silence longer than the timeout,
\* and a render is reported as stalled only if it fired.
THEOREM StallCorrect == ProcSpec => StallIsReal
<1>1. ProcInv /\ [ProcNext]_procVars =>
        [watch' = "fired" /\ watch # "fired" => lastLine > StallTimeout]_procVars
  BY StallStep
<1>2. ProcInv /\ [ProcNext]_procVars => [outcome' = "stalled" => watch' = "fired"]_procVars
  BY StallStep
<1> QED
  BY <1>1, <1>2, ProcInvInit, ProcInvStep, PTL DEF ProcSpec, StallIsReal

-----------------------------------------------------------------------------
(* DaemonCalls *)

IpcTyped ==
  /\ ipc \in [IpcCalls -> {"new", "dialed", "sent", "ok", "error"}]
  /\ reply \in [IpcCalls -> Replies \cup {"none"}]

\* A structured success was sent for work that was done, and a render that counts as
\* done had the reply its policy asks for.
RepliesAreEarned ==
  \A c \in IpcCalls :
    /\ reply[c] = "ok json" => c \in rendered
    /\ ipc[c] = "ok" => Verdict(c)

IpcInv == IpcTyped /\ RepliesAreEarned

LEMMA IpcInvInit == IpcInit => IpcInv
BY DEF IpcInit, IpcInv, IpcTyped, RepliesAreEarned

\* The verdict of a call depends on its own reply.
LEMMA VerdictKept ==
  ASSUME NEW c \in IpcCalls, reply'[c] = reply[c]
  PROVE  Verdict(c)' = Verdict(c)
BY DEF Verdict, RequiresStructuredReply

LEMMA IpcInvStep == IpcInv /\ [IpcNext]_ipcVars => IpcInv'
<1> SUFFICES ASSUME IpcInv, [IpcNext]_ipcVars
             PROVE  IpcInv'
  OBVIOUS
<1> USE DEF IpcInv, IpcTyped, RepliesAreEarned
<1>1. ASSUME NEW c \in IpcCalls, IpcStep(c) \/ CancelCall(c) \/ TimeIsOver(c) \/ DaemonWorks(c)
      PROVE  IpcInv'
  <2>1. reply' = reply /\ rendered \subseteq rendered'
    BY <1>1 DEF IpcStep, Dial, WriteRequest, DeadlineHits, ConnectionBreaks, ReadReply,
                CancelCall, TimeIsOver, DaemonWorks
  <2>2. \A d \in IpcCalls : Verdict(d)' = Verdict(d)
    BY <2>1, VerdictKept
  <2>3. ipc' \in [IpcCalls -> {"new", "dialed", "sent", "ok", "error"}]
    BY <1>1 DEF IpcStep, Dial, WriteRequest, DeadlineHits, ConnectionBreaks, ReadReply, Return,
                CancelCall, TimeIsOver, DaemonWorks
  <2>4. \A d \in IpcCalls : ipc'[d] = "ok" => ipc[d] = "ok" \/ Verdict(d)
    BY <1>1 DEF IpcStep, Dial, WriteRequest, DeadlineHits, ConnectionBreaks, ReadReply, Return,
                CancelCall, TimeIsOver, DaemonWorks
  <2> QED
    BY <2>1, <2>2, <2>3, <2>4
<1>2. ASSUME NEW c \in IpcCalls, DaemonReplies(c)
      PROVE  IpcInv'
  <2>1. \A d \in IpcCalls \ {c} : reply'[d] = reply[d] /\ Verdict(d)' = Verdict(d)
    BY <1>2, VerdictKept DEF DaemonReplies
  <2>2. ipc[c] = "sent" /\ ipc' = ipc /\ rendered' = rendered
    BY <1>2 DEF DaemonReplies
  <2>3. reply' \in [IpcCalls -> Replies \cup {"none"}]
    BY <1>2 DEF DaemonReplies
  <2>4. reply'[c] = "ok json" => c \in rendered
    BY <1>2 DEF DaemonReplies
  <2> QED
    BY <2>1, <2>2, <2>3, <2>4
<1>3. ASSUME DaemonStops \/ UNCHANGED ipcVars
      PROVE  IpcInv'
  <2>1. ipc' = ipc /\ reply' = reply /\ rendered' = rendered
    BY <1>3 DEF DaemonStops, ipcVars
  <2>2. \A d \in IpcCalls : Verdict(d)' = Verdict(d)
    BY <2>1, VerdictKept
  <2> QED
    BY <2>1, <2>2
<1> QED
  BY <1>1, <1>2, <1>3 DEF IpcNext

LEMMA CreditFromInv == IpcInv => CreditedRenderHappened
BY DEF IpcInv, IpcTyped, RepliesAreEarned, CreditedRenderHappened, Verdict, RequiresStructuredReply

\* A certified render that Render of ipc.go counts as done was done by the daemon.
THEOREM CreditCorrect == IpcSpec => []CreditedRenderHappened
BY CreditFromInv, IpcInvInit, IpcInvStep, PTL DEF IpcSpec

-----------------------------------------------------------------------------
(* The output gates *)

FactsType ==
  [source : BOOLEAN, overlay : BOOLEAN, software : Nat, certified : BOOLEAN,
   receipt : {"unread", "absent", "pass", "fail"}, decodes : BOOLEAN,
   address : {"none", "right", "wrong"}, sent : BOOLEAN, direct : BOOLEAN]

GatesTyped ==
  /\ counters \in [nvenc : Nat, software : Nat]
  /\ facts \in FactsType

(* The software frames of the job at hand are among those the session has    *)
(* counted, since a daemon is not restarted between the render and the gate. *)
CountersCover ==
  /\ gate = "idle" => facts = NoFacts
  /\ facts.software <= counters.software

(* Past the decode gate the promise of the policy is kept; outside fast an   *)
(* address is missing or right at any time.                                  *)
ProofsSoFar ==
  /\ CertifiedIsNative
  /\ gate \in {"decode", "identity", "stored", "accepted"} /\ level \in {"normal", "certify"} => facts.decodes
  /\ level # "fast" => facts.address # "wrong"
  /\ facts.sent => facts.address # "none"
  /\ PictureMatchesPlan

GatesInv == GatesTyped /\ CountersCover /\ ProofsSoFar

LEMMA GatesInvInit == GatesInit => GatesInv
BY DEF GatesInit, GatesInv, GatesTyped, FactsType, CountersCover, ProofsSoFar, CertifiedIsNative,
       PictureMatchesPlan, NoFacts

LEMMA GatesInvStep == GatesInv /\ [GatesNext]_gateVars => GatesInv'
<1> SUFFICES ASSUME GatesInv, [GatesNext]_gateVars PROVE GatesInv'
  OBVIOUS
<1> USE DEF GatesInv, GatesTyped, FactsType, CountersCover, ProofsSoFar, CertifiedIsNative,
            PictureMatchesPlan
<1>1. CASE UNCHANGED gateVars
  BY <1>1 DEF gateVars
<1>2. CASE EngineRenders
  <2>1. PICK source \in BOOLEAN, overlay \in BOOLEAN, software \in 0..Frames, native \in 0..Frames :
          /\ counters' = [nvenc |-> counters.nvenc + native, software |-> counters.software + software]
          /\ facts' = [NoFacts EXCEPT !.source = source, !.overlay = overlay, !.software = software]
    BY <1>2 DEF EngineRenders
  <2>2. counters' \in [nvenc : Nat, software : Nat] /\ software <= counters'.software
    BY <2>1
  <2>a. software \in Nat
    OBVIOUS
  <2>b. facts' = [source |-> source, overlay |-> overlay, software |-> software, certified |-> FALSE,
                  receipt |-> "unread", decodes |-> TRUE, address |-> "none", sent |-> FALSE,
                  direct |-> FALSE]
    BY <2>1 DEF NoFacts
  <2>3. /\ facts' \in FactsType /\ facts'.software = software
        /\ ~facts'.certified /\ ~facts'.sent /\ facts'.address = "none" /\ facts'.decodes
    BY <2>a, <2>b
  <2>4. gate' = "rendered"
    BY <1>2 DEF EngineRenders
  <2>5. QED
    BY <2>2, <2>3, <2>4
<1>3. CASE DaemonRestarts
  BY <1>3 DEF DaemonRestarts, NoFacts
<1>4. CASE NativeGate
  <2>1. /\ UNCHANGED <<level, counters>> /\ gate' \in {"native", "rejected"}
        /\ facts' = facts \/ (facts' = [facts EXCEPT !.certified = TRUE] /\ counters.software = 0)
    BY <1>4 DEF NativeGate, NativeCounters, Passes, Rejects
  <2>2. CASE facts' = facts
    BY <2>1, <2>2
  <2>3. CASE facts' = [facts EXCEPT !.certified = TRUE] /\ counters.software = 0
    <3>1. facts.software = 0
      BY <2>3
    <3>2. QED
      BY <2>1, <2>3, <3>1
  <2>4. QED
    BY <2>1, <2>2, <2>3
<1>5. CASE ReceiptGate
  BY <1>5 DEF ReceiptGate, Passes, Rejects
<1>6. CASE DecodeGate
  BY <1>6 DEF DecodeGate, PromisesDecode, ReceiptProvesDecode, Passes, Rejects
<1>7. CASE IdentityGate
  BY <1>7 DEF IdentityGate, Proven, Passes, Rejects
<1>8. CASE StoreBytes
  BY <1>8 DEF StoreBytes, Passes, Rejects
<1>9. CASE CompositionGate
  <2>1. PICK summary \in {"absent", "unreadable", "ok"}, direct \in BOOLEAN,
             composited \in {"yes", "no", "unreported"} :
          /\ facts' = [facts EXCEPT !.direct = summary = "ok" /\ direct]
          /\ IF summary = "ok" /\ Diverges(direct, composited) THEN Rejects ELSE Passes("accepted")
    BY <1>9 DEF CompositionGate
  <2>2. PICK d \in BOOLEAN : d = (summary = "ok" /\ direct)
    OBVIOUS
  <2>3. facts' = [facts EXCEPT !.direct = d] /\ UNCHANGED <<level, strict, counters, jobsDone>>
    BY <2>1, <2>2 DEF Passes, Rejects
  <2>4. gate = "stored" /\ (gate' = "rejected" \/ (gate' = "accepted" /\ (facts.overlay => ~d)))
    BY <1>9, <2>1, <2>2 DEF CompositionGate, Passes, Rejects, Diverges
  <2>5. QED
    BY <2>3, <2>4
<1>10. CASE NextJob
  BY <1>10 DEF NextJob, NoFacts
<1>11. QED
  BY <1>1, <1>2, <1>3, <1>4, <1>5, <1>6, <1>7, <1>8, <1>9, <1>10 DEF GatesNext

(* What is published was proven in each of the four ways, for any number of  *)
(* jobs and frames of one daemon session (PublishedIsProven).                *)
THEOREM PublishedCorrect == GatesSpec => []PublishedIsProven
<1>1. GatesInv => PublishedIsProven
  BY DEF GatesInv, GatesTyped, FactsType, ProofsSoFar, PublishedIsProven, DecodePromiseKept,
         NothingSentUnderAWrongAddress
<1>2. QED
  BY <1>1, GatesInvInit, GatesInvStep, PTL DEF GatesSpec

-----------------------------------------------------------------------------
(* The segmented batch *)

\* A set of numbers that is not empty has a least one.
LEMMA LeastExists ==
  ASSUME NEW S \in SUBSET Nat, S # {}
  PROVE  \E x \in S : \A y \in S : x <= y
<1>1. PICK x \in S : \A y \in S : ~(<<y, x>> \in OpToRel(<, Nat))
  BY NatLessThanWellFounded, WFMin
<1>2. \A y \in S : ~(y < x)
  BY <1>1 DEF OpToRel
<1> QED
  BY <1>2

LEMMA WindowsTyped ==
  ASSUME windows \in Seq(Window)
  PROVE  /\ Segments = 1..Len(windows) /\ Len(windows) \in Nat
         /\ \A k \in Segments : windows[k][1] \in 0..CanvasFrames /\ windows[k][2] \in 0..CanvasFrames
BY LenProperties, SegmentAssumption DEF Segments, Window

(* The windows of a tiled plan follow each other. *)
LEMMA WindowsAscend ==
  ASSUME windows \in Seq(Window), Tileable(windows), NEW i \in Segments, NEW j \in Segments, i < j
  PROVE  windows[i][2] <= windows[j][1]
<1> DEFINE later == {k \in Segments : i < k /\ ~(windows[i][2] <= windows[k][1])}
<1>0. /\ Segments = 1..Len(windows) /\ Len(windows) \in Nat
      /\ \A k \in Segments : windows[k][1] \in Int /\ windows[k][2] \in Int
  BY WindowsTyped, SegmentAssumption
<1>1. ASSUME later # {} PROVE FALSE
  <2>1. later \in SUBSET Nat
    BY <1>0
  <2>2. PICK k \in later : \A l \in later : k <= l
    <3> HIDE DEF later
    <3>1. QED
      BY <1>1, <2>1, LeastExists
  <2>3. k \in Segments /\ k - 1 \in Segments /\ k # 1 /\ windows[k][1] = windows[k - 1][2]
    BY <1>0, <2>2 DEF Tileable, Segments
  <2>4. windows[k - 1][1] < windows[k - 1][2]
    BY <1>0, <2>3 DEF Tileable, Segments
  <2>5. CASE k - 1 = i
    BY <1>0, <2>2, <2>3, <2>5
  <2>6. CASE k - 1 # i
    <3>1. k - 1 \notin later
      BY <1>0, <2>2, <2>3
    <3>2. windows[i][2] <= windows[k - 1][1]
      BY <1>0, <2>2, <2>3, <2>6, <3>1
    <3>3. QED
      BY <1>0, <2>2, <2>3, <2>4, <3>2
  <2>7. QED
    BY <2>5, <2>6
<1>2. QED
  BY <1>1

(* And they leave no frame out. *)
LEMMA WindowsCover ==
  ASSUME windows \in Seq(Window), Tileable(windows), NEW f \in 0..(CanvasFrames - 1)
  PROVE  \E s \in Segments : f \in FramesOf(windows[s])
<1> DEFINE reach == {k \in Segments : f < windows[k][2]}
<1>0. /\ Segments = 1..Len(windows) /\ Len(windows) \in Nat
      /\ \A k \in Segments : windows[k][1] \in Int /\ windows[k][2] \in Int
  BY WindowsTyped, SegmentAssumption
<1>1. Len(windows) \in reach
  BY <1>0, SegmentAssumption DEF Tileable
<1>2. reach \in SUBSET Nat
  BY <1>0
<1>3. PICK k \in reach : \A l \in reach : k <= l
  <2> HIDE DEF reach
  <2>1. QED
    BY <1>1, <1>2, LeastExists
<1>4. windows[k][1] <= f
  <2>1. CASE k = 1
    BY <1>0, <1>3, <2>1 DEF Tileable, Segments
  <2>2. CASE k # 1
    <3>1. k - 1 \in Segments /\ windows[k][1] = windows[k - 1][2]
      BY <1>0, <1>3, <2>2 DEF Tileable, Segments
    <3>2. k - 1 \notin reach
      BY <1>0, <1>3
    <3>3. QED
      BY <1>0, <3>1, <3>2
  <2>3. QED
    BY <2>1, <2>2
<1>5. QED
  BY <1>0, <1>3, <1>4 DEF FramesOf

(* So every frame is in exactly one window, and the windows are the clip. *)
LEMMA TilesOnce ==
  ASSUME windows \in Seq(Window), Tileable(windows)
  PROVE  /\ \A f \in 0..(CanvasFrames - 1) : Cardinality({s \in Segments : f \in FramesOf(windows[s])}) = 1
         /\ UNION {FramesOf(windows[s]) : s \in Segments} = 0..(CanvasFrames - 1)
<1>0. /\ Segments \subseteq Nat
      /\ \A k \in Segments : windows[k][1] \in 0..CanvasFrames /\ windows[k][2] \in 0..CanvasFrames
  BY WindowsTyped
<1>1. ASSUME NEW f \in 0..(CanvasFrames - 1)
      PROVE  Cardinality({s \in Segments : f \in FramesOf(windows[s])}) = 1
  <2>1. PICK s \in Segments : f \in FramesOf(windows[s])
    BY WindowsCover
  <2>2. ASSUME NEW t \in Segments, f \in FramesOf(windows[t]) PROVE t = s
    <3>1. CASE t < s
      BY <1>0, <2>1, <2>2, <3>1, WindowsAscend, SegmentAssumption DEF FramesOf
    <3>2. CASE s < t
      BY <1>0, <2>1, <2>2, <3>2, WindowsAscend, SegmentAssumption DEF FramesOf
    <3>3. QED
      BY <1>0, <3>1, <3>2
  <2>3. {t \in Segments : f \in FramesOf(windows[t])} = {s}
    BY <2>1, <2>2
  <2>4. QED
    BY <2>3, FS_Singleton
<1>2. ASSUME NEW s \in Segments, NEW f \in FramesOf(windows[s]) PROVE f \in 0..(CanvasFrames - 1)
  BY <1>0, SegmentAssumption DEF FramesOf
<1>3. QED
  BY <1>1, <1>2, WindowsCover

(* A file with every frame of its window has as many frames as the window,   *)
(* and one with as many of them has them all.                                *)
LEMMA FramesCounted ==
  ASSUME windows \in Seq(Window), Tileable(windows), NEW s \in Segments, NEW F \in SUBSET FramesOf(windows[s])
  PROVE  Cardinality(F) = windows[s][2] - windows[s][1] <=> F = FramesOf(windows[s])
<1>1. /\ windows[s][1] \in Int /\ windows[s][2] \in Int /\ windows[s][2] > windows[s][1]
  BY WindowsTyped, SegmentAssumption DEF Segments, Tileable
<1>2. /\ IsFiniteSet(FramesOf(windows[s]))
      /\ Cardinality(FramesOf(windows[s])) = windows[s][2] - windows[s][1]
  <2>1. ASSUME NEW a \in Int, NEW b \in Int, b > a
        PROVE  IsFiniteSet(a..(b - 1)) /\ Cardinality(a..(b - 1)) = b - a
    <3>1. b - 1 \in Int /\ ~(a > b - 1) /\ (b - 1) - a + 1 = b - a
      BY <2>1
    <3>2. QED
      BY <3>1, FS_Interval
  <2>2. QED
    BY <1>1, <2>1 DEF FramesOf
<1>3. QED
  BY <1>2, FS_Subset

-----------------------------------------------------------------------------
SegmentStates == {"waiting", "verify", "blocked", "rendering", "reverify", "store", "done"}
Verdicts == {"none", "stored", "failed", "fatal"}

(* The file of a segment is what its window calls for. *)
Whole(s) == segFile[s].sound /\ segFile[s].frames = FramesOf(windows[s])

(* While files are verified and after: the plan is tiled and a file holds    *)
(* frames of its window only.                                                *)
FilesTyped ==
  /\ Tileable(windows)
  /\ segFile \in [Segments -> [frames : SUBSET Int, sound : BOOLEAN]]
  /\ segment \in [Segments -> SegmentStates]
  /\ verdict \in [Segments -> Verdicts]
  /\ \A s \in Segments : segFile[s].frames \subseteq FramesOf(windows[s])

(* What the state of a segment says of its file: one that waits for its      *)
(* retry is not whole, one that is stored was counted, and on a live context *)
(* one that failed for good is not whole.                                    *)
VerdictsMean ==
  \A s \in Segments :
    /\ segment[s] = "rendering" => retryMu = s
    /\ segment[s] \in {"blocked", "rendering"} => ~Whole(s)
    /\ segment[s] = "store" \/ verdict[s] = "stored" =>
         Cardinality(segFile[s].frames) = windows[s][2] - windows[s][1]
    /\ segment[s] = "done" <=> verdict[s] # "none"
    /\ verdict[s] = "failed" /\ batchCtx = "alive" => ~Whole(s)

(* A batch that has returned lists what its verdicts say, or was refused     *)
(* before a file was looked at.                                              *)
ReturnedMeans ==
  batch = "returned" =>
    \/ receipt.error = "identity"
    \/ receipt = AssembleEntries /\ \A s \in Segments : segment[s] = "done"

SegInv ==
  /\ windows \in Seq(Window)
  /\ batchCtx \in {"alive", "cancelled"}
  /\ batch \in {"planned", "single", "verifying", "returned"}
  /\ batch \in {"verifying", "returned"} => FilesTyped /\ VerdictsMean
  /\ ReturnedMeans

LEMMA SegInvInit == SegInit => SegInv
<1> SUFFICES ASSUME SegInit PROVE SegInv
  OBVIOUS
<1>1. PICK n \in 0..MaxItems : windows \in [1..n -> Window]
  BY DEF SegInit
<1>2. n \in Nat
  BY <1>1, SegmentAssumption
<1>3. windows \in Seq(Window)
  BY <1>1, <1>2, SeqDef
<1>4. QED
  BY <1>3 DEF SegInit, SegInv, ReturnedMeans

LEMMA SessionKeeps == SegInv /\ RenderSession => SegInv'
<1> SUFFICES ASSUME SegInv, RenderSession PROVE SegInv'
  OBVIOUS
<1>0. windows \in Seq(Window) /\ UNCHANGED <<windows, batchCtx>>
  BY DEF SegInv, RenderSession
<1>1. CASE Tileable(windows)
  <2>1. PICK short \in SUBSET Segments, unsound \in SUBSET Segments :
          segFile' = [s \in Segments |->
                        [frames |-> IF s \in short THEN FramesOf(windows[s]) \ {windows[s][2] - 1}
                                                   ELSE FramesOf(windows[s]),
                         sound |-> s \notin unsound]]
    BY <1>1 DEF RenderSession
  <2>2. /\ batch' = "verifying" /\ segment' = [s \in Segments |-> "waiting"]
        /\ verdict' = [s \in Segments |-> "none"]
    BY <1>1 DEF RenderSession
  <2>3. \A s \in Segments : FramesOf(windows[s]) \in SUBSET Int
    BY DEF FramesOf
  <2>4. /\ segFile' \in [Segments -> [frames : SUBSET Int, sound : BOOLEAN]]
        /\ \A s \in Segments : segFile'[s].frames \subseteq FramesOf(windows[s])
    BY <2>1, <2>3
  <2>5. FilesTyped'
    BY <1>0, <1>1, <2>2, <2>4 DEF FilesTyped, Segments, SegmentStates, Verdicts, Tileable, FramesOf
  <2>6. VerdictsMean'
    BY <1>0, <2>2 DEF VerdictsMean, Segments
  <2>7. QED
    BY <1>0, <2>2, <2>5, <2>6 DEF SegInv, ReturnedMeans
<1>2. CASE ~Tileable(windows)
  BY <1>0, <1>2 DEF RenderSession, SegInv, ReturnedMeans
<1>3. QED
  BY <1>1, <1>2

(* The files and verdicts of the other segments are what they were. *)
LEMMA OneSegmentMoves ==
  ASSUME SegInv, batch = "verifying", UNCHANGED <<windows, batch, batchCtx, receipt>>,
         NEW s \in Segments, NEW file \in [frames : SUBSET FramesOf(windows[s]), sound : BOOLEAN],
         NEW to \in SegmentStates, NEW how \in Verdicts,
         segFile' = [segFile EXCEPT ![s] = file],
         segment' = [segment EXCEPT ![s] = to],
         verdict' = [verdict EXCEPT ![s] = how],
         \A r \in Segments \ {s} : segment[r] = "rendering" => retryMu' = r,
         to = "rendering" => retryMu' = s,
         to \in {"blocked", "rendering"} => ~(file.sound /\ file.frames = FramesOf(windows[s])),
         to = "store" \/ how = "stored" => Cardinality(file.frames) = windows[s][2] - windows[s][1],
         to = "done" <=> how # "none",
         how = "failed" /\ batchCtx' = "alive" => ~(file.sound /\ file.frames = FramesOf(windows[s]))
  PROVE  SegInv'
<1>1. FilesTyped /\ VerdictsMean /\ windows \in Seq(Window) /\ windows' = windows /\ Segments' = Segments
  BY DEF SegInv, Segments
<1>2. \A r \in Segments : /\ segFile'[r] = IF r = s THEN file ELSE segFile[r]
                          /\ segment'[r] = IF r = s THEN to ELSE segment[r]
                          /\ verdict'[r] = IF r = s THEN how ELSE verdict[r]
  BY <1>1 DEF FilesTyped
<1>3. FramesOf(windows[s]) \subseteq Int
  BY DEF FramesOf
<1>4. FilesTyped'
  <2>1. file \in [frames : SUBSET Int, sound : BOOLEAN]
    BY <1>3
  <2>2. /\ segFile' \in [Segments -> [frames : SUBSET Int, sound : BOOLEAN]]
        /\ segment' \in [Segments -> SegmentStates] /\ verdict' \in [Segments -> Verdicts]
    BY <1>1, <2>1 DEF FilesTyped
  <2>3. \A r \in Segments : segFile'[r].frames \subseteq FramesOf(windows[r])
    BY <1>1, <1>2 DEF FilesTyped
  <2>4. Tileable(windows)'
    BY <1>1 DEF FilesTyped, Tileable
  <2>5. QED
    BY <1>1, <2>2, <2>3, <2>4 DEF FilesTyped, FramesOf
<1>5. VerdictsMean'
  <2> SUFFICES ASSUME NEW r \in Segments
               PROVE  /\ segment'[r] = "rendering" => retryMu' = r
                      /\ segment'[r] \in {"blocked", "rendering"} =>
                           ~(segFile'[r].sound /\ segFile'[r].frames = FramesOf(windows[r]))
                      /\ segment'[r] = "store" \/ verdict'[r] = "stored" =>
                           Cardinality(segFile'[r].frames) = windows[r][2] - windows[r][1]
                      /\ segment'[r] = "done" <=> verdict'[r] # "none"
                      /\ verdict'[r] = "failed" /\ batchCtx' = "alive" =>
                           ~(segFile'[r].sound /\ segFile'[r].frames = FramesOf(windows[r]))
    BY <1>1 DEF VerdictsMean, Whole, FramesOf
  <2>1. CASE r = s
    BY <1>2, <2>1
  <2>2. CASE r # s
    BY <1>1, <1>2, <2>2 DEF VerdictsMean, Whole
  <2>3. QED
    BY <2>1, <2>2
<1>6. QED
  BY <1>1, <1>4, <1>5 DEF SegInv, ReturnedMeans

(* A file that does not verify on a live context is not whole. *)
LEMMA FailedIsNotWhole ==
  ASSUME SegInv, batch = "verifying", NEW s \in Segments, ~VerifySegmentOutput(s), batchCtx = "alive"
  PROVE  ~Whole(s)
<1>1. /\ windows \in Seq(Window) /\ Tileable(windows) /\ segFile[s].frames \in SUBSET FramesOf(windows[s])
  BY DEF SegInv, FilesTyped
<1>2. QED
  BY <1>1, FramesCounted DEF VerifySegmentOutput, Whole

LEMMA SegStepKeeps ==
  ASSUME SegInv, batch = "verifying", NEW s \in Segments, SegStep(s)
  PROVE  SegInv'
<1> DEFINE file == segFile[s]
<1>0. /\ FilesTyped /\ VerdictsMean
      /\ file \in [frames : SUBSET FramesOf(windows[s]), sound : BOOLEAN]
      /\ segFile = [segFile EXCEPT ![s] = file]
      /\ segment[s] \in SegmentStates /\ verdict[s] \in Verdicts
      /\ verdict = [verdict EXCEPT ![s] = verdict[s]]
      /\ segment[s] # "done" => verdict[s] = "none"
  BY DEF SegInv, FilesTyped, VerdictsMean
<1>a. \A r \in Segments : segment[r] = "rendering" => retryMu = r
  BY <1>0 DEF VerdictsMean
<1> USE DEF SegmentStates, Verdicts
<1>1. CASE TakeIndex(s)
  <2>1. /\ segment[s] = "waiting" /\ segment' = [segment EXCEPT ![s] = "verify"]
        /\ UNCHANGED <<windows, batch, segFile, verdict, retryMu, batchCtx, receipt>>
    BY <1>1 DEF TakeIndex, Step
  <2>2. QED
    BY <1>0, <1>a, <2>1, OneSegmentMoves
<1>2. CASE VerifyPasses(s)
  <2>1. /\ segment[s] \in {"verify", "reverify"} /\ segment' = [segment EXCEPT ![s] = "store"]
        /\ Cardinality(file.frames) = windows[s][2] - windows[s][1]
        /\ UNCHANGED <<windows, batch, segFile, verdict, retryMu, batchCtx, receipt>>
    BY <1>2 DEF VerifyPasses, Step, VerifySegmentOutput
  <2>2. QED
    BY <1>0, <1>a, <2>1, OneSegmentMoves
<1>3. CASE VerifyFails(s)
  <2>1. segment[s] = "verify" /\ UNCHANGED <<windows, batch, segFile, retryMu, batchCtx, receipt>>
    BY <1>3 DEF VerifyFails, Step
  <2>2. CASE batchCtx = "cancelled"
    <3>1. segment' = [segment EXCEPT ![s] = "done"] /\ verdict' = [verdict EXCEPT ![s] = "fatal"]
      BY <1>3, <2>2 DEF VerifyFails, Step, Ends
    <3>2. QED
      BY <1>0, <1>a, <2>1, <3>1, OneSegmentMoves
  <2>3. CASE batchCtx # "cancelled"
    <3>1. segment' = [segment EXCEPT ![s] = "blocked"] /\ verdict' = verdict /\ ~VerifySegmentOutput(s)
      BY <1>3, <2>3 DEF VerifyFails, Step
    <3>2. ~(file.sound /\ file.frames = FramesOf(windows[s]))
      BY <1>0, <2>3, <3>1, FailedIsNotWhole DEF SegInv, Whole
    <3>3. QED
      BY <1>0, <1>a, <2>1, <3>1, <3>2, OneSegmentMoves
  <2>4. QED
    BY <2>2, <2>3
<1>4. CASE VerifyFailsAgain(s)
  <2>1. /\ segment[s] = "reverify" /\ segment' = [segment EXCEPT ![s] = "done"]
        /\ verdict' = [verdict EXCEPT ![s] = "failed"] /\ ~VerifySegmentOutput(s)
        /\ UNCHANGED <<windows, batch, segFile, retryMu, batchCtx, receipt>>
    BY <1>4 DEF VerifyFailsAgain, Step, Ends
  <2>2. batchCtx' = "alive" => ~(file.sound /\ file.frames = FramesOf(windows[s]))
    BY <2>1, FailedIsNotWhole DEF Whole
  <2>3. QED
    BY <1>0, <1>a, <2>1, <2>2, OneSegmentMoves
<1>5. CASE LockRetry(s)
  <2>1. /\ segment[s] = "blocked" /\ segment' = [segment EXCEPT ![s] = "rendering"]
        /\ retryMu = 0 /\ retryMu' = s
        /\ UNCHANGED <<windows, batch, segFile, verdict, batchCtx, receipt>>
    BY <1>5 DEF LockRetry, MutexFree, Step
  <2>2. \A r \in Segments : r # 0
    BY WindowsTyped DEF SegInv
  <2>3. \A r \in Segments : segment[r] # "rendering"
    BY <1>a, <2>1, <2>2
  <2>4. ~(file.sound /\ file.frames = FramesOf(windows[s]))
    BY <1>0, <2>1 DEF VerdictsMean, Whole
  <2>5. QED
    BY <1>0, <2>1, <2>3, <2>4, OneSegmentMoves
<1>6. CASE RetrySegment(s)
  <2>1. /\ retryMu' = 0 /\ segment[s] = "rendering"
        /\ UNCHANGED <<windows, batch, batchCtx, receipt>>
    BY <1>6 DEF RetrySegment, UnlockRetry, Step
  <2>2. \A r \in Segments \ {s} : segment[r] # "rendering"
    BY <1>a, <2>1
  <2>3. ASSUME NEW sound \in BOOLEAN,
               segFile' = [segFile EXCEPT ![s] = [frames |-> RetryFrames(s), sound |-> sound]],
               segment' = [segment EXCEPT ![s] = "reverify"], verdict' = verdict
        PROVE  SegInv'
    <3> DEFINE new == [frames |-> RetryFrames(s), sound |-> sound]
    <3>1. new \in [frames : SUBSET FramesOf(windows[s]), sound : BOOLEAN]
      BY DEF RetryFrames, FramesOf
    <3> HIDE DEF new
    <3>2. segFile' = [segFile EXCEPT ![s] = new]
      BY <2>3 DEF new
    <3>3. verdict' = [verdict EXCEPT ![s] = "none"]
      BY <1>0, <2>1, <2>3
    <3> HIDE DEF file
    <3>4. QED
      BY <2>1, <2>2, <2>3, <3>1, <3>2, <3>3, OneSegmentMoves
  <2>4. CASE segment' = [segment EXCEPT ![s] = "done"] /\ verdict' = [verdict EXCEPT ![s] = "failed"]
             /\ segFile' = segFile
    <3>1. ~(file.sound /\ file.frames = FramesOf(windows[s]))
      BY <1>0, <2>1 DEF VerdictsMean, Whole
    <3>2. QED
      BY <1>0, <2>1, <2>2, <2>4, <3>1, OneSegmentMoves
  <2>5. QED
    BY <1>6, <2>3, <2>4 DEF RetrySegment, Step, Ends
<1>7. CASE StoreSegment(s)
  <2>1. /\ segment[s] = "store" /\ segment' = [segment EXCEPT ![s] = "done"]
        /\ UNCHANGED <<windows, batch, segFile, retryMu, batchCtx, receipt>>
    BY <1>7 DEF StoreSegment, Step
  <2>2. PICK how \in {"stored", "fatal"} : verdict' = [verdict EXCEPT ![s] = how]
    BY <1>7 DEF StoreSegment, Ends
  <2>3. Cardinality(file.frames) = windows[s][2] - windows[s][1]
    BY <1>0, <2>1 DEF VerdictsMean
  <2>4. QED
    BY <1>0, <1>a, <2>1, <2>2, <2>3, OneSegmentMoves
<1>8. QED
  BY <1>1, <1>2, <1>3, <1>4, <1>5, <1>6, <1>7 DEF SegStep

LEMMA SegInvStep == SegInv /\ [SegNext]_segVars => SegInv'
<1> SUFFICES ASSUME SegInv, [SegNext]_segVars PROVE SegInv'
  OBVIOUS
<1>1. CASE UNCHANGED segVars
  <2>1. FilesTyped' = FilesTyped /\ VerdictsMean' = VerdictsMean
    BY <1>1 DEF segVars, FilesTyped, VerdictsMean, Segments, Tileable, FramesOf, Whole
  <2>2. AssembleEntries' = AssembleEntries /\ Segments' = Segments
    BY <1>1 DEF segVars, AssembleEntries, StoredBefore, Segments
  <2>3. ReturnedMeans'
    BY <1>1, <2>2 DEF segVars, SegInv, ReturnedMeans
  <2>4. QED
    BY <1>1, <2>1, <2>3 DEF segVars, SegInv
<1>2. CASE RenderSession
  BY <1>2, SessionKeeps
<1>3. ASSUME NEW s \in Segments, batch = "verifying", SegStep(s) PROVE SegInv'
  BY <1>3, SegStepKeeps
<1>4. CASE ReturnBatch
  <2>1. /\ batch = "verifying" /\ batch' = "returned" /\ \A s \in Segments : segment[s] = "done"
        /\ receipt' = AssembleEntries
        /\ UNCHANGED <<windows, segFile, segment, verdict, retryMu, batchCtx>>
    BY <1>4 DEF ReturnBatch
  <2>2. AssembleEntries' = AssembleEntries /\ Segments' = Segments
    BY <2>1 DEF AssembleEntries, StoredBefore, Segments
  <2>3. FilesTyped' /\ VerdictsMean'
    BY <2>1, <2>2 DEF SegInv, FilesTyped, VerdictsMean, Segments, Tileable, FramesOf, Whole
  <2>4. QED
    BY <2>1, <2>2, <2>3 DEF SegInv, ReturnedMeans
<1>5. CASE RefuseIdentities
  <2>1. /\ batch = "verifying" /\ batch' = "returned" /\ receipt'.error = "identity"
        /\ UNCHANGED <<windows, segFile, segment, verdict, retryMu, batchCtx>>
    BY <1>5 DEF RefuseIdentities
  <2>2. FilesTyped' /\ VerdictsMean'
    BY <2>1 DEF SegInv, FilesTyped, VerdictsMean, Segments, Tileable, FramesOf, Whole
  <2>3. QED
    BY <2>1, <2>2 DEF SegInv, ReturnedMeans
<1>6. CASE CancelBatch
  BY <1>6 DEF CancelBatch, SegInv, FilesTyped, VerdictsMean, ReturnedMeans, Segments, Tileable, FramesOf, Whole
<1>7. QED
  BY <1>1, <1>2, <1>3, <1>4, <1>5, <1>6 DEF SegNext, BatchStep

(* What a segmented render reports: the whole clip, one re-render at a time, *)
(* no sibling lost, for any plan of any length and any size of the pool      *)
(* (BatchIsSound).                                                           *)
THEOREM BatchCorrect == SegSpec => []BatchIsSound
<1>1. SegInv => SuccessIsTheWholeClip
  <2> SUFFICES ASSUME SegInv PROVE SuccessIsTheWholeClip
    OBVIOUS
  <2>1. ASSUME batch = "returned", receipt.error = "none"
        PROVE  receipt.entries = Segments /\ UNION {segFile[s].frames : s \in Segments} = 0..(CanvasFrames - 1)
    <3>1. /\ windows \in Seq(Window) /\ FilesTyped /\ VerdictsMean /\ receipt = AssembleEntries
          /\ \A s \in Segments : segment[s] = "done"
      BY <2>1 DEF SegInv, ReturnedMeans
    <3>2. /\ \A s \in Segments : verdict[s] # "fatal" /\ verdict[s] # "failed"
          /\ receipt.entries = StoredBefore(Len(windows))
      BY <2>1, <3>1 DEF AssembleEntries
    <3>3. \A s \in Segments : verdict[s] = "stored"
      BY <3>1, <3>2 DEF FilesTyped, VerdictsMean, Verdicts
    <3>4. receipt.entries = Segments
      BY <3>1, <3>2, <3>3, WindowsTyped DEF StoredBefore
    <3>5. \A s \in Segments : segFile[s].frames = FramesOf(windows[s])
      BY <3>1, <3>3, FramesCounted DEF FilesTyped, VerdictsMean
    <3>6. QED
      BY <3>1, <3>4, <3>5, TilesOnce DEF FilesTyped
  <2>2. QED
    BY <2>1, TilesOnce DEF SuccessIsTheWholeClip, SegInv, FilesTyped
<1>2. SegInv => OneRetryAtATime
  <2> SUFFICES ASSUME SegInv, batch = "verifying"
               PROVE  Cardinality({s \in Segments : segment[s] = "rendering"}) <= 1
    BY DEF OneRetryAtATime
  <2> DEFINE R == {s \in Segments : segment[s] = "rendering"}
  <2>1. R \in SUBSET {retryMu}
    BY DEF SegInv, VerdictsMean
  <2>2. IsFiniteSet({retryMu}) /\ Cardinality({retryMu}) = 1
    BY FS_Singleton
  <2> HIDE DEF R
  <2>3. Cardinality(R) <= 1
    BY <2>1, <2>2, FS_Subset
  <2>4. QED
    BY <2>3 DEF R
<1>3. SegInv => SiblingsArePreserved
  <2> SUFFICES ASSUME SegInv, batch = "returned", receipt.error \in {"none", "failed"}, batchCtx = "alive",
                      NEW s \in Segments, Whole(s)
               PROVE  s \in receipt.entries
    BY DEF SiblingsArePreserved, Whole
  <2>1. /\ windows \in Seq(Window) /\ FilesTyped /\ VerdictsMean /\ receipt = AssembleEntries
        /\ \A r \in Segments : segment[r] = "done"
    BY DEF SegInv, ReturnedMeans
  <2>2. verdict[s] # "fatal" /\ receipt.entries = StoredBefore(Len(windows))
    <3>1. receipt.error # "fatal"
      OBVIOUS
    <3>2. \A r \in Segments : verdict[r] # "fatal"
      BY <2>1, <3>1 DEF AssembleEntries
    <3>3. QED
      BY <2>1, <3>2 DEF AssembleEntries
  <2>3. verdict[s] = "stored"
    BY <2>1, <2>2 DEF FilesTyped, VerdictsMean, Verdicts
  <2>4. QED
    BY <2>1, <2>2, <2>3, WindowsTyped DEF StoredBefore
<1>4. QED
  BY <1>1, <1>2, <1>3, SegInvInit, SegInvStep, PTL DEF SegSpec, BatchIsSound

-----------------------------------------------------------------------------
(* RenderProgress *)

MaybeEntry == AllEntries \cup {NoEntry}

ProgressTyped ==
  /\ lane \in [TrackedJobs -> {"out", "rendering", "leaving"}]
  /\ renders \in [TrackedJobs -> 0..MaxRenders]
  /\ left \in [TrackedJobs -> {"none", "done", "failed"}]
  /\ entries \in [TrackedJobs -> MaybeEntry] /\ retiring \in [TrackedJobs -> MaybeEntry]
  /\ latest \in MaybeEntry
  /\ output \in [TrackedJobs \X Outputs -> {"scans", "took", "wrote"}]
  /\ held \in [TrackedJobs \X Outputs -> MaybeEntry]
  /\ observed \subseteq AllEntries
  /\ reader \in [at : {"ticking", "loaded", "scanning", "reading"}, entry : MaybeEntry,
                 todo : SUBSET TrackedJobs]
  /\ stayed \subseteq AllEntries

\* An entry that has a position, or gets its first one.
Known(e) == e \in observed \/ \E o \in TrackedJobs \X Outputs : output[o] = "took" /\ held[o] = e

\* An entry of the map is one of its job and outlives the render only when that failed.
\* A goroutine within Observe holds the entry of the map, and its render goes on.
EntriesMean ==
  \A j \in TrackedJobs :
    /\ IsLive(j) =>
         /\ JobOf(entries[j]) = j /\ Known(entries[j])
         /\ lane[j] # "leaving" /\ (lane[j] = "out" => left[j] = "failed")
    /\ lane[j] # "out" => renders[j] \in 1..MaxRenders
    /\ \A s \in Outputs : output[<<j, s>>] # "scans" =>
         lane[j] = "rendering" /\ IsLive(j) /\ held[<<j, s>>] = entries[j]
    /\ \A s \in Outputs : output[<<j, s>>] = "wrote" => held[<<j, s>>] \in observed

\* The latest is the entry its job has in the map, or the one that its lane is about to
\* retire: a lane stores and retires only entries of its own job.
LatestMeans ==
  latest # NoEntry =>
    /\ latest \in observed
    /\ \/ entries[JobOf(latest)] = latest
       \/ lane[JobOf(latest)] = "leaving" /\ retiring[JobOf(latest)] = latest

\* The histories say what they are for, and what the reader has in hand was live; as
\* long as it has nothing, the entries that stayed are still to be visited.
ReaderMeans ==
  /\ Reading => \A j \in TrackedJobs : IsLive(j) => entries[j] \in wasLive
  /\ \A e \in stayed : entries[JobOf(e)] = e
  /\ reader.entry # NoEntry => reader.entry \in wasLive /\ Known(reader.entry)
  /\ reader.at = "loaded" => reader.entry # NoEntry
  /\ reader.at = "scanning" /\ reader.entry = NoEntry => \A e \in stayed : JobOf(e) \in reader.todo
  /\ reader.at = "reading" /\ reader.entry = NoEntry => stayed = {}

ProgressInv == ProgressTyped /\ EntriesMean /\ LatestMeans /\ ReaderMeans

LEMMA EntryIsPair == \A e \in AllEntries : JobOf(e) \in TrackedJobs /\ e # NoEntry
BY ProgressAssumption DEF AllEntries, JobOf

LEMMA ProgressInvInit == ProgressInit => ProgressInv
BY ProgressAssumption DEF ProgressInit, ProgressInv, ProgressTyped, EntriesMean, LatestMeans,
   ReaderMeans, MaybeEntry, Quiet, IsLive, Reading

\* A goroutine gets the entry of its job.
LEMMA TakeKeeps ==
  ASSUME ProgressInv, NEW j \in TrackedJobs, NEW s \in Outputs, TakeEntry(j, s)
  PROVE  ProgressInv'
<1> USE DEF ProgressInv, ProgressTyped
<1>0. PICK e : e = EntryFor(j)
  OBVIOUS
<1>1. e \in AllEntries /\ JobOf(e) = j /\ e # NoEntry /\ (IsLive(j) => e = entries[j])
  <2>1. renders[j] \in 1..MaxRenders
    BY DEF TakeEntry, EntriesMean
  <2> QED
    BY <1>0, <2>1, EntryIsPair DEF EntryFor, IsLive, EntriesMean, AllEntries, JobOf, MaybeEntry
<1>2. /\ lane[j] = "rendering" /\ output[<<j, s>>] = "scans"
      /\ entries' = [entries EXCEPT ![j] = e] /\ held' = [held EXCEPT ![<<j, s>>] = e]
      /\ output' = [output EXCEPT ![<<j, s>>] = "took"]
      /\ wasLive' = IF Reading THEN wasLive \cup {e} ELSE wasLive
      /\ UNCHANGED <<lane, renders, left, latest, retiring, observed, reader, stayed>>
  BY <1>0 DEF TakeEntry
<1>3. ProgressTyped'
  BY <1>1, <1>2 DEF MaybeEntry
<1>4. Known(e)' /\ \A d : Known(d) => Known(d)'
  <2>1. <<j, s>> \in TrackedJobs \X Outputs /\ output'[<<j, s>>] = "took" /\ held'[<<j, s>>] = e
    BY <1>2
  <2>2. \A o \in TrackedJobs \X Outputs : output[o] = "took" => output'[o] = "took" /\ held'[o] = held[o]
    BY <1>2
  <2> QED
    BY <1>2, <2>1, <2>2 DEF Known
<1>5. EntriesMean'
  <2> SUFFICES ASSUME NEW k \in TrackedJobs
               PROVE  /\ IsLive(k)' =>
                           /\ JobOf(entries'[k]) = k /\ Known(entries[k])'
                           /\ lane'[k] # "leaving" /\ (lane'[k] = "out" => left'[k] = "failed")
                      /\ lane'[k] # "out" => renders'[k] \in 1..MaxRenders
                      /\ \A t \in Outputs : output'[<<k, t>>] # "scans" =>
                           lane'[k] = "rendering" /\ IsLive(k)' /\ held'[<<k, t>>] = entries'[k]
                      /\ \A t \in Outputs : output'[<<k, t>>] = "wrote" => held'[<<k, t>>] \in observed'
    BY DEF EntriesMean, Known
  <2>1. CASE k = j
    <3>1. entries'[k] = e /\ (IsLive(j) => entries[j] = e)
      BY <1>1, <1>2, <2>1
    <3>2. \A t \in Outputs : t # s => output'[<<k, t>>] = output[<<k, t>>] /\ held'[<<k, t>>] = held[<<k, t>>]
      BY <1>2
    <3>3. output'[<<k, s>>] = "took" /\ held'[<<k, s>>] = e
      BY <1>2, <2>1
    <3> QED
      BY <1>1, <1>2, <1>4, <2>1, <3>1, <3>2, <3>3 DEF EntriesMean, IsLive
  <2>2. CASE k # j
    <3>1. entries'[k] = entries[k] /\ \A t \in Outputs : output'[<<k, t>>] = output[<<k, t>>] /\ held'[<<k, t>>] = held[<<k, t>>]
      BY <1>2, <2>2
    <3> QED
      BY <1>2, <1>4, <2>2, <3>1 DEF EntriesMean, IsLive
  <2> QED
    BY <2>1, <2>2
<1>6. LatestMeans'
  <2> SUFFICES ASSUME latest # NoEntry
               PROVE  /\ latest \in observed
                      /\ \/ entries'[JobOf(latest)] = latest
                         \/ lane'[JobOf(latest)] = "leaving" /\ retiring'[JobOf(latest)] = latest
    BY <1>2 DEF LatestMeans
  <2>1. JobOf(latest) \in TrackedJobs
    BY EntryIsPair DEF MaybeEntry
  <2>2. CASE JobOf(latest) = j
    BY <1>1, <1>2, <2>1, <2>2 DEF LatestMeans, IsLive
  <2>3. CASE JobOf(latest) # j
    BY <1>2, <2>1, <2>3 DEF LatestMeans
  <2> QED
    BY <2>2, <2>3
<1>7. ReaderMeans'
  <2>1. Reading' = Reading
    BY <1>2 DEF Reading
  <2>2. \A k \in TrackedJobs : Reading /\ IsLive(k)' => entries'[k] \in wasLive'
    BY <1>1, <1>2 DEF ReaderMeans, IsLive
  <2>3. \A d \in stayed : entries'[JobOf(d)] = d
    <3> SUFFICES ASSUME NEW d \in stayed PROVE entries'[JobOf(d)] = d
      OBVIOUS
    <3>1. entries[JobOf(d)] = d /\ d # NoEntry /\ JobOf(d) \in TrackedJobs
      BY EntryIsPair DEF ReaderMeans
    <3> QED
      BY <1>1, <1>2, <3>1 DEF IsLive
  <2> QED
    BY <1>2, <1>4, <2>1, <2>2, <2>3 DEF ReaderMeans
<1> QED
  BY <1>3, <1>5, <1>6, <1>7

\* The entry leaves the map, and the entries that stayed with it.
LEMMA ForgetKeeps ==
  ASSUME ProgressInv, NEW j \in TrackedJobs, ForgetEntry(j)
  PROVE  ProgressInv'
<1> USE DEF ProgressInv, ProgressTyped
<1>1. /\ lane[j] = "rendering" /\ lane' = [lane EXCEPT ![j] = "leaving"] /\ OutputEnded(j)
      /\ retiring' = [retiring EXCEPT ![j] = entries[j]]
      /\ entries' = [entries EXCEPT ![j] = NoEntry] /\ stayed' = stayed \ {entries[j]}
      /\ UNCHANGED <<renders, left, latest, output, held, observed, reader, wasLive>>
  BY DEF ForgetEntry, LaneTo
<1>2. ProgressTyped'
  BY <1>1 DEF MaybeEntry
<1>3. \A d : Known(d)' = Known(d)
  BY <1>1 DEF Known
<1>4. EntriesMean'
  <2> SUFFICES ASSUME NEW k \in TrackedJobs
               PROVE  /\ IsLive(k)' =>
                           /\ JobOf(entries'[k]) = k /\ Known(entries[k])'
                           /\ lane'[k] # "leaving" /\ (lane'[k] = "out" => left'[k] = "failed")
                      /\ lane'[k] # "out" => renders'[k] \in 1..MaxRenders
                      /\ \A t \in Outputs : output'[<<k, t>>] # "scans" =>
                           lane'[k] = "rendering" /\ IsLive(k)' /\ held'[<<k, t>>] = entries'[k]
                      /\ \A t \in Outputs : output'[<<k, t>>] = "wrote" => held'[<<k, t>>] \in observed'
    BY DEF EntriesMean, Known
  <2>1. CASE k = j
    BY <1>1, <2>1 DEF EntriesMean, IsLive, OutputEnded
  <2>2. CASE k # j
    BY <1>1, <1>3, <2>2 DEF EntriesMean, IsLive
  <2> QED
    BY <2>1, <2>2
<1>5. LatestMeans'
  <2> SUFFICES ASSUME latest # NoEntry
               PROVE  /\ latest \in observed
                      /\ \/ entries'[JobOf(latest)] = latest
                         \/ lane'[JobOf(latest)] = "leaving" /\ retiring'[JobOf(latest)] = latest
    BY <1>1 DEF LatestMeans
  <2>1. JobOf(latest) \in TrackedJobs
    BY EntryIsPair DEF MaybeEntry
  <2> QED
    BY <1>1, <2>1 DEF LatestMeans
<1>6. ReaderMeans'
  <2>1. \A d \in stayed' : entries'[JobOf(d)] = d
    <3> SUFFICES ASSUME NEW d \in stayed, d # entries[j] PROVE entries'[JobOf(d)] = d
      BY <1>1
    <3>1. entries[JobOf(d)] = d /\ JobOf(d) \in TrackedJobs
      BY EntryIsPair DEF ReaderMeans
    <3> QED
      BY <1>1, <3>1
  <2>2. Reading' = Reading /\ stayed' \subseteq stayed
    BY <1>1 DEF Reading
  <2> QED
    BY <1>1, <1>3, <2>1, <2>2 DEF ReaderMeans, IsLive
<1> QED
  BY <1>2, <1>4, <1>5, <1>6

\* Steps of a lane that leave the map alone.
LEMMA LaneKeeps ==
  ASSUME ProgressInv, NEW j \in TrackedJobs,
         StartTracking(j) \/ TrackedRenderFails(j) \/ RetireLatest(j)
           \/ \E s \in Outputs : WritePosition(j, s) \/ StoreLatest(j, s)
  PROVE  ProgressInv'
<1> USE DEF ProgressInv, ProgressTyped
<1>1. ASSUME StartTracking(j) \/ TrackedRenderFails(j)
      PROVE  ProgressInv'
  <2>1. UNCHANGED <<entries, latest, retiring, output, held, observed, reader, wasLive, stayed>>
    BY <1>1 DEF StartTracking, TrackedRenderFails, readSide
  <2>2. ProgressTyped'
    <3>1. lane' \in [TrackedJobs -> {"out", "rendering", "leaving"}]
      BY <1>1 DEF StartTracking, TrackedRenderFails, LaneTo
    <3>2. renders' \in [TrackedJobs -> 0..MaxRenders]
      <4>1. CASE StartTracking(j)
        <5>1. renders[j] + 1 \in 0..MaxRenders
          BY <4>1, ProgressAssumption DEF StartTracking
        <5>2. renders' = [renders EXCEPT ![j] = renders[j] + 1]
          BY <4>1 DEF StartTracking
        <5> QED
          BY <5>1, <5>2
      <4>2. CASE TrackedRenderFails(j)
        BY <4>2 DEF TrackedRenderFails
      <4> QED
        BY <1>1, <4>1, <4>2
    <3>3. left' \in [TrackedJobs -> {"none", "done", "failed"}]
      BY <1>1 DEF StartTracking, TrackedRenderFails
    <3> QED
      BY <2>1, <3>1, <3>2, <3>3
  <2>3. \A d : Known(d)' = Known(d)
    BY <2>1 DEF Known
  <2>4. \A k \in TrackedJobs : IsLive(k)' = IsLive(k)
    BY <2>1 DEF IsLive
  <2>5. EntriesMean'
    <3>1. CASE StartTracking(j)
      BY <2>1, <2>3, <2>4, <3>1, ProgressAssumption DEF StartTracking, LaneTo, EntriesMean
    <3>2. CASE TrackedRenderFails(j)
      BY <2>1, <2>3, <2>4, <3>2 DEF TrackedRenderFails, LaneTo, EntriesMean, OutputEnded
    <3> QED
      BY <1>1, <3>1, <3>2
  <2>6. LatestMeans'
    <3> SUFFICES ASSUME latest # NoEntry
                 PROVE  /\ latest \in observed
                        /\ \/ entries'[JobOf(latest)] = latest
                           \/ lane'[JobOf(latest)] = "leaving" /\ retiring'[JobOf(latest)] = latest
      BY <2>1 DEF LatestMeans
    <3>1. JobOf(latest) \in TrackedJobs
      BY EntryIsPair DEF MaybeEntry
    <3>2. lane[JobOf(latest)] = "leaving" => lane'[JobOf(latest)] = "leaving"
      BY <1>1, <3>1 DEF StartTracking, TrackedRenderFails, LaneTo
    <3> QED
      BY <2>1, <3>1, <3>2 DEF LatestMeans
  <2> QED
    BY <2>1, <2>2, <2>3, <2>4, <2>5, <2>6 DEF ReaderMeans, Reading
<1>2. ASSUME NEW s \in Outputs, WritePosition(j, s)
      PROVE  ProgressInv'
  <2>1. /\ output[<<j, s>>] = "took" /\ output' = [output EXCEPT ![<<j, s>>] = "wrote"]
        /\ observed' = observed \cup {held[<<j, s>>]}
        /\ UNCHANGED <<lane, renders, left, entries, latest, retiring, held, reader, wasLive, stayed>>
    BY <1>2 DEF WritePosition, readSide
  <2>2. held[<<j, s>>] = entries[j] /\ IsLive(j) /\ held[<<j, s>>] \in AllEntries
    BY <2>1 DEF EntriesMean, IsLive, MaybeEntry
  <2>3. ProgressTyped'
    BY <2>1, <2>2
  <2>4. \A d : Known(d) => Known(d)'
    <3> SUFFICES ASSUME NEW d, NEW o \in TrackedJobs \X Outputs, output[o] = "took", held[o] = d
                 PROVE  Known(d)'
      BY <2>1 DEF Known
    <3>1. CASE o = <<j, s>>
      BY <2>1, <3>1 DEF Known
    <3>2. CASE o # <<j, s>>
      <4>1. output'[o] = "took" /\ held'[o] = d
        BY <2>1, <3>2
      <4> QED
        BY <4>1 DEF Known
    <3> QED
      BY <3>1, <3>2
  <2>5. \A k \in TrackedJobs : IsLive(k)' = IsLive(k)
    BY <2>1 DEF IsLive
  <2>6. \A k \in TrackedJobs, t \in Outputs :
          /\ output'[<<k, t>>] # "scans" => output[<<k, t>>] # "scans"
          /\ output'[<<k, t>>] = "wrote" => output[<<k, t>>] = "wrote" \/ <<k, t>> = <<j, s>>
    BY <2>1
  <2>7. EntriesMean'
    BY <2>1, <2>4, <2>5, <2>6 DEF EntriesMean
  <2> QED
    BY <2>1, <2>3, <2>4, <2>5, <2>7 DEF LatestMeans, ReaderMeans, Reading
<1>3. ASSUME NEW s \in Outputs, StoreLatest(j, s)
      PROVE  ProgressInv'
  <2>1. /\ output[<<j, s>>] = "wrote" /\ output' = [output EXCEPT ![<<j, s>>] = "scans"]
        /\ held' = [held EXCEPT ![<<j, s>>] = NoEntry] /\ latest' = held[<<j, s>>]
        /\ UNCHANGED <<lane, renders, left, entries, retiring, observed, reader, wasLive, stayed>>
    BY <1>3 DEF StoreLatest, readSide
  <2>2. /\ held[<<j, s>>] = entries[j] /\ entries[j] # NoEntry /\ JobOf(entries[j]) = j
        /\ held[<<j, s>>] \in observed
    BY <2>1 DEF EntriesMean, IsLive
  <2>3. ProgressTyped'
    BY <2>1, <2>2 DEF MaybeEntry
  <2>4. \A d : Known(d) => Known(d)'
    <3>1. \A o \in TrackedJobs \X Outputs : output[o] = "took" => output'[o] = "took" /\ held'[o] = held[o]
      BY <2>1
    <3> QED
      BY <2>1, <3>1 DEF Known
  <2>5. \A k \in TrackedJobs : IsLive(k)' = IsLive(k)
    BY <2>1 DEF IsLive
  <2>6. \A k \in TrackedJobs, t \in Outputs :
          output'[<<k, t>>] # "scans" => output'[<<k, t>>] = output[<<k, t>>] /\ held'[<<k, t>>] = held[<<k, t>>]
    BY <2>1
  <2>7. EntriesMean'
    BY <2>1, <2>4, <2>5, <2>6 DEF EntriesMean
  <2>8. LatestMeans'
    BY <2>1, <2>2 DEF LatestMeans
  <2> QED
    BY <2>1, <2>3, <2>4, <2>5, <2>7, <2>8 DEF ReaderMeans, Reading
<1>4. ASSUME RetireLatest(j)
      PROVE  ProgressInv'
  <2>1. /\ lane[j] = "leaving" /\ lane' = [lane EXCEPT ![j] = "out"]
        /\ retiring' = [retiring EXCEPT ![j] = NoEntry] /\ left' = [left EXCEPT ![j] = "done"]
        /\ latest' = IF latest = retiring[j] THEN NoEntry ELSE latest
        /\ UNCHANGED <<renders, entries, output, held, observed, reader, wasLive, stayed>>
    BY <1>4 DEF RetireLatest, LaneTo, RetiredLatest, readSide
  <2>2. entries[j] = NoEntry
    BY <2>1 DEF EntriesMean, IsLive
  <2>3. ProgressTyped'
    BY <2>1 DEF MaybeEntry
  <2>4. \A d : Known(d)' = Known(d)
    BY <2>1 DEF Known
  <2>5. \A k \in TrackedJobs : IsLive(k)' = IsLive(k)
    BY <2>1 DEF IsLive
  <2>6. EntriesMean'
    BY <2>1, <2>2, <2>4, <2>5 DEF EntriesMean, IsLive
  <2>7. LatestMeans'
    <3> SUFFICES ASSUME latest' # NoEntry
                 PROVE  /\ latest' \in observed'
                        /\ \/ entries'[JobOf(latest')] = latest'
                           \/ lane'[JobOf(latest')] = "leaving" /\ retiring'[JobOf(latest')] = latest'
      BY DEF LatestMeans
    <3>1. latest' = latest /\ latest # retiring[j] /\ JobOf(latest) \in TrackedJobs
      BY <2>1, EntryIsPair DEF MaybeEntry
    <3> QED
      BY <2>1, <2>2, <3>1 DEF LatestMeans
  <2> QED
    BY <2>1, <2>3, <2>4, <2>5, <2>6, <2>7 DEF ReaderMeans, Reading
<1> QED
  BY <1>1, <1>2, <1>3, <1>4

LEMMA ReaderKeeps ==
  ASSUME ProgressInv, LoadLatest \/ AskForJob \/ SnapshotEntry \/ \E j \in TrackedJobs : VisitEntry(j)
  PROVE  ProgressInv'
<1> USE DEF ProgressInv, ProgressTyped
<1>1. UNCHANGED <<lane, renders, left, entries, latest, retiring, output, held, observed>>
  BY DEF LoadLatest, AskForJob, SnapshotEntry, VisitEntry, laneSide
<1>2. (\A d : Known(d)' = Known(d)) /\ (\A k \in TrackedJobs : IsLive(k)' = IsLive(k))
  BY <1>1 DEF Known, IsLive
<1>3. EntriesMean' /\ LatestMeans'
  BY <1>1, <1>2 DEF EntriesMean, LatestMeans
<1>4. \A k \in TrackedJobs : IsLive(k) => entries[k] \in AllEntries
  BY DEF IsLive, MaybeEntry
<1>5. CASE LoadLatest
  <2>1. /\ wasLive' = LiveEntries \cup {retiring[j] : j \in {k \in TrackedJobs : retiring[k] # NoEntry}}
        /\ stayed' = LiveEntries
        /\ reader' = IF latest = NoEntry
                     THEN [at |-> "scanning", entry |-> NoEntry, todo |-> TrackedJobs]
                     ELSE [at |-> "loaded", entry |-> latest, todo |-> {}]
    BY <1>5 DEF LoadLatest, ScanBegins, ReaderGoes
  <2>2. LiveEntries \subseteq AllEntries /\ \A k \in TrackedJobs : IsLive(k) => entries[k] \in LiveEntries
    BY <1>4 DEF LiveEntries
  <2>3. ProgressTyped'
    BY <1>1, <2>1, <2>2 DEF MaybeEntry
  <2>4. \A e \in LiveEntries : entries[JobOf(e)] = e /\ JobOf(e) \in TrackedJobs
    <3> SUFFICES ASSUME NEW k \in TrackedJobs, IsLive(k)
                 PROVE  entries[JobOf(entries[k])] = entries[k] /\ JobOf(entries[k]) \in TrackedJobs
      BY DEF LiveEntries
    <3> QED
      BY DEF EntriesMean
  <2>5. latest # NoEntry => latest \in wasLive' /\ Known(latest)
    <3> SUFFICES ASSUME latest # NoEntry PROVE latest \in wasLive' /\ Known(latest)
      OBVIOUS
    <3>1. latest \in observed /\ JobOf(latest) \in TrackedJobs
      BY EntryIsPair DEF LatestMeans, MaybeEntry
    <3>2. CASE entries[JobOf(latest)] = latest
      BY <2>1, <2>2, <3>1, <3>2 DEF Known, IsLive
    <3>3. CASE retiring[JobOf(latest)] = latest
      BY <2>1, <3>1, <3>3 DEF Known
    <3> QED
      BY <3>1, <3>2, <3>3 DEF LatestMeans
  <2>6. ReaderMeans'
    <3>1. reader'.entry = latest /\ reader'.at \in {"scanning", "loaded"}
            /\ (reader'.at = "loaded" => latest # NoEntry)
            /\ (reader'.at = "scanning" => reader'.todo = TrackedJobs)
      BY <2>1
    <3> QED
      BY <1>1, <1>2, <2>1, <2>2, <2>4, <2>5, <3>1 DEF ReaderMeans
  <2> QED
    BY <1>3, <2>3, <2>6
<1>6. CASE AskForJob
  <2>1. /\ reader.at = "loaded" /\ UNCHANGED <<wasLive, stayed>>
        /\ reader' = IF IsLive(JobOf(reader.entry))
                     THEN [at |-> "reading", entry |-> reader.entry, todo |-> {}]
                     ELSE [at |-> "scanning", entry |-> NoEntry, todo |-> TrackedJobs]
    BY <1>6 DEF AskForJob, ScanBegins, ReaderGoes
  <2>2. ProgressTyped'
    BY <1>1, <2>1 DEF MaybeEntry
  <2>3. \A e \in stayed : JobOf(e) \in TrackedJobs
    BY EntryIsPair
  <2>4. ReaderMeans'
    <3>1. CASE IsLive(JobOf(reader.entry))
      <4>1. reader'.at = "reading" /\ reader'.entry = reader.entry
        BY <2>1, <3>1
      <4> QED
        BY <1>1, <1>2, <2>1, <4>1 DEF ReaderMeans, Reading
    <3>2. CASE ~IsLive(JobOf(reader.entry))
      <4>1. reader'.at = "scanning" /\ reader'.entry = NoEntry /\ reader'.todo = TrackedJobs
        BY <2>1, <3>2
      <4> QED
        BY <1>1, <1>2, <2>1, <2>3, <4>1 DEF ReaderMeans, Reading
    <3> QED
      BY <3>1, <3>2
  <2> QED
    BY <1>3, <2>2, <2>4
<1>7. ASSUME NEW j \in TrackedJobs, VisitEntry(j)
      PROVE  ProgressInv'
  <2>1. PICK best \in {reader.entry, entries[j]} :
          /\ best = NoEntry => reader.entry = NoEntry /\ ~IsLive(j)
          /\ reader' = [at |-> IF reader.todo = {j} THEN "reading" ELSE "scanning",
                        entry |-> best, todo |-> reader.todo \ {j}]
    BY <1>7 DEF VisitEntry, ReaderGoes
  <2>2. reader.at = "scanning" /\ UNCHANGED <<wasLive, stayed>>
    BY <1>7 DEF VisitEntry
  <2>3. /\ reader'.at = IF reader.todo = {j} THEN "reading" ELSE "scanning"
        /\ reader'.entry = best /\ reader'.todo = reader.todo \ {j}
    BY <2>1
  <2>4. ProgressTyped'
    <3>1. best \in MaybeEntry /\ reader.todo \ {j} \in SUBSET TrackedJobs
      OBVIOUS
    <3>2. reader' \in [at : {"ticking", "loaded", "scanning", "reading"}, entry : MaybeEntry,
                       todo : SUBSET TrackedJobs]
      BY <2>1, <3>1
    <3> QED
      BY <1>1, <2>2, <3>2
  <2>5. best # NoEntry => best \in wasLive /\ Known(best)
    BY <2>1, <2>2 DEF ReaderMeans, EntriesMean, IsLive, Reading
  <2>6. best = NoEntry => \A e \in stayed : JobOf(e) \in reader.todo \ {j}
    <3> SUFFICES ASSUME best = NoEntry, NEW e \in stayed PROVE JobOf(e) \in reader.todo \ {j}
      OBVIOUS
    <3>1. JobOf(e) \in reader.todo /\ entries[JobOf(e)] = e /\ e # NoEntry
      BY <2>1, <2>2, EntryIsPair DEF ReaderMeans
    <3> QED
      BY <2>1, <3>1 DEF IsLive
  <2>7. ReaderMeans'
    BY <1>1, <1>2, <2>2, <2>3, <2>5, <2>6 DEF ReaderMeans, Reading
  <2> QED
    BY <1>3, <2>4, <2>7
<1>8. CASE SnapshotEntry
  <2>1. /\ reader' = [at |-> "ticking", entry |-> NoEntry, todo |-> {}]
        /\ wasLive' = {} /\ stayed' = {}
    BY <1>8 DEF SnapshotEntry, Quiet
  <2>2. reader'.at = "ticking" /\ reader'.entry = NoEntry
    BY <2>1
  <2>3. ProgressTyped'
    BY <1>1, <2>1 DEF MaybeEntry
  <2>4. ReaderMeans'
    BY <2>1, <2>2 DEF ReaderMeans, Reading
  <2> QED
    BY <1>3, <2>3, <2>4
<1> QED
  BY <1>5, <1>6, <1>7, <1>8

LEMMA ProgressInvStep == ProgressInv /\ [ProgressNext]_progressVars => ProgressInv'
<1> SUFFICES ASSUME ProgressInv, [ProgressNext]_progressVars
             PROVE  ProgressInv'
  OBVIOUS
<1>1. CASE UNCHANGED progressVars
  BY <1>1 DEF progressVars, ProgressInv, ProgressTyped, EntriesMean, LatestMeans, ReaderMeans, Known,
     IsLive, Reading
<1> QED
  BY <1>1, TakeKeeps, ForgetKeeps, LaneKeeps, ReaderKeeps DEF ProgressNext

LEMMA ShownFromInv == ProgressInv => ShownIsLive
<1> SUFFICES ASSUME ProgressInv
             PROVE  ShownIsLive
  OBVIOUS
<1>1. DOMAIN held = TrackedJobs \X Outputs
  BY DEF ProgressInv, ProgressTyped
<1> QED
  BY <1>1 DEF ProgressInv, ReaderMeans, EntriesMean, InFlight, Known, ShownIsLive

\* What /progress and the pusher of progresspush show is an entry that was live while
\* Current looked for it, and they show one if one was there all the time, whatever
\* steps of Observe (of either output goroutine) and Forget fall between its loads.
THEOREM ShownCorrect == ProgressSpec => []ShownIsLive
BY ShownFromInv, ProgressInvInit, ProgressInvStep, PTL DEF ProgressSpec

-----------------------------------------------------------------------------
(* JobLogs *)

Durable(r) == <<r, "durable">>
InWorkspace(r) == <<r, "workspace">>

LogsTyped ==
  /\ binding \in States \cup {NoLog} /\ made \in 0..MaxStates /\ parentSet \subseteq States
  /\ attached \in [States -> SUBSET Sinks]
  /\ sinkIs \in [Sinks -> {"none", "opening", "failed", "open", "closed"}]
  /\ target \in [Sinks -> States \cup {NoLog}]
  /\ recorded \in [Sinks -> 0..(LogCap + 1)]
  /\ log \in [LogRuns -> {"out", "bound", "claimed", "working", "closing", "sealed", "gone"}]
  /\ boundTo \in [LogRuns -> States \cup {NoLog}]

\* The files that are open are the attached ones, each to one state; a file that is
\* being opened has the state it is for.
SinksMean ==
  \A k \in Sinks :
    /\ sinkIs[k] = "opening" => target[k] \in States
    /\ sinkIs[k] = "open" => \E s \in States : k \in attached[s]
    /\ \A s \in States : k \in attached[s] =>
         sinkIs[k] = "open" /\ \A t \in States : k \in attached[t] => t = s

\* How far the two files of a run are at each stage of it.
StagesMean ==
  \A r \in LogRuns :
    /\ log[r] # "out" => boundTo[r] \in States
    /\ log[r] = "out" => sinkIs[Durable(r)] = "none"
    /\ log[r] = "bound" => sinkIs[Durable(r)] \in {"none", "opening"}
    /\ log[r] \in {"out", "bound"} => sinkIs[InWorkspace(r)] = "none"
    /\ log[r] \notin {"out", "bound"} => sinkIs[Durable(r)] \in {"open", "closed", "failed"}
    /\ log[r] \notin {"out", "bound", "claimed"} => sinkIs[InWorkspace(r)] # "opening"

\* Runs that are there together have met.
OverlapIsMet == \A r, q \in LogRuns : r # q /\ r \in Present /\ q \in Present => r \in met

\* A run that met nobody finds its own state in the registry until it forgets it, and
\* its files are attached to that state.
RunIsWhole(r) ==
  /\ r \notin lost \cup orphaned
  /\ r \in Present =>
       /\ binding = boundTo[r] /\ binding \in States /\ binding \in parentSet
       /\ \A k \in Sinks : k[1] = r =>
            /\ sinkIs[k] = "opening" => target[k] = binding
            /\ \A s \in States : k \in attached[s] => s = binding
  /\ log[r] \in {"claimed", "working"} => sinkIs[Durable(r)] \in {"open", "failed"}
  /\ log[r] \in {"closing", "sealed", "gone"} => \A k \in Sinks : k[1] = r => sinkIs[k] # "open"
AloneMeans == \A r \in LogRuns : Alone(r) => RunIsWhole(r)

LogsInv == LogsTyped /\ SinksMean /\ StagesMean /\ OverlapIsMet /\ AloneMeans

LEMMA SinkFacts ==
  /\ \A r \in LogRuns : Durable(r) \in Sinks /\ InWorkspace(r) \in Sinks /\ Durable(r) # InWorkspace(r)
                        /\ Durable(r)[1] = r /\ InWorkspace(r)[1] = r
  /\ \A k \in Sinks : k[1] \in LogRuns /\ (k = Durable(k[1]) \/ k = InWorkspace(k[1]))
BY DEF Sinks, Kinds, Durable, InWorkspace

LEMMA LogsInvInit == LogsInit => LogsInv
BY SinkFacts, LogsAssumption DEF LogsInit, LogsInv, LogsTyped, SinksMean, StagesMean, OverlapIsMet,
   AloneMeans, RunIsWhole, Present

\* The registry after a lookup: the binding is a state, and stays if there was one.
LEMMA LookupFacts ==
  ASSUME LogsTyped, LooksUp
  PROVE  /\ StateFor \in States /\ binding' = StateFor /\ made' \in 0..MaxStates
         /\ binding # NoLog => StateFor = binding
BY LogsAssumption DEF LogsTyped, LooksUp, StateFor, States

\* Nobody is there beside a run that met nobody.
LEMMA AloneIsAlone ==
  ASSUME LogsInv, NEW r \in LogRuns, NEW q \in LogRuns, r # q, Alone(r), r \in Present
  PROVE  q \notin Present
BY DEF LogsInv, OverlapIsMet, Alone

LEMMA RecordsStay ==
  ASSUME LogsTyped, NEW s \in States,
         recorded' = [k \in Sinks |-> IF k \in Writable(s) THEN recorded[k] + 1 ELSE recorded[k]]
  PROVE  recorded' \in [Sinks -> 0..(LogCap + 1)]
<1> SUFFICES ASSUME NEW k \in Sinks
             PROVE  (IF k \in Writable(s) THEN recorded[k] + 1 ELSE recorded[k]) \in 0..(LogCap + 1)
  OBVIOUS
<1>1. recorded[k] \in 0..(LogCap + 1) /\ LogCap \in Nat
  BY LogsAssumption DEF LogsTyped
<1>2. k \in Writable(s) => recorded[k] <= LogCap
  BY DEF Writable
<1> QED
  BY <1>1, <1>2

\* A record of a run goes to its own file and carries the parent's id, if the state it
\* is emitted through is the one the run is bound to.
LEMMA EmitKeeps ==
  ASSUME LogsInv, NEW r \in LogRuns, NEW s \in States, MaySpeak(r), Emits(r, s), Alone(r) => s = binding
  PROVE  /\ recorded' \in [Sinks -> 0..(LogCap + 1)]
         /\ \A q \in LogRuns : Alone(q) => q \notin lost' \cup orphaned'
<1>1. recorded' \in [Sinks -> 0..(LogCap + 1)]
  BY RecordsStay DEF LogsInv, Emits
<1>2. lost' \subseteq lost \cup {r} /\ orphaned' \subseteq orphaned \cup {r}
  BY DEF Emits
<1>3. ASSUME Alone(r)
      PROVE  r \notin lost' \cup orphaned'
  <2>1. r \in Present /\ log[r] \in {"claimed", "working"}
    BY DEF MaySpeak, Present
  <2>2. s = binding /\ s \in parentSet /\ r \notin lost \cup orphaned
    BY <1>3, <2>1 DEF LogsInv, AloneMeans, RunIsWhole
  <2>3. orphaned' = orphaned
    BY <2>2 DEF Emits
  <2>4. sinkIs[Durable(r)] \in {"open", "failed"} /\ Durable(r) \in Sinks /\ Durable(r)[1] = r
    BY <1>3, <2>1, SinkFacts DEF LogsInv, AloneMeans, RunIsWhole
  <2>5. sinkIs[Durable(r)] = "open" => Durable(r) \in attached[s]
    <3> SUFFICES ASSUME sinkIs[Durable(r)] = "open"
                 PROVE  Durable(r) \in attached[s]
      OBVIOUS
    <3>1. PICK t \in States : Durable(r) \in attached[t]
      BY <2>4 DEF LogsInv, SinksMean
    <3>2. t = binding
      BY <1>3, <2>1, <2>4, <3>1 DEF LogsInv, AloneMeans, RunIsWhole
    <3> QED
      BY <2>2, <3>1, <3>2
  <2>6. recorded[Durable(r)] \in Int /\ LogCap \in Int
    BY <2>4, LogsAssumption DEF LogsInv, LogsTyped
  <2>7. \/ sinkIs[Durable(r)] = "failed" \/ recorded[Durable(r)] > LogCap \/ Durable(r) \in Writable(s)
    BY <2>4, <2>5, <2>6 DEF Writable
  <2>8. lost' = lost
    BY <2>7 DEF Emits, Durable
  <2> QED
    BY <2>2, <2>3, <2>8
<1> QED
  BY <1>1, <1>2, <1>3 DEF LogsInv, AloneMeans, RunIsWhole

\* A step that only records, and perhaps makes a state where there was none.
LEMMA RecordingKeeps ==
  ASSUME LogsInv, recorded' \in [Sinks -> 0..(LogCap + 1)],
         binding' \in States \cup {NoLog}, made' \in 0..MaxStates, binding # NoLog => binding' = binding,
         UNCHANGED <<parentSet, attached, sinkIs, target, boundTo, met>>,
         log' \in [LogRuns -> {"out", "bound", "claimed", "working", "closing", "sealed", "gone"}],
         \A q \in LogRuns : log'[q] = log[q] \/ (log[q] = "sealed" /\ log'[q] = "gone"),
         \A q \in LogRuns : Alone(q) => q \notin lost' \cup orphaned'
  PROVE  LogsInv'
<1> USE DEF LogsInv
<1>1. LogsTyped' /\ SinksMean'
  BY DEF LogsTyped, SinksMean
<1>2. StagesMean'
  BY DEF StagesMean
<1>3. Present' = Present /\ \A q : Alone(q)' = Alone(q)
  BY DEF Present, Alone
<1>4. OverlapIsMet'
  BY <1>3 DEF OverlapIsMet
<1>5. ASSUME NEW q \in LogRuns, Alone(q)
      PROVE  RunIsWhole(q)'
  <2>1. RunIsWhole(q) /\ q \notin lost' \cup orphaned'
    BY <1>5 DEF AloneMeans
  <2>2. q \in Present => binding' = binding
    BY <2>1, LogsAssumption DEF RunIsWhole
  <2> QED
    BY <1>3, <2>1, <2>2 DEF RunIsWhole
<1> QED
  BY <1>1, <1>2, <1>3, <1>4, <1>5 DEF AloneMeans

LEMMA EmitsKeep ==
  ASSUME LogsInv, NEW r \in LogRuns, EmitByHandle(r) \/ EmitById(r)
  PROVE  LogsInv'
<1>1. MaySpeak(r) /\ r \in Present /\ log[r] # "out"
  BY DEF EmitByHandle, EmitById, MaySpeak, Present
<1>2. UNCHANGED <<parentSet, attached, sinkIs, target, log, boundTo, met>>
  BY DEF EmitByHandle, EmitById
<1>3. Alone(r) => binding = boundTo[r] /\ binding # NoLog
  BY <1>1, LogsAssumption DEF LogsInv, AloneMeans, RunIsWhole
<1>4. CASE EmitByHandle(r)
  <2>1. boundTo[r] \in States /\ Emits(r, boundTo[r]) /\ UNCHANGED <<binding, made>>
    BY <1>1, <1>4 DEF EmitByHandle, LogsInv, StagesMean
  <2>2. /\ recorded' \in [Sinks -> 0..(LogCap + 1)]
        /\ \A q \in LogRuns : Alone(q) => q \notin lost' \cup orphaned'
    BY <1>1, <1>3, <2>1, EmitKeeps
  <2>3. binding' \in States \cup {NoLog} /\ made' \in 0..MaxStates
    BY <2>1 DEF LogsInv, LogsTyped
  <2> QED
    BY <1>2, <2>1, <2>2, <2>3, RecordingKeeps DEF LogsInv, LogsTyped
<1>5. CASE EmitById(r)
  <2>1. /\ StateFor \in States /\ binding' = StateFor /\ made' \in 0..MaxStates
        /\ binding # NoLog => StateFor = binding
    BY <1>5, LookupFacts DEF EmitById, LogsInv
  <2>2. /\ recorded' \in [Sinks -> 0..(LogCap + 1)]
        /\ \A q \in LogRuns : Alone(q) => q \notin lost' \cup orphaned'
    BY <1>1, <1>3, <1>5, <2>1, EmitKeeps DEF EmitById
  <2> QED
    BY <1>2, <2>1, <2>2, RecordingKeeps DEF LogsInv, LogsTyped
<1> QED
  BY <1>4, <1>5

LEMMA AfterwardsKeeps ==
  ASSUME LogsInv, NEW r \in LogRuns, EmitAfterwards(r)
  PROVE  LogsInv'
<1>1. /\ StateFor \in States /\ binding' = StateFor /\ made' \in 0..MaxStates
      /\ binding # NoLog => StateFor = binding
  BY LookupFacts DEF EmitAfterwards, LogsInv
<1>2. recorded' \in [Sinks -> 0..(LogCap + 1)]
  BY <1>1, RecordsStay DEF EmitAfterwards, LogsInv
<1>3. /\ log[r] = "sealed" /\ log' = [log EXCEPT ![r] = "gone"]
      /\ UNCHANGED <<parentSet, attached, sinkIs, target, boundTo, lost, orphaned, met>>
  BY DEF EmitAfterwards, LogTo
<1>4. log' \in [LogRuns -> {"out", "bound", "claimed", "working", "closing", "sealed", "gone"}]
  BY <1>3 DEF LogsInv, LogsTyped
<1>5. \A q \in LogRuns : log'[q] = log[q] \/ (log[q] = "sealed" /\ log'[q] = "gone")
  BY <1>3 DEF LogsInv, LogsTyped
<1>6. \A q \in LogRuns : Alone(q) => q \notin lost' \cup orphaned'
  BY <1>3 DEF LogsInv, AloneMeans, RunIsWhole
<1> QED
  BY <1>1, <1>2, <1>3, <1>4, <1>5, <1>6, RecordingKeeps

\* BindJob: a run that comes while another one is there has met it.
LEMMA BindKeeps ==
  ASSUME LogsInv, NEW r \in LogRuns, BindRun(r)
  PROVE  LogsInv'
<1> USE DEF LogsInv
<1>1. /\ StateFor \in States /\ binding' = StateFor /\ made' \in 0..MaxStates
      /\ binding # NoLog => StateFor = binding
  BY LookupFacts DEF BindRun
<1>2. /\ log[r] = "out" /\ log' = [log EXCEPT ![r] = "bound"]
      /\ parentSet' = parentSet \cup {StateFor} /\ boundTo' = [boundTo EXCEPT ![r] = StateFor]
      /\ met' = IF Present = {} THEN met ELSE met \cup Present \cup {r}
      /\ UNCHANGED <<attached, sinkIs, target, recorded, lost, orphaned>>
  BY DEF BindRun, LogTo
<1>3. LogsTyped' /\ SinksMean'
  BY <1>1, <1>2 DEF LogsTyped, SinksMean
<1>4. StagesMean'
  BY <1>1, <1>2 DEF StagesMean, LogsTyped
<1>5. Present' = Present \cup {r} /\ r \notin Present
  BY <1>2 DEF Present, LogsTyped
<1>6. OverlapIsMet'
  BY <1>2, <1>5 DEF OverlapIsMet
<1>7. ASSUME NEW q \in LogRuns, Alone(q)'
      PROVE  RunIsWhole(q)'
  <2>1. RunIsWhole(q)
    BY <1>2, <1>7 DEF Alone, AloneMeans
  <2>2. CASE q = r
    <3>1. \A k \in Sinks : k[1] = r => sinkIs[k] = "none" /\ \A s \in States : k \notin attached[s]
      BY <1>2, SinkFacts DEF StagesMean, SinksMean
    <3>2. boundTo'[r] = StateFor /\ log'[r] = "bound"
      BY <1>2 DEF LogsTyped
    <3> QED
      BY <1>1, <1>2, <2>1, <2>2, <3>1, <3>2 DEF RunIsWhole
  <2>3. CASE q # r
    <3>1. q \notin Present
      BY <1>2, <1>7 DEF Alone
    <3>2. log'[q] = log[q] /\ q \notin Present'
      BY <1>2, <1>5, <2>3, <3>1 DEF LogsTyped
    <3> QED
      BY <1>2, <2>1, <3>2 DEF RunIsWhole
  <2> QED
    BY <2>2, <2>3
<1> QED
  BY <1>3, <1>4, <1>6, <1>7 DEF AloneMeans

\* The sink a run works on while it attaches.
LEMMA KindFacts ==
  ASSUME LogsTyped, NEW r \in LogRuns, log[r] \in {"bound", "claimed"}
  PROVE  /\ <<r, KindNow(r)>> = IF log[r] = "bound" THEN Durable(r) ELSE InWorkspace(r)
         /\ <<r, KindNow(r)>> \in Sinks /\ <<r, KindNow(r)>>[1] = r
BY DEF KindNow, Durable, InWorkspace, Sinks, Kinds

LEMMA StartAttachKeeps ==
  ASSUME LogsInv, NEW r \in LogRuns, StartAttach(r)
  PROVE  LogsInv'
<1> USE DEF LogsInv
<1>1. /\ StateFor \in States /\ binding' = StateFor /\ made' \in 0..MaxStates
      /\ binding # NoLog => StateFor = binding
  BY LookupFacts DEF StartAttach
<1>2. PICK k : k = <<r, KindNow(r)>>
  OBVIOUS
<1>3. /\ log[r] \in {"bound", "claimed"} /\ sinkIs[k] = "none"
      /\ sinkIs' = [sinkIs EXCEPT ![k] = "opening"] /\ target' = [target EXCEPT ![k] = StateFor]
      /\ UNCHANGED <<parentSet, attached, recorded, log, boundTo, lost, orphaned, met>>
  BY <1>2 DEF StartAttach
<1>4. /\ k = IF log[r] = "bound" THEN Durable(r) ELSE InWorkspace(r)
      /\ k \in Sinks /\ k[1] = r
  BY <1>2, <1>3, KindFacts
<1>5. Present' = Present /\ r \in Present /\ \A q : Alone(q)' = Alone(q)
  BY <1>3 DEF Present, Alone
<1>6. LogsTyped'
  BY <1>1, <1>3, <1>4 DEF LogsTyped
<1>7. /\ sinkIs'[k] = "opening" /\ target'[k] = StateFor
      /\ \A n \in Sinks : n # k => sinkIs'[n] = sinkIs[n] /\ target'[n] = target[n]
  BY <1>3, <1>4 DEF LogsTyped
<1>8. SinksMean'
  BY <1>1, <1>3, <1>4, <1>7 DEF SinksMean
<1>9. StagesMean'
  BY <1>3, <1>4, <1>7, SinkFacts DEF StagesMean
<1>10. OverlapIsMet'
  BY <1>3, <1>5 DEF OverlapIsMet
<1>11. ASSUME NEW q \in LogRuns, Alone(q)
       PROVE  RunIsWhole(q)'
  <2>1. RunIsWhole(q)
    BY <1>11 DEF AloneMeans
  <2>2. q \in Present => binding' = binding
    BY <1>1, <2>1, LogsAssumption DEF RunIsWhole
  <2>3. CASE q = r
    <3>1. sinkIs'[Durable(q)] = sinkIs[Durable(q)] \/ log[q] = "bound"
      BY <1>3, <1>4, <1>7, <2>3, SinkFacts
    <3> QED
      BY <1>1, <1>3, <1>4, <1>5, <1>7, <2>1, <2>2, <2>3, <3>1, SinkFacts DEF RunIsWhole
  <2>4. CASE q # r
    <3>1. \A n \in Sinks : n[1] = q => sinkIs'[n] = sinkIs[n] /\ target'[n] = target[n]
      BY <1>4, <1>7, <2>4
    <3> QED
      BY <1>3, <1>5, <2>1, <2>2, <3>1, SinkFacts DEF RunIsWhole
  <2> QED
    BY <2>3, <2>4
<1> QED
  BY <1>5, <1>6, <1>8, <1>9, <1>10, <1>11 DEF AloneMeans

LEMMA EndAttachKeeps ==
  ASSUME LogsInv, NEW r \in LogRuns, EndAttach(r)
  PROVE  LogsInv'
<1> USE DEF LogsInv
<1>2. PICK k : k = <<r, KindNow(r)>>
  OBVIOUS
<1>3. /\ log[r] \in {"bound", "claimed"} /\ sinkIs[k] = "opening"
      /\ target' = [target EXCEPT ![k] = NoLog]
      /\ log' = [log EXCEPT ![r] = IF log[r] = "bound" THEN "claimed" ELSE "working"]
      /\ UNCHANGED <<binding, made, parentSet, recorded, boundTo, lost, orphaned, met>>
  BY <1>2 DEF EndAttach, Onward, LogTo
<1>4. \/ sinkIs' = [sinkIs EXCEPT ![k] = "open"] /\ attached' = [attached EXCEPT ![target[k]] = @ \cup {k}]
      \/ sinkIs' = [sinkIs EXCEPT ![k] = "failed"] /\ attached' = attached
  BY <1>2 DEF EndAttach
<1>5. /\ k = IF log[r] = "bound" THEN Durable(r) ELSE InWorkspace(r)
      /\ k \in Sinks /\ k[1] = r
  BY <1>2, <1>3, KindFacts
<1>6. target[k] \in States /\ \A s \in States : k \notin attached[s]
  BY <1>3, <1>5 DEF SinksMean
<1>7. LogsTyped'
  <2>1. attached' \in [States -> SUBSET Sinks]
    BY <1>4, <1>5, <1>6 DEF LogsTyped
  <2>2. sinkIs' \in [Sinks -> {"none", "opening", "failed", "open", "closed"}]
    BY <1>4, <1>5 DEF LogsTyped
  <2>3. log' \in [LogRuns -> {"out", "bound", "claimed", "working", "closing", "sealed", "gone"}]
    BY <1>3 DEF LogsTyped
  <2> QED
    BY <1>3, <1>5, <2>1, <2>2, <2>3 DEF LogsTyped
<1>8. /\ sinkIs'[k] \in {"open", "failed"}
      /\ \A n \in Sinks : n # k => sinkIs'[n] = sinkIs[n] /\ target'[n] = target[n]
      /\ \A s \in States : \A n \in Sinks :
           n \in attached'[s] <=> (n \in attached[s] \/ (n = k /\ sinkIs'[k] = "open" /\ s = target[k]))
  BY <1>3, <1>4, <1>5, <1>6 DEF LogsTyped
<1>9. /\ log'[r] = IF log[r] = "bound" THEN "claimed" ELSE "working"
      /\ \A q \in LogRuns : q # r => log'[q] = log[q]
  BY <1>3 DEF LogsTyped
<1>10. Present' = Present /\ r \in Present /\ \A q : Alone(q)' = Alone(q)
  BY <1>3, <1>9 DEF Present, Alone, LogsTyped
<1>11. SinksMean'
  BY <1>5, <1>6, <1>8 DEF SinksMean
<1>12. StagesMean'
  BY <1>3, <1>5, <1>8, <1>9, SinkFacts DEF StagesMean
<1>13. OverlapIsMet'
  BY <1>3, <1>10 DEF OverlapIsMet
<1>14. ASSUME NEW q \in LogRuns, Alone(q)
       PROVE  RunIsWhole(q)'
  <2>1. RunIsWhole(q)
    BY <1>14 DEF AloneMeans
  <2>2. CASE q = r
    <3>1. target[k] = binding
      BY <1>3, <1>5, <1>10, <2>1, <2>2 DEF RunIsWhole
    <3>2. \A n \in Sinks : n[1] = r =>
            /\ sinkIs'[n] = "opening" => target'[n] = binding
            /\ \A s \in States : n \in attached'[s] => s = binding
      BY <1>8, <1>10, <2>1, <2>2, <3>1 DEF RunIsWhole
    <3>3. sinkIs'[Durable(r)] \in {"open", "failed"}
      <4>1. CASE log[r] = "bound"
        BY <1>5, <1>8, <4>1
      <4>2. CASE log[r] = "claimed"
        BY <1>5, <1>8, <2>1, <2>2, <4>2, SinkFacts DEF RunIsWhole
      <4> QED
        BY <1>3, <4>1, <4>2
    <3> QED
      BY <1>3, <1>9, <1>10, <2>1, <2>2, <3>2, <3>3 DEF RunIsWhole
  <2>3. CASE q # r
    <3>1. \A n \in Sinks : n[1] = q =>
            /\ sinkIs'[n] = sinkIs[n] /\ target'[n] = target[n]
            /\ \A s \in States : n \in attached'[s] <=> n \in attached[s]
      BY <1>5, <1>8, <2>3
    <3> QED
      BY <1>3, <1>9, <1>10, <2>1, <2>3, <3>1, SinkFacts DEF RunIsWhole
  <2> QED
    BY <2>2, <2>3
<1> QED
  BY <1>7, <1>10, <1>11, <1>12, <1>13, <1>14 DEF AloneMeans

\* CloseJobLog closes what is attached to the state of the registry: of a run that met
\* nobody, its own files.
LEMMA CloseKeepsLogs ==
  ASSUME LogsInv, NEW r \in LogRuns, CloseSinks(r)
  PROVE  LogsInv'
<1> USE DEF LogsInv
<1>1. /\ log[r] \in {"claimed", "working"} /\ sinkIs[InWorkspace(r)] # "opening"
      /\ log' = [log EXCEPT ![r] = "closing"]
      /\ UNCHANGED <<binding, made, parentSet, target, recorded, boundTo, lost, orphaned, met>>
  BY DEF CloseSinks, LogTo, InWorkspace
<1>2. /\ binding = NoLog => attached' = attached /\ sinkIs' = sinkIs
      /\ binding # NoLog =>
           /\ sinkIs' = [k \in Sinks |-> IF k \in attached[binding] THEN "closed" ELSE sinkIs[k]]
           /\ attached' = [attached EXCEPT ![binding] = {}]
  BY DEF CloseSinks, TakenOff
<1>3. binding # NoLog => binding \in States
  BY DEF LogsTyped
<1>4. LogsTyped'
  BY <1>1, <1>2, <1>3 DEF LogsTyped
<1>5. \A n \in Sinks :
        \/ sinkIs'[n] = sinkIs[n] /\ \A s \in States : n \in attached'[s] <=> n \in attached[s]
        \/ /\ sinkIs'[n] = "closed" /\ sinkIs[n] = "open"
           /\ binding \in States /\ n \in attached[binding] /\ \A s \in States : n \notin attached'[s]
  BY <1>2, <1>3 DEF LogsTyped, SinksMean
<1>6. log'[r] = "closing" /\ \A q \in LogRuns : q # r => log'[q] = log[q]
  BY <1>1 DEF LogsTyped
<1>7. Present' = Present /\ r \in Present /\ \A q : Alone(q)' = Alone(q)
  BY <1>1, <1>6 DEF Present, Alone, LogsTyped
<1>8. SinksMean'
  BY <1>1, <1>5 DEF SinksMean
<1>9. StagesMean'
  <2>1. sinkIs'[InWorkspace(r)] # "opening" /\ sinkIs'[Durable(r)] \in {"open", "closed", "failed"}
    BY <1>1, <1>5, SinkFacts DEF StagesMean
  <2> QED
    BY <1>1, <1>5, <1>6, <2>1, SinkFacts DEF StagesMean
<1>10. OverlapIsMet'
  BY <1>1, <1>7 DEF OverlapIsMet
<1>11. ASSUME NEW q \in LogRuns, Alone(q)
       PROVE  RunIsWhole(q)'
  <2>1. RunIsWhole(q)
    BY <1>11 DEF AloneMeans
  <2>2. CASE q = r
    <3>1. \A n \in Sinks : n[1] = r => sinkIs'[n] # "open"
      <4> SUFFICES ASSUME NEW n \in Sinks, n[1] = r, sinkIs'[n] = "open"
                   PROVE  FALSE
        OBVIOUS
      <4>1. sinkIs[n] = "open"
        BY <1>5
      <4>2. PICK s \in States : n \in attached[s]
        BY <4>1 DEF SinksMean
      <4>3. s = binding /\ binding # NoLog
        BY <1>7, <2>1, <2>2, <4>2, LogsAssumption DEF RunIsWhole
      <4> QED
        BY <1>2, <4>2, <4>3
    <3>2. \A n \in Sinks : n[1] = r =>
            /\ sinkIs'[n] = "opening" => target'[n] = binding
            /\ \A s \in States : n \in attached'[s] => s = binding
      BY <1>1, <1>5, <1>7, <2>1, <2>2 DEF RunIsWhole
    <3> QED
      BY <1>1, <1>6, <1>7, <2>1, <2>2, <3>1, <3>2 DEF RunIsWhole
  <2>3. CASE q # r
    <3>1. q \notin Present
      BY <1>7, <1>11, <2>3, AloneIsAlone
    <3>2. log'[q] = log[q] /\ log[q] \in {"out", "sealed", "gone"}
      BY <1>6, <2>3, <3>1 DEF Present, LogsTyped
    <3> QED
      BY <1>1, <1>5, <1>7, <2>1, <3>1, <3>2 DEF RunIsWhole
  <2> QED
    BY <2>2, <2>3
<1> QED
  BY <1>4, <1>7, <1>8, <1>9, <1>10, <1>11 DEF AloneMeans

LEMMA ForgetJobKeeps ==
  ASSUME LogsInv, NEW r \in LogRuns, ForgetJob(r)
  PROVE  LogsInv'
<1> USE DEF LogsInv
<1>1. /\ log[r] = "closing" /\ log' = [log EXCEPT ![r] = "sealed"] /\ binding' = NoLog
      /\ UNCHANGED <<made, parentSet, attached, sinkIs, target, recorded, boundTo, lost, orphaned, met>>
  BY DEF ForgetJob, LogTo
<1>2. log'[r] = "sealed" /\ \A q \in LogRuns : q # r => log'[q] = log[q]
  BY <1>1 DEF LogsTyped
<1>3. Present' = Present \ {r} /\ r \in Present /\ \A q : Alone(q)' = Alone(q)
  BY <1>1, <1>2 DEF Present, Alone, LogsTyped
<1>4. LogsTyped' /\ SinksMean'
  BY <1>1 DEF LogsTyped, SinksMean
<1>5. StagesMean'
  BY <1>1, <1>2 DEF StagesMean
<1>6. OverlapIsMet'
  BY <1>1, <1>3 DEF OverlapIsMet
<1>7. ASSUME NEW q \in LogRuns, Alone(q)
      PROVE  RunIsWhole(q)'
  <2>1. RunIsWhole(q)
    BY <1>7 DEF AloneMeans
  <2>2. q \notin Present'
    BY <1>3, <1>7, AloneIsAlone
  <2> QED
    BY <1>1, <1>2, <2>1, <2>2 DEF RunIsWhole
<1> QED
  BY <1>3, <1>4, <1>5, <1>6, <1>7 DEF AloneMeans

LEMMA LogsInvStep == LogsInv /\ [LogsNext]_logVars => LogsInv'
<1> SUFFICES ASSUME LogsInv, [LogsNext]_logVars
             PROVE  LogsInv'
  OBVIOUS
<1>1. CASE LogsNext
  BY <1>1, EmitsKeep, AfterwardsKeeps, BindKeeps, StartAttachKeeps, EndAttachKeeps, CloseKeepsLogs,
     ForgetJobKeeps DEF LogsNext
<1>2. CASE UNCHANGED logVars
  BY <1>2 DEF logVars, LogsInv, LogsTyped, SinksMean, StagesMean, OverlapIsMet, AloneMeans, RunIsWhole,
     Alone, Present
<1> QED
  BY <1>1, <1>2

LEMMA LogFromInv == LogsInv => LogIsWhole
<1> SUFFICES ASSUME LogsInv
             PROVE  LogIsWhole
  OBVIOUS
<1>1. \A k \in Sinks : recorded[k] <= LogCap + 1
  BY LogsAssumption DEF LogsInv, LogsTyped
<1>2. \A r \in LogRuns : Alone(r) =>
        /\ r \notin lost \cup orphaned
        /\ log[r] \in {"sealed", "gone"} => \A k \in Sinks : k[1] = r => sinkIs[k] # "open"
  BY DEF LogsInv, AloneMeans, RunIsWhole
<1>3. \A k \in Sinks : sinkIs[k] # "open" => \A s \in States : k \notin attached[s]
  BY DEF LogsInv, SinksMean
<1> QED
  BY <1>1, <1>2, <1>3 DEF LogIsWhole

\* A run that has its job for itself finds its whole log in the durable file of
\* workerlog, under the parent's id, and leaves no file of its own open or attached.
THEOREM LogCorrect == LogsSpec => []LogIsWhole
BY LogFromInv, LogsInvInit, LogsInvStep, PTL DEF LogsSpec

-----------------------------------------------------------------------------
(* The files of a plan *)

\* The path a layer is registered under.
PathOf(i) == FirstOf(refs[i].id).path
IsLayerList(list) ==
  list = [i \in 1..Len(refs) |-> [path |-> list[i].path, hash |-> refs[i].hash, kind |-> refs[i].kind]]

\* What a merge without conflicts leaves: every layer has its registered asset, one id has
\* one path, and a path that is not materialized belongs to one of two assets with the same bytes.
LayersAreRegistered ==
  /\ IsLayerList(layers)
  /\ \A i \in DOMAIN refs : \E k \in DOMAIN compiled : compiled[k] = [hash |-> refs[i].hash, path |-> PathOf(i)]
  /\ \A i, j \in DOMAIN refs : PathOf(i) = PathOf(j) => refs[i].id = refs[j].id
PathsAreMaterialized ==
  /\ \A i \in DOMAIN manifest : manifest[i].hash \in Hashes
  /\ \A k \in DOMAIN compiled :
       \/ \E i \in DOMAIN manifest : manifest[i].path = compiled[k].path
       \/ \E l \in DOMAIN compiled : l # k /\ compiled[l].hash = compiled[k].hash
  /\ DOMAIN mat = DOMAIN manifest
Merged == LayersAreRegistered /\ PathsAreMaterialized /\ OnlyMovedEntriesClash

LEMMA ListFacts ==
  ASSUME NEW list \in RefLists \cup Manifests
  PROVE  /\ Len(list) \in Nat /\ DOMAIN list = 1..Len(list)
         /\ \A i \in DOMAIN list : list[i].hash \in Hashes
BY PrepAssumption DEF IsListOfContents

\* The first of a list that has a property.
LEMMA FirstExists ==
  ASSUME NEW n \in Nat, NEW S \in SUBSET (1..n), S # {}
  PROVE  \E i \in S : \A j \in 1..(i - 1) : j \notin S
<1>1. PICK i \in S : \A j \in S : i <= j
  BY LeastExists
<1> QED
  BY <1>1

LEMMA GreatestExists ==
  ASSUME NEW n \in Nat, NEW S \in SUBSET (1..n), S # {}
  PROVE  \E i \in S : \A j \in S : j <= i
<1> DEFINE T == {n - i : i \in S}
<1>1. T \in SUBSET Nat /\ T # {}
  <2>1. \A i \in S : n - i \in Nat
    OBVIOUS
  <2> QED
    BY <2>1
<1>2. PICK t \in T : \A u \in T : t <= u
  BY <1>1, LeastExists
<1>3. PICK i \in S : t = n - i
  BY <1>2
<1>4. \A j \in S : n - i <= n - j
  BY <1>2, <1>3
<1> QED
  BY <1>3, <1>4

LEMMA FirstOfFacts ==
  ASSUME refs \in RefLists, NEW i \in DOMAIN refs
  PROVE  \E f \in DOMAIN refs : FirstOf(refs[i].id) = refs[f] /\ refs[f].id = refs[i].id
<1> DEFINE S == {j \in DOMAIN refs : refs[j].id = refs[i].id}
<1>1. Len(refs) \in Nat /\ S \in SUBSET (1..Len(refs)) /\ S # {}
  BY ListFacts
<1>2. \E f \in S : \A j \in 1..(f - 1) : j \notin S
  BY <1>1, FirstExists
<1>3. \E f \in DOMAIN refs : refs[f].id = refs[i].id /\ \A j \in 1..(f - 1) : refs[j].id # refs[i].id
  <2>1. PICK f \in S : \A j \in 1..(f - 1) : j \notin S
    BY <1>2
  <2>2. DOMAIN refs = 1..Len(refs) /\ Len(refs) \in Nat
    BY ListFacts
  <2>3. \A j \in 1..(f - 1) : j \in DOMAIN refs
    BY <2>1, <2>2
  <2> QED
    BY <2>1, <2>3
<1> QED
  BY <1>3 DEF FirstOf

\* What the registry hands to the merge.
LEMMA RegistryFacts ==
  ASSUME refs \in RefLists, ~RegistryError, NEW assets \in RegistryOrders
  PROVE  /\ \E n \in Nat : DOMAIN assets = 1..n
         /\ \A i \in DOMAIN refs : \E k \in DOMAIN assets : assets[k] = [hash |-> refs[i].hash, path |-> PathOf(i)]
         /\ \A i, j \in DOMAIN refs : PathOf(i) = PathOf(j) => refs[i].id = refs[j].id
         /\ \A k, l \in DOMAIN assets : assets[k].path = assets[l].path => k = l
         /\ \A k \in DOMAIN assets : assets[k].hash \in Hashes
<1>1. Cardinality(Registered) \in Nat
  <2> DEFINE f == [i \in DOMAIN refs |-> [hash |-> FirstOf(refs[i].id).hash, path |-> FirstOf(refs[i].id).path]]
  <2>1. IsFiniteSet(DOMAIN refs)
    BY ListFacts, FS_Interval
  <2>2. f \in Surjection(DOMAIN refs, Registered)
    BY DEF Surjection, Registered, Ids
  <2>3. IsFiniteSet(Registered)
    <3> HIDE DEF f
    <3> QED
      BY <2>1, <2>2, FS_Surjection
  <2> QED
    BY <2>3, FS_CardinalityType
<1>2. /\ assets \in [1..Cardinality(Registered) -> Registered]
      /\ \A k, l \in 1..Cardinality(Registered) : assets[k] = assets[l] => k = l
      /\ \A r \in Registered : \E k \in 1..Cardinality(Registered) : assets[k] = r
  BY DEF RegistryOrders, Bijection, Injection, Surjection, IsInjective
<1>3. DOMAIN assets = 1..Cardinality(Registered)
  BY <1>2
<1>4. /\ \A i \in DOMAIN refs : refs[i].hash = FirstOf(refs[i].id).hash
      /\ \A a, b \in Ids : FirstOf(a).path = FirstOf(b).path => a = b
  BY DEF RegistryError, SamePath
<1>5. \A i \in DOMAIN refs : refs[i].id \in Ids
  BY DEF Ids
<1>6. \A i \in DOMAIN refs : [hash |-> refs[i].hash, path |-> PathOf(i)] \in Registered
  BY <1>4, <1>5 DEF Registered, PathOf
<1>7. \A i, j \in DOMAIN refs : PathOf(i) = PathOf(j) => refs[i].id = refs[j].id
  BY <1>4, <1>5 DEF PathOf
<1>8. ASSUME NEW k \in DOMAIN assets, NEW l \in DOMAIN assets, assets[k].path = assets[l].path PROVE k = l
  <2>1. assets[k] \in Registered /\ assets[l] \in Registered
    BY <1>2, <1>3
  <2>2. PICK a \in Ids : assets[k] = [hash |-> FirstOf(a).hash, path |-> FirstOf(a).path]
    BY <2>1 DEF Registered
  <2>3. PICK b \in Ids : assets[l] = [hash |-> FirstOf(b).hash, path |-> FirstOf(b).path]
    BY <2>1 DEF Registered
  <2>4. FirstOf(a).path = FirstOf(b).path
    BY <1>8, <2>2, <2>3
  <2>5. a = b
    BY <1>4, <2>4
  <2> QED
    BY <1>2, <1>3, <2>2, <2>3, <2>5
<1>9. ASSUME NEW k \in DOMAIN assets PROVE assets[k].hash \in Hashes
  <2>1. assets[k] \in Registered
    BY <1>2, <1>3
  <2>2. PICK i \in DOMAIN refs : assets[k] = [hash |-> FirstOf(refs[i].id).hash, path |-> FirstOf(refs[i].id).path]
    BY <2>1 DEF Registered, Ids
  <2>3. assets[k].hash = refs[i].hash
    BY <1>4, <2>2
  <2> QED
    BY <2>3, ListFacts
<1> QED
  BY <1>1, <1>2, <1>3, <1>6, <1>7, <1>8, <1>9

\* A compiled asset either moves an entry or is materialized under its path, with its bytes
\* and nobody else's.
LEMMA MergeFacts ==
  ASSUME refs \in RefLists, manifest \in Manifests, ~RegistryError, NEW assets \in RegistryOrders,
         ~MergeConflict(assets), NEW m, m = MergeAssets(assets)
  PROVE  /\ \A i \in DOMAIN m : m[i].hash \in Hashes
         /\ \A k \in DOMAIN assets :
              \/ /\ \E i \in DOMAIN m : m[i].url /\ m[i].hash = assets[k].hash
                 /\ \/ \E i \in DOMAIN m : m[i].path = assets[k].path
                    \/ \E l \in DOMAIN assets : l # k /\ assets[l].hash = assets[k].hash
              \/ /\ \E i \in DOMAIN m : m[i].path = assets[k].path
                 /\ \A i \in DOMAIN m : m[i].path = assets[k].path => m[i].hash = assets[k].hash
<1> DEFINE n == Len(manifest)
           added == {k \in DOMAIN assets : IsAdded(assets[k])}
           Same(i) == {k \in DOMAIN assets : assets[k].hash = manifest[i].hash}
           Moves(i) == Same(i) # {} /\ i = FirstWith(manifest[i].hash) /\ FromUrl(manifest[i])
<1>1. n \in Nat /\ DOMAIN manifest = 1..n /\ \A i \in DOMAIN manifest : manifest[i].hash \in Hashes
  BY ListFacts
<1>2. PICK N \in Nat : DOMAIN assets = 1..N
  BY RegistryFacts
<1>3. /\ \A k, l \in DOMAIN assets : assets[k].path = assets[l].path => k = l
      /\ \A k \in DOMAIN assets : assets[k].hash \in Hashes
  BY RegistryFacts
<1>4. /\ \A i, j \in DOMAIN manifest : manifest[i].path = manifest[j].path => manifest[i].hash = manifest[j].hash
      /\ \A i \in DOMAIN manifest, k \in DOMAIN assets :
           ~MovesToPath(assets[k]) /\ manifest[i].path = assets[k].path => manifest[i].hash = assets[k].hash
  BY DEF MergeConflict
<1>5. ASSUME NEW h, InManifest(h) PROVE FirstWith(h) \in DOMAIN manifest /\ manifest[FirstWith(h)].hash = h
  <2> DEFINE S == {i \in DOMAIN manifest : manifest[i].hash = h}
  <2>1. S \in SUBSET (1..n) /\ S # {}
    BY <1>1, <1>5 DEF InManifest
  <2>2. PICK i \in S : \A j \in 1..(i - 1) : j \notin S
    BY <1>1, <2>1, FirstExists
  <2>3. \A j \in 1..(i - 1) : j \in DOMAIN manifest
    BY <1>1, <2>2
  <2>4. i \in DOMAIN manifest /\ manifest[i].hash = h /\ \A j \in 1..(i - 1) : manifest[j].hash # h
    BY <2>2, <2>3
  <2> QED
    BY <2>4 DEF FirstWith
<1>6. ASSUME NEW i \in DOMAIN manifest, Moves(i)
      PROVE  \E k \in Same(i) : Moved(i, assets) = [hash |-> manifest[i].hash, path |-> assets[k].path, url |-> TRUE]
  <2>1. Same(i) \in SUBSET (1..N) /\ Same(i) # {}
    BY <1>2, <1>6
  <2>2. \E k \in Same(i) : \A l \in Same(i) : l <= k
    BY <1>2, <2>1, GreatestExists
  <2>3. (CHOOSE k \in Same(i) : \A l \in Same(i) : l <= k) \in Same(i)
    BY <2>2
  <2> QED
    BY <1>6, <2>3 DEF Moved
<1>7. ASSUME NEW i \in DOMAIN manifest, ~Moves(i) PROVE Moved(i, assets) = manifest[i]
  BY <1>7 DEF Moved
<1>8. DOMAIN m = DOMAIN manifest \cup {n + k : k \in added}
  BY DEF MergeAssets
<1>9. \A i \in DOMAIN manifest : m[i] = Moved(i, assets)
  BY DEF MergeAssets
<1>10. ASSUME NEW k \in added
       PROVE  n + k \in DOMAIN m /\ m[n + k] = [hash |-> assets[k].hash, path |-> assets[k].path, url |-> FALSE]
  <2>1. k \in 1..N /\ n + k \notin DOMAIN manifest /\ (n + k) - n = k
    BY <1>1, <1>2
  <2> QED
    BY <1>8, <2>1 DEF MergeAssets
<1>11. ASSUME NEW i \in DOMAIN m, i \notin DOMAIN manifest
       PROVE  \E k \in added : m[i] = [hash |-> assets[k].hash, path |-> assets[k].path, url |-> FALSE]
  BY <1>8, <1>10, <1>11
<1> HIDE DEF added, Same, Moves
<1>12. ASSUME NEW i \in DOMAIN manifest PROVE m[i].hash = manifest[i].hash
  BY <1>6, <1>7, <1>9
<1>13. ASSUME NEW i \in DOMAIN m PROVE m[i].hash \in Hashes
  BY <1>1, <1>3, <1>11, <1>12 DEF added
<1>14. ASSUME NEW k \in DOMAIN assets, MovesToPath(assets[k])
       PROVE  /\ \E i \in DOMAIN m : m[i].url /\ m[i].hash = assets[k].hash
              /\ \/ \E i \in DOMAIN m : m[i].path = assets[k].path
                 \/ \E l \in DOMAIN assets : l # k /\ assets[l].hash = assets[k].hash
  <2> DEFINE f == FirstWith(assets[k].hash)
  <2>1. f \in DOMAIN manifest /\ manifest[f].hash = assets[k].hash /\ FromUrl(manifest[f])
    BY <1>5, <1>14 DEF MovesToPath
  <2>2. k \in Same(f) /\ Moves(f)
    BY <2>1 DEF Same, Moves
  <2>3. PICK l \in Same(f) : m[f] = [hash |-> manifest[f].hash, path |-> assets[l].path, url |-> TRUE]
    BY <1>6, <1>9, <2>1, <2>2
  <2>4. l \in DOMAIN assets /\ assets[l].hash = assets[k].hash /\ f \in DOMAIN m
    BY <1>8, <2>1, <2>3 DEF Same
  <2> QED
    BY <2>1, <2>3, <2>4
<1>15. ASSUME NEW k \in DOMAIN assets, ~MovesToPath(assets[k])
       PROVE  /\ \E i \in DOMAIN m : m[i].path = assets[k].path
              /\ \A i \in DOMAIN m : m[i].path = assets[k].path => m[i].hash = assets[k].hash
  <2>1. ASSUME NEW i \in DOMAIN manifest, manifest[i].path = assets[k].path PROVE m[i].path = assets[k].path
    <3>1. manifest[i].hash = assets[k].hash
      BY <1>4, <1>15, <2>1
    <3>2. ~Moves(i)
      BY <1>15, <3>1 DEF Moves, MovesToPath, InManifest
    <3> QED
      BY <1>7, <1>9, <2>1, <3>2
  <2>2. \E i \in DOMAIN m : m[i].path = assets[k].path
    <3>1. CASE \E i \in DOMAIN manifest : manifest[i].path = assets[k].path
      BY <1>8, <2>1, <3>1
    <3>2. CASE \A i \in DOMAIN manifest : manifest[i].path # assets[k].path
      <4>1. k \in added
        BY <1>15, <3>2 DEF added, IsAdded
      <4>2. n + k \in DOMAIN m /\ m[n + k] = [hash |-> assets[k].hash, path |-> assets[k].path, url |-> FALSE]
        BY <1>10, <4>1
      <4>3. m[n + k].path = assets[k].path
        BY <4>2
      <4> QED
        BY <4>2, <4>3
    <3> QED
      BY <3>1, <3>2
  <2>3. ASSUME NEW i \in DOMAIN m, m[i].path = assets[k].path PROVE m[i].hash = assets[k].hash
    <3>1. CASE i \notin DOMAIN manifest
      BY <1>3, <1>11, <2>3, <3>1 DEF added
    <3>2. CASE i \in DOMAIN manifest /\ Moves(i)
      BY <1>3, <1>6, <1>9, <2>3, <3>2 DEF Same
    <3>3. CASE i \in DOMAIN manifest /\ ~Moves(i)
      BY <1>4, <1>7, <1>9, <1>15, <2>3, <3>3
    <3> QED
      BY <3>1, <3>2, <3>3
  <2> QED
    BY <2>2, <2>3
<1> QED
  BY <1>13, <1>14, <1>15

\* Layer j as it leaves the normalization: the bytes are in place, an image has their
\* extension, and a name that is not the registered one is known to be a renamed one.
LayerDone(j) ==
  /\ File(layers[j].path) = refs[j].hash
  /\ refs[j].kind = "image" => FormatOf[refs[j].hash] \in {"", layers[j].path[2]}
  /\ layers[j].path # PathOf(j) =>
       /\ FormatOf[refs[j].hash] # "" /\ layers[j].path[2] = FormatOf[refs[j].hash]
       /\ layers[j].path \in DOMAIN renamed
       /\ \E l \in DOMAIN refs : renamed[layers[j].path] = PathOf(l) /\ refs[l].hash = refs[j].hash

BytesInPlace ==
  \A j \in DOMAIN refs : IF j < layerAt THEN LayerDone(j) ELSE File(PathOf(j)) = refs[j].hash

\* While the layers are normalized, one after the other: what was materialized is there
\* unless an image of an earlier layer took it away.
Normalized ==
  /\ \A i \in DOMAIN manifest :
       \/ File(manifest[i].path) # NoPrepFile
       \/ \E j \in DOMAIN refs : j < layerAt /\ refs[j].kind = "image" /\ PathOf(j) = manifest[i].path
  /\ \A j \in DOMAIN refs :
       IF j < layerAt THEN layers[j].path = PathOf(j) \/ layers[j].path \in DOMAIN renamed
                      ELSE layers[j].path = PathOf(j)
  /\ MergeIsClean /\ ~MisnamedIsShared => BytesInPlace

\* What an asset of the pool has come to.
AssetSettled(i) ==
  /\ mat[i] \in {"unsent", "queued", "resolved", "installed", "failed"}
  /\ mat[i] = "failed" => prepCtx # "alive"
  /\ mat[i] = "installed" =>
       /\ File(manifest[i].path) # NoPrepFile
       /\ MergeIsClean =>
            \A k \in DOMAIN compiled :
              compiled[k].path = manifest[i].path => File(manifest[i].path) = compiled[k].hash
MaterializeInv ==
  /\ layerAt = 1 /\ renamed = << >>
  /\ \A j \in DOMAIN refs : layers[j].path = PathOf(j)
  /\ \A i \in DOMAIN mat : AssetSettled(i)

MissingReasons == {"missing asset", "missing image"}

PrepInv ==
  /\ refs \in RefLists /\ layerAt \in Nat \ {0}
  /\ prep \in {"compile", "materialize", "normalize", "ready", "failed"}
  /\ prep # "failed" => why \notin MissingReasons
  /\ prep = "compile" => manifest \in Manifests /\ compiled = << >> /\ layerAt = 1 /\ renamed = << >>
  /\ prep # "compile" => Merged \/ (prep = "failed" /\ why \notin MissingReasons /\ compiled = << >>)
  /\ prep = "materialize" => MaterializeInv
  /\ prep \in {"normalize", "ready"} /\ prepCtx = "alive" => Normalized
  /\ prep = "ready" => layerAt = Len(refs) + 1
  /\ CanonicalPathsAreMaterialized

LEMMA PrepInvInit == PrepInit => PrepInv
BY DEF PrepInit, PrepInv, MissingReasons, CanonicalPathsAreMaterialized

LEMMA FilePut ==
  ASSUME NEW q, NEW v, prepFiles' = Put(prepFiles, q, v)
  PROVE  \A p : (File(p))' = IF p = q THEN v ELSE File(p)
BY DEF File, Put

LEMMA SameRefs ==
  ASSUME refs' = refs
  PROVE  (\A i : PathOf(i)' = PathOf(i)) /\ MisnamedIsShared' = MisnamedIsShared
BY DEF PathOf, FirstOf, MisnamedIsShared, Misnamed

LEMMA MergedStays ==
  ASSUME Merged, UNCHANGED <<refs, layers, compiled, manifest>>, DOMAIN mat' = DOMAIN mat
  PROVE  Merged' /\ MergeIsClean' = MergeIsClean
BY SameRefs DEF Merged, LayersAreRegistered, PathsAreMaterialized, OnlyMovedEntriesClash, MergeIsClean, IsLayerList

LEMMA CanonicalStays ==
  ASSUME CanonicalPathsAreMaterialized, UNCHANGED <<refs, compiled>>, prep' # "failed" \/ why' \notin MissingReasons
  PROVE  CanonicalPathsAreMaterialized'
BY DEF CanonicalPathsAreMaterialized, MissingReasons

LEMMA CompileKeeps == PrepInv /\ Compile => PrepInv'
<1> SUFFICES ASSUME PrepInv, Compile PROVE PrepInv'
  OBVIOUS
<1>1. /\ refs \in RefLists /\ manifest \in Manifests /\ compiled = << >> /\ layerAt = 1 /\ renamed = << >>
      /\ prep = "compile" /\ CanonicalPathsAreMaterialized /\ why \notin MissingReasons
  BY DEF PrepInv, Compile
<1>2. UNCHANGED <<refs, layerAt, renamed, prepCtx, prepFiles>>
  BY DEF Compile
<1>3. PICK assets \in RegistryOrders :
        IF RegistryError \/ MergeConflict(assets)
        THEN Refuse("conflict") /\ UNCHANGED <<layers, manifest, compiled, mat>>
        ELSE /\ prep' = "materialize" /\ UNCHANGED why
             /\ layers' = [i \in DOMAIN refs |-> [path |-> FirstOf(refs[i].id).path,
                                                  hash |-> refs[i].hash, kind |-> refs[i].kind]]
             /\ compiled' = assets
             /\ manifest' = MergeAssets(assets)
             /\ mat' = [i \in DOMAIN manifest' |-> "unsent"]
  BY DEF Compile
<1>4. CASE RegistryError \/ MergeConflict(assets)
  <2>1. prep' = "failed" /\ why' = "conflict" /\ compiled' = << >>
    BY <1>1, <1>3, <1>4 DEF Refuse
  <2> QED
    BY <1>1, <1>2, <2>1 DEF PrepInv, MissingReasons, CanonicalPathsAreMaterialized
<1>5. CASE ~(RegistryError \/ MergeConflict(assets))
  <2>1. /\ prep' = "materialize" /\ why' = why /\ compiled' = assets /\ manifest' = MergeAssets(assets)
        /\ layers' = [i \in DOMAIN refs |-> [path |-> PathOf(i), hash |-> refs[i].hash, kind |-> refs[i].kind]]
        /\ mat' = [i \in DOMAIN manifest' |-> "unsent"]
    BY <1>3, <1>5 DEF PathOf
  <2>2. DOMAIN refs = 1..Len(refs) /\ Len(refs) \in Nat
    BY <1>1, ListFacts
  <2>3. LayersAreRegistered'
    <3>1. IsLayerList(layers')
      BY <2>1, <2>2 DEF IsLayerList
    <3>2. IsLayerList(layers)'
      BY <1>2, <3>1 DEF IsLayerList
    <3>3. /\ \A i \in DOMAIN refs : \E k \in DOMAIN assets : assets[k] = [hash |-> refs[i].hash, path |-> PathOf(i)]
          /\ \A i, j \in DOMAIN refs : PathOf(i) = PathOf(j) => refs[i].id = refs[j].id
      BY <1>1, <1>5, RegistryFacts
    <3>4. \A i : PathOf(i)' = PathOf(i)
      BY <1>2, SameRefs
    <3>5. \A i \in DOMAIN refs' : \E k \in DOMAIN compiled' :
             compiled'[k] = [hash |-> refs'[i].hash, path |-> PathOf(i)']
      BY <1>2, <2>1, <3>3, <3>4
    <3>6. \A i, j \in DOMAIN refs' : PathOf(i)' = PathOf(j)' => refs'[i].id = refs'[j].id
      BY <1>2, <3>3, <3>4
    <3> QED
      BY <3>2, <3>5, <3>6 DEF LayersAreRegistered
  <2> DEFINE m == manifest'
  <2>4. /\ \A i \in DOMAIN m : m[i].hash \in Hashes
        /\ \A k \in DOMAIN assets :
              \/ /\ \E i \in DOMAIN m : m[i].url /\ m[i].hash = assets[k].hash
                 /\ \/ \E i \in DOMAIN m : m[i].path = assets[k].path
                    \/ \E l \in DOMAIN assets : l # k /\ assets[l].hash = assets[k].hash
              \/ /\ \E i \in DOMAIN m : m[i].path = assets[k].path
                 /\ \A i \in DOMAIN m : m[i].path = assets[k].path => m[i].hash = assets[k].hash
    BY <1>1, <1>5, <2>1, MergeFacts
  <2> HIDE DEF m
  <2>5. PathsAreMaterialized'
    BY <2>1, <2>4 DEF PathsAreMaterialized, m
  <2>6. OnlyMovedEntriesClash'
    <3> SUFFICES ASSUME ~MergeIsClean'
                 PROVE  \E i \in DOMAIN manifest', k \in DOMAIN compiled' :
                          manifest'[i].url /\ manifest'[i].hash = compiled'[k].hash
      BY DEF OnlyMovedEntriesClash
    <3>1. PICK k \in DOMAIN assets :
            ~(/\ \E i \in DOMAIN m : m[i].path = assets[k].path
              /\ \A i \in DOMAIN m : m[i].path = assets[k].path => m[i].hash = assets[k].hash)
      BY <2>1 DEF MergeIsClean, m
    <3>2. \E i \in DOMAIN m : m[i].url /\ m[i].hash = assets[k].hash
      BY <2>4, <3>1
    <3> QED
      BY <2>1, <3>2 DEF m
  <2>7. MaterializeInv'
    BY <1>1, <1>2, <2>1, SameRefs DEF MaterializeInv, AssetSettled
  <2>8. CanonicalPathsAreMaterialized'
    BY <2>1 DEF CanonicalPathsAreMaterialized
  <2> QED
    BY <1>1, <1>2, <2>1, <2>3, <2>5, <2>6, <2>7, <2>8 DEF PrepInv, Merged
<1> QED
  BY <1>4, <1>5

\* A step of the pool that moves one asset and installs nothing.
LEMMA PoolMoves ==
  ASSUME PrepInv, prep = "materialize", NEW i \in DOMAIN mat, NEW s \in {"queued", "resolved", "failed"},
         mat' = [mat EXCEPT ![i] = s], s = "failed" => prepCtx' # "alive",
         prepCtx' = "alive" => prepCtx = "alive", why' \in {why, "digest", "unresolved", "install"},
         UNCHANGED <<prep, refs, layers, manifest, compiled, prepFiles, layerAt, renamed>>
  PROVE  PrepInv'
<1>1. Merged /\ MaterializeInv /\ CanonicalPathsAreMaterialized /\ why \notin MissingReasons
  BY DEF PrepInv
<1>2. DOMAIN mat' = DOMAIN mat /\ why' \notin MissingReasons
  BY <1>1 DEF MissingReasons
<1>3. Merged' /\ MergeIsClean' = MergeIsClean
  BY <1>1, <1>2, MergedStays
<1>4. CanonicalPathsAreMaterialized'
  BY <1>1, <1>2, CanonicalStays
<1>5. \A j : PathOf(j)' = PathOf(j)
  BY SameRefs
<1>6. ASSUME NEW j \in DOMAIN mat' PROVE AssetSettled(j)'
  <2>1. AssetSettled(j)
    BY <1>1, <1>2 DEF MaterializeInv
  <2>2. (File(manifest[j].path))' = File(manifest[j].path)
    BY DEF File
  <2>3. CASE j = i
    BY <1>2, <2>3 DEF AssetSettled
  <2>4. CASE j # i
    BY <1>2, <1>3, <2>1, <2>2, <2>4 DEF AssetSettled
  <2> QED
    BY <2>3, <2>4
<1>7. MaterializeInv'
  BY <1>1, <1>5, <1>6 DEF MaterializeInv
<1> QED
  BY <1>2, <1>3, <1>4, <1>7 DEF PrepInv

LEMMA FailureKeeps ==
  ASSUME PrepInv, prep = "materialize", NEW i \in DOMAIN mat, NEW reason \in {"digest", "unresolved", "install"},
         AssetFails(i, reason)
  PROVE  PrepInv'
<1>1. /\ mat' = [mat EXCEPT ![i] = "failed"] /\ prepCtx' # "alive" /\ why' \in {why, "digest", "unresolved", "install"}
      /\ UNCHANGED <<prep, refs, layers, manifest, compiled, prepFiles, layerAt, renamed>>
  BY DEF AssetFails
<1> QED
  BY <1>1, PoolMoves

LEMMA ResolveKeeps ==
  ASSUME PrepInv, NEW i \in DOMAIN mat, ResolveAsset(i)
  PROVE  PrepInv'
<1>1. prep = "materialize"
  BY DEF ResolveAsset, Materializing
<1>2. \/ /\ mat' = [mat EXCEPT ![i] = "resolved"]
         /\ UNCHANGED <<prep, why, refs, layers, manifest, compiled, prepFiles, layerAt, renamed, prepCtx>>
      \/ AssetFails(i, "digest") \/ AssetFails(i, "unresolved")
  BY DEF ResolveAsset, DigestMatches
<1> QED
  BY <1>1, <1>2, PoolMoves, FailureKeeps

LEMMA InstallKeeps ==
  ASSUME PrepInv, NEW i \in DOMAIN mat, InstallAsset(i)
  PROVE  PrepInv'
<1>1. prep = "materialize" /\ Merged /\ MaterializeInv /\ CanonicalPathsAreMaterialized /\ why \notin MissingReasons
  BY DEF InstallAsset, Materializing, PrepInv
<1>2. mat[i] = "resolved"
  BY <1>1 DEF InstallAsset, MaterializeInv, AssetSettled
<1>3. CASE AssetFails(i, "install")
  BY <1>1, <1>3, FailureKeeps
<1>4. CASE /\ prepFiles' = Put(prepFiles, manifest[i].path, manifest[i].hash)
           /\ mat' = [mat EXCEPT ![i] = "installed"]
           /\ UNCHANGED <<prep, why, refs, layers, manifest, compiled, cached, layerAt, renamed, prepCtx>>
  <2>1. DOMAIN mat' = DOMAIN mat /\ DOMAIN mat = DOMAIN manifest
    BY <1>1, <1>4 DEF Merged, PathsAreMaterialized
  <2>2. Merged' /\ MergeIsClean' = MergeIsClean
    BY <1>1, <1>4, <2>1, MergedStays
  <2>3. CanonicalPathsAreMaterialized'
    BY <1>1, <1>4, CanonicalStays
  <2>4. \A j : PathOf(j)' = PathOf(j)
    BY <1>4, SameRefs
  <2>5. \A p : (File(p))' = IF p = manifest[i].path THEN manifest[i].hash ELSE File(p)
    BY <1>4, FilePut
  <2>6. manifest[i].hash # NoPrepFile
    BY <1>1, <2>1, PrepAssumption DEF Merged, PathsAreMaterialized
  <2>7. ASSUME MergeIsClean, NEW k \in DOMAIN compiled, compiled[k].path = manifest[i].path
        PROVE  compiled[k].hash = manifest[i].hash
    BY <2>1, <2>7 DEF MergeIsClean
  <2>8. ASSUME NEW j \in DOMAIN mat' PROVE AssetSettled(j)'
    <3>1. AssetSettled(j)
      BY <1>1, <2>1, <2>8 DEF MaterializeInv
    <3>2. (File(manifest[j].path))' = IF manifest[j].path = manifest[i].path THEN manifest[i].hash ELSE File(manifest[j].path)
      BY <1>4, <2>5 DEF File
    <3>3. mat'[j] = IF j = i THEN "installed" ELSE mat[j]
      BY <1>4, <2>1, <2>8
    <3>4. CASE manifest[j].path = manifest[i].path
      <4>1. (File(manifest[j].path))' = manifest[i].hash
        BY <3>2, <3>4
      <4> QED
        BY <1>4, <2>2, <2>6, <2>7, <3>1, <3>3, <3>4, <4>1 DEF AssetSettled
    <3>5. CASE manifest[j].path # manifest[i].path
      <4>1. (File(manifest[j].path))' = File(manifest[j].path) /\ mat'[j] = mat[j]
        BY <3>2, <3>3, <3>5
      <4> QED
        BY <1>4, <2>2, <3>1, <4>1 DEF AssetSettled
    <3> QED
      BY <3>4, <3>5
  <2>9. MaterializeInv'
    BY <1>1, <1>4, <2>4, <2>8 DEF MaterializeInv
  <2> QED
    BY <1>1, <1>4, <2>2, <2>3, <2>9 DEF PrepInv
<1> QED
  BY <1>2, <1>3, <1>4 DEF InstallAsset

LEMMA CancelKeeps == PrepInv /\ CancelPrepare => PrepInv'
<1> SUFFICES ASSUME PrepInv, CancelPrepare PROVE PrepInv'
  OBVIOUS
<1>1. prep = "materialize" /\ Merged /\ MaterializeInv /\ CanonicalPathsAreMaterialized /\ why \notin MissingReasons
  BY DEF CancelPrepare, Materializing, PrepInv
<1>2. /\ prepCtx' = "cancelled"
      /\ UNCHANGED <<prep, why, refs, layers, manifest, compiled, mat, prepFiles, layerAt, renamed>>
  BY DEF CancelPrepare
<1>3. Merged' /\ MergeIsClean' = MergeIsClean
  BY <1>1, <1>2, MergedStays
<1>4. CanonicalPathsAreMaterialized'
  BY <1>1, <1>2, CanonicalStays
<1>5. \A j : PathOf(j)' = PathOf(j)
  BY <1>2, SameRefs
<1>6. ASSUME NEW j \in DOMAIN mat PROVE AssetSettled(j)'
  <2>1. AssetSettled(j) /\ (File(manifest[j].path))' = File(manifest[j].path)
    BY <1>1, <1>2 DEF MaterializeInv, File
  <2> QED
    BY <1>2, <1>3, <2>1 DEF AssetSettled
<1>7. MaterializeInv'
  BY <1>1, <1>2, <1>5, <1>6 DEF MaterializeInv
<1> QED
  BY <1>1, <1>2, <1>3, <1>4, <1>7 DEF PrepInv

\* On a live context the pool has installed everything when it returns.
LEMMA ReturnKeeps == PrepInv /\ MaterializeReturns => PrepInv'
<1> SUFFICES ASSUME PrepInv, MaterializeReturns PROVE PrepInv'
  OBVIOUS
<1>1. prep = "materialize" /\ Merged /\ MaterializeInv /\ CanonicalPathsAreMaterialized /\ why \notin MissingReasons
  BY DEF MaterializeReturns, Materializing, PrepInv
<1>2. /\ prep' \in {"failed", "normalize"}
      /\ UNCHANGED <<why, refs, layers, manifest, compiled, mat, prepFiles, layerAt, renamed, prepCtx>>
  BY DEF MaterializeReturns
<1>3. Merged' /\ MergeIsClean' = MergeIsClean
  BY <1>1, <1>2, MergedStays
<1>4. CanonicalPathsAreMaterialized'
  BY <1>1, <1>2, CanonicalStays
<1>5. (\A j : PathOf(j)' = PathOf(j)) /\ MisnamedIsShared' = MisnamedIsShared
  BY <1>2, SameRefs
<1>6. \A p : (File(p))' = File(p)
  BY <1>2 DEF File
<1>7. ASSUME prepCtx = "alive" PROVE Normalized'
  <2>1. ASSUME NEW i \in DOMAIN manifest PROVE mat[i] = "installed"
    BY <1>1, <1>7, <2>1 DEF MaterializeReturns, Settled, MaterializeInv, AssetSettled, Merged, PathsAreMaterialized
  <2>2. \A i \in DOMAIN manifest : File(manifest[i].path) # NoPrepFile
    BY <1>1, <2>1 DEF MaterializeInv, AssetSettled, Merged, PathsAreMaterialized
  <2>3. \A i \in DOMAIN manifest' : (File(manifest[i].path))' # NoPrepFile
    BY <1>2, <2>2 DEF File
  <2>4. Len(refs) \in Nat /\ DOMAIN refs = 1..Len(refs)
    BY ListFacts DEF PrepInv
  <2>5. \A j \in DOMAIN refs : ~(j < layerAt) /\ layers[j].path = PathOf(j)
    BY <1>1, <2>4 DEF MaterializeInv
  <2>6. ASSUME MergeIsClean, NEW j \in DOMAIN refs PROVE File(PathOf(j)) = refs[j].hash
    <3>1. PICK k \in DOMAIN compiled : compiled[k] = [hash |-> refs[j].hash, path |-> PathOf(j)]
      BY <1>1 DEF Merged, LayersAreRegistered
    <3>2. PICK i \in DOMAIN manifest : manifest[i].path = compiled[k].path
      BY <2>6 DEF MergeIsClean
    <3>3. AssetSettled(i)
      BY <1>1 DEF MaterializeInv, Merged, PathsAreMaterialized
    <3>4. File(manifest[i].path) = compiled[k].hash
      BY <2>1, <2>6, <3>2, <3>3 DEF AssetSettled
    <3> QED
      BY <3>1, <3>2, <3>4
  <2>7. ASSUME MergeIsClean PROVE BytesInPlace'
    <3>1. ASSUME NEW j \in DOMAIN refs' PROVE ~(j < layerAt') /\ (File(PathOf(j)))' = refs'[j].hash
      <4>1. (File(PathOf(j)))' = File(PathOf(j))
        BY <1>2, <1>5 DEF File
      <4> QED
        BY <1>2, <2>5, <2>6, <2>7, <4>1
    <3> QED
      BY <3>1 DEF BytesInPlace
  <2>8. \A j \in DOMAIN refs' : ~(j < layerAt') /\ layers'[j].path = PathOf(j)'
    BY <1>2, <1>5, <2>5
  <2> QED
    BY <1>3, <2>3, <2>7, <2>8 DEF Normalized
<1> QED
  BY <1>1, <1>2, <1>3, <1>4, <1>7 DEF PrepInv

LEMMA LayerListFacts ==
  ASSUME refs \in RefLists, IsLayerList(layers)
  PROVE  /\ Len(refs) \in Nat /\ DOMAIN refs = 1..Len(refs)
         /\ DOMAIN layers = DOMAIN refs /\ Len(layers) = Len(refs)
         /\ \A i \in DOMAIN refs : layers[i] = [path |-> layers[i].path, hash |-> refs[i].hash, kind |-> refs[i].kind]
<1>1. Len(refs) \in Nat /\ DOMAIN refs = 1..Len(refs)
  BY ListFacts
<1> DEFINE n == Len(refs)
           e(i) == [path |-> layers[i].path, hash |-> refs[i].hash, kind |-> refs[i].kind]
<1>2. layers = [i \in 1..n |-> e(i)]
  BY DEF IsLayerList
<1>3. n \in Nat
  BY <1>1
<1>4. layers \in [1..n -> {e(i) : i \in 1..n}]
  BY <1>2
<1>5. layers \in Seq({e(i) : i \in 1..n})
  BY <1>3, <1>4
<1>6. Len(layers) = n
  BY <1>2, <1>3, <1>5
<1> QED
  BY <1>1, <1>2, <1>6

\* A layer that names a file no longer there was renamed under another one, or its bytes
\* are materialized under the path of a twin.
LEMMA PathIsKnown ==
  ASSUME Merged, refs \in RefLists, NEW i \in DOMAIN refs
  PROVE  \/ \E e \in DOMAIN manifest : manifest[e].path = PathOf(i)
         \/ \E k, l \in DOMAIN compiled : k # l /\ compiled[k].hash = compiled[l].hash
<1>1. PICK k \in DOMAIN compiled : compiled[k] = [hash |-> refs[i].hash, path |-> PathOf(i)]
  BY DEF Merged, LayersAreRegistered
<1>2. compiled[k].path = PathOf(i)
  BY <1>1
<1> QED
  BY <1>2 DEF Merged, PathsAreMaterialized

\* The step that renames the file of the layer at hand, with these bytes, to the target.
FileMoves(newPath, content) ==
  \A p : (File(p))' = IF p = newPath THEN content ELSE IF p = PathOf(layerAt) THEN NoPrepFile ELSE File(p)
NameMoves(newPath) ==
  /\ renamed' = Put(renamed, newPath, PathOf(layerAt))
  /\ \A j \in DOMAIN refs : layers'[j] = [path |-> IF j = layerAt THEN newPath ELSE layers[j].path,
                                         hash |-> refs[j].hash, kind |-> refs[j].kind]
MisnamedFile(newPath, content) ==
  /\ layerAt \in DOMAIN refs /\ refs[layerAt].kind = "image"
  /\ content = File(PathOf(layerAt)) /\ content \in Hashes
  /\ FormatOf[content] \notin {"", PathOf(layerAt)[2]}
  /\ newPath = <<PathOf(layerAt)[1], FormatOf[content]>> /\ File(newPath) \in {NoPrepFile, content}

LEMMA RenameInPlace ==
  ASSUME PrepInv, Merged, BytesInPlace, ~MisnamedIsShared,
         NEW newPath, NEW content, MisnamedFile(newPath, content), FileMoves(newPath, content), NameMoves(newPath),
         layerAt' = layerAt + 1, UNCHANGED <<refs, compiled, manifest>>
  PROVE  BytesInPlace'
<1>l. PICK L, P : L = layerAt /\ P = PathOf(layerAt)
  OBVIOUS
<1>0. L \in DOMAIN refs /\ content = File(P) /\ content \in Hashes
  BY <1>l DEF MisnamedFile
<1>1. DOMAIN refs = 1..Len(refs) /\ Len(refs) \in Nat /\ \A j \in DOMAIN refs : refs[j].hash \in Hashes
  BY <1>l, ListFacts DEF PrepInv
<1>2. L \in Nat /\ ~(L < L) /\ refs[L].hash = content
  BY <1>l, <1>0, <1>1 DEF BytesInPlace
<1>3. Misnamed(L)
  BY <1>l, <1>2 DEF Misnamed, MisnamedFile, PathOf
<1>4. ASSUME NEW j \in DOMAIN refs, j # L PROVE PathOf(j) # P
  <2>1. refs[j].id # refs[L].id
    BY <1>l, <1>0, <1>3, <1>4 DEF MisnamedIsShared
  <2> QED
    BY <1>l, <1>0, <2>1 DEF Merged, LayersAreRegistered
<1>5. \A j : PathOf(j)' = PathOf(j)
  BY <1>l, SameRefs
<1>6. NoPrepFile \notin Hashes
  BY <1>l, PrepAssumption
<1>7. newPath # P /\ newPath[2] = FormatOf[content] /\ content # NoPrepFile
  <2>1. newPath = <<P[1], FormatOf[content]>> /\ FormatOf[content] # P[2] /\ content # NoPrepFile
    BY <1>l, <1>0, <1>6 DEF MisnamedFile
  <2>2. newPath[2] = FormatOf[content]
    BY <1>l, <2>1
  <2> QED
    BY <1>l, <2>1, <2>2
<1>8. /\ newPath \in DOMAIN renamed' /\ renamed'[newPath] = P
      /\ \A p \in DOMAIN renamed : p \in DOMAIN renamed' /\ (p # newPath => renamed'[p] = renamed[p])
  BY <1>l DEF Put, NameMoves
<1>9. ASSUME NEW j \in DOMAIN refs, j > L PROVE (File(PathOf(j)))' = refs[j].hash
  <2>1. File(PathOf(j)) = refs[j].hash /\ PathOf(j) # P
    BY <1>l, <1>1, <1>2, <1>4, <1>9 DEF BytesInPlace
  <2>2. (File(PathOf(j)))' = IF PathOf(j) = newPath THEN content ELSE IF PathOf(j) = P THEN NoPrepFile ELSE File(PathOf(j))
    <3>1. (File(PathOf(j)))' = IF PathOf(j)' = newPath THEN content ELSE IF PathOf(j)' = P THEN NoPrepFile ELSE File(PathOf(j)')
      BY <1>l, <1>5 DEF FileMoves, File
    <3> QED
      BY <1>l, <1>5, <3>1
  <2>3. File(newPath) \in {NoPrepFile, content}
    BY <1>l DEF MisnamedFile
  <2> QED
    BY <1>l, <1>1, <1>6, <2>1, <2>2, <2>3
<1>10. LayerDone(L)'
  <2>1. layers'[L].path = newPath /\ (File(layers[L].path))' = content
    <3>1. layers'[L] = [path |-> IF L = layerAt THEN newPath ELSE layers[L].path, hash |-> refs[L].hash, kind |-> refs[L].kind]
      BY <1>l, <1>0 DEF NameMoves
    <3>2. layers'[L].path = newPath
      BY <1>l, <3>1
    <3>3. (File(newPath))' = content
      BY <1>l DEF FileMoves
    <3>4. (File(layers[L].path))' = (File(newPath))'
      BY <1>l, <3>2 DEF File
    <3> QED
      BY <1>l, <3>2, <3>3, <3>4
  <2>2. \E l \in DOMAIN refs' : renamed'[layers'[L].path] = PathOf(l)' /\ refs'[l].hash = refs'[L].hash
    BY <1>l, <1>0, <1>5, <1>8, <2>1
  <2>3. refs'[L].hash = content
    BY <1>l, <1>2
  <2>4. layers'[L].path[2] = FormatOf[content] /\ FormatOf[content] # ""
    BY <1>l, <1>7, <2>1 DEF MisnamedFile
  <2>5. layers'[L].path \in DOMAIN renamed'
    BY <1>l, <1>8, <2>1
  <2>6. \A j : j = L => LayerDone(j)'
    BY <1>l, <2>1, <2>2, <2>3, <2>4, <2>5 DEF LayerDone
  <2> QED
    BY <1>l, <2>6
<1>11. ASSUME NEW j \in DOMAIN refs, j < L PROVE LayerDone(j)'
  <2>1. LayerDone(j)
    BY <1>l, <1>11 DEF BytesInPlace
  <2>2. layers'[j].path = layers[j].path
    <3>1. layers'[j] = [path |-> IF j = layerAt THEN newPath ELSE layers[j].path, hash |-> refs[j].hash, kind |-> refs[j].kind]
      BY <1>l, <1>11 DEF NameMoves
    <3> QED
      BY <1>l, <1>2, <1>11, <3>1
  <2>3. layers[j].path # P
    <3> SUFFICES ASSUME layers[j].path = P PROVE FALSE
      OBVIOUS
    <3>1. layers[j].path # PathOf(j)
      BY <1>l, <1>2, <1>4, <1>11
    <3>2. P[2] = FormatOf[refs[j].hash] /\ content = refs[j].hash
      BY <1>l, <1>0, <2>1, <3>1 DEF LayerDone
    <3> QED
      BY <1>l, <1>2, <3>2 DEF MisnamedFile
  <2>4. (File(layers[j].path))' = IF layers[j].path = newPath THEN content ELSE File(layers[j].path)
    BY <1>l, <2>2, <2>3 DEF File, FileMoves
  <2>5. layers[j].path = newPath => content = refs[j].hash
    BY <1>l, <1>1, <1>6, <2>1 DEF LayerDone, MisnamedFile
  <2>6. (File(layers[j].path))' = refs[j].hash
    BY <1>l, <2>1, <2>4, <2>5 DEF LayerDone
  <2>7. ASSUME layers[j].path # PathOf(j)
        PROVE  /\ layers[j].path \in DOMAIN renamed'
               /\ \E l \in DOMAIN refs' : renamed'[layers[j].path] = PathOf(l)' /\ refs'[l].hash = refs'[j].hash
    <3>1. PICK l \in DOMAIN refs : renamed[layers[j].path] = PathOf(l) /\ refs[l].hash = refs[j].hash
      BY <1>l, <2>1, <2>7 DEF LayerDone
    <3>2. layers[j].path \in DOMAIN renamed
      BY <1>l, <2>1, <2>7 DEF LayerDone
    <3>3. CASE layers[j].path = newPath
      BY <1>l, <1>0, <1>2, <1>5, <1>8, <2>5, <3>3
    <3>4. CASE layers[j].path # newPath
      BY <1>l, <1>5, <1>8, <3>1, <3>2, <3>4
    <3> QED
      BY <1>l, <3>3, <3>4
  <2> QED
    BY <1>l, <1>5, <2>1, <2>2, <2>6, <2>7 DEF LayerDone
<1>12. ASSUME NEW j \in DOMAIN refs' PROVE IF j < layerAt' THEN LayerDone(j)' ELSE (File(PathOf(j)))' = refs'[j].hash
  <2>1. j \in Nat /\ j \in DOMAIN refs
    BY <1>l, <1>1
  <2>2. CASE j < L
    BY <1>l, <1>2, <1>11, <2>1, <2>2
  <2>3. CASE j = L
    BY <1>l, <1>2, <1>10, <2>1, <2>3
  <2>4. CASE j > L
    <3>1. ~(j < L + 1)
      BY <1>l, <1>2, <2>1, <2>4
    <3> QED
      BY <1>l, <1>9, <2>1, <2>4, <3>1
  <2> QED
    BY <1>l, <1>2, <2>1, <2>2, <2>3, <2>4
<1> QED
  BY <1>l, <1>12 DEF BytesInPlace

LEMMA NormalizeKeeps == PrepInv /\ NormalizeLayer => PrepInv'
<1> SUFFICES ASSUME PrepInv, NormalizeLayer PROVE PrepInv'
  OBVIOUS
<1>1. PICK L, P : L = layerAt /\ P = layers[layerAt].path
  OBVIOUS
<1> DEFINE layer == layers[L]
           content == File(P)
           newPath == RenameTarget(layer, content)
           leaveAlone == layer.kind # "image" \/ (content # NoPrepFile /\ ~NeedsRename(layer, content))
<1>2. /\ prep = "normalize" /\ Merged /\ CanonicalPathsAreMaterialized /\ why \notin MissingReasons
      /\ L \in DOMAIN layers /\ refs \in RefLists /\ L \in Nat \ {0}
      /\ prepCtx = "alive" => Normalized
  BY <1>1 DEF NormalizeLayer, PrepInv
<1>3. UNCHANGED <<refs, manifest, compiled, mat, prepCtx>>
  BY DEF NormalizeLayer
<1>4. /\ Len(refs) \in Nat /\ DOMAIN refs = 1..Len(refs) /\ DOMAIN layers = DOMAIN refs
      /\ \A i \in DOMAIN refs : layers[i] = [path |-> layers[i].path, hash |-> refs[i].hash, kind |-> refs[i].kind]
  BY <1>2, LayerListFacts DEF Merged, LayersAreRegistered
<1>5. layer.kind = refs[L].kind /\ layer.path = P
  BY <1>1, <1>2, <1>4
<1>6. (\A j : PathOf(j)' = PathOf(j)) /\ MisnamedIsShared' = MisnamedIsShared /\ MergeIsClean' = MergeIsClean
  BY <1>3, SameRefs DEF MergeIsClean
<1>7. ASSUME prepCtx = "alive" PROVE P = PathOf(L)
  BY <1>1, <1>2, <1>4, <1>7 DEF Normalized
<1>8. CASE leaveAlone
  <2>1. layerAt' = L + 1 /\ UNCHANGED <<prep, why, layers, prepFiles, renamed>>
    BY <1>1, <1>8 DEF NormalizeLayer
  <2>2. Merged' /\ CanonicalPathsAreMaterialized'
    BY <1>2, <1>3, <2>1, MergedStays, CanonicalStays
  <2>3. \A p : (File(p))' = File(p)
    BY <2>1 DEF File
  <2>4. ASSUME prepCtx = "alive" PROVE Normalized'
    <3>1. Normalized /\ P = PathOf(L)
      BY <1>2, <1>7, <2>4
    <3>2. ASSUME NEW i \in DOMAIN manifest'
          PROVE  \/ (File(manifest[i].path))' # NoPrepFile
                 \/ \E j \in DOMAIN refs' : j < layerAt' /\ refs'[j].kind = "image" /\ PathOf(j)' = manifest'[i].path
      <4>1. (File(manifest[i].path))' = File(manifest[i].path)
        BY <1>3, <2>1 DEF File
      <4>2. \A j \in DOMAIN refs : j < layerAt => j < layerAt'
        BY <1>1, <1>2, <1>4, <2>1
      <4> QED
        BY <1>3, <1>6, <3>1, <4>1, <4>2 DEF Normalized
    <3>3. ASSUME NEW j \in DOMAIN refs'
          PROVE  IF j < layerAt' THEN layers'[j].path = PathOf(j)' \/ layers'[j].path \in DOMAIN renamed'
                                 ELSE layers'[j].path = PathOf(j)'
      BY <1>1, <1>2, <1>3, <1>4, <1>6, <2>1, <3>1 DEF Normalized
    <3>4. ASSUME MergeIsClean, ~MisnamedIsShared PROVE BytesInPlace'
      <4>1. BytesInPlace
        BY <3>1, <3>4 DEF Normalized
      <4>2. ASSUME NEW j, LayerDone(j) PROVE LayerDone(j)'
        <5>1. (File(layers[j].path))' = File(layers[j].path)
          BY <2>1 DEF File
        <5> QED
          BY <1>3, <1>6, <2>1, <4>2, <5>1 DEF LayerDone
      <4>3. LayerDone(L)
        <5>1. layers[L].path = PathOf(L) /\ File(PathOf(L)) = refs[L].hash /\ refs[L].hash \in Hashes
          BY <1>1, <1>2, <1>4, <3>1, <4>1, ListFacts DEF BytesInPlace
        <5>2. refs[L].kind = "image" => FormatOf[refs[L].hash] \in {"", layers[L].path[2]}
          BY <1>5, <1>8, <3>1, <5>1 DEF NeedsRename
        <5> QED
          BY <5>1, <5>2 DEF LayerDone
      <4>4. ASSUME NEW j \in DOMAIN refs'
            PROVE  IF j < layerAt' THEN LayerDone(j)' ELSE (File(PathOf(j)))' = refs'[j].hash
        <5>1. (File(PathOf(j)))' = File(PathOf(j))
          BY <1>6, <2>1 DEF File
        <5> QED
          BY <1>1, <1>2, <1>3, <1>4, <2>1, <4>1, <4>2, <4>3, <4>4, <5>1 DEF BytesInPlace
      <4> QED
        BY <4>4 DEF BytesInPlace
    <3> QED
      BY <1>6, <3>2, <3>3, <3>4 DEF Normalized
  <2> QED
    BY <1>2, <1>3, <2>1, <2>2, <2>4 DEF PrepInv
<1>9. CASE ~leaveAlone /\ (content = NoPrepFile \/ ~MayTake(content, newPath))
  <2>1. /\ prep' = "failed" /\ why' = IF content = NoPrepFile THEN "missing image" ELSE "collision"
        /\ UNCHANGED <<layerAt, layers, prepFiles, renamed>>
    BY <1>1, <1>9 DEF NormalizeLayer, Refuse
  <2>2. Merged'
    BY <1>2, <1>3, <2>1, MergedStays
  <2>3. ASSUME prepCtx = "alive", content = NoPrepFile
        PROVE  \/ \E i, k \in DOMAIN compiled : i # k /\ compiled[i].hash = compiled[k].hash
               \/ \E i, k \in DOMAIN refs : i # k /\ refs[i].id = refs[k].id /\ refs[i].kind = "image"
    <3>1. Normalized /\ P = PathOf(L)
      BY <1>2, <1>7, <2>3
    <3>2. CASE \E e \in DOMAIN manifest : manifest[e].path = PathOf(L)
      <4>1. PICK j \in DOMAIN refs : j < layerAt /\ refs[j].kind = "image" /\ PathOf(j) = PathOf(L)
        BY <2>3, <3>1, <3>2 DEF Normalized
      <4>2. j # L /\ refs[j].id = refs[L].id /\ L \in DOMAIN refs
        BY <1>1, <1>2, <1>4, <4>1 DEF Merged, LayersAreRegistered
      <4> QED
        BY <4>1, <4>2
    <3> QED
      BY <1>2, <1>4, <3>2, PathIsKnown
  <2>4. CanonicalPathsAreMaterialized'
    BY <1>3, <2>1, <2>3 DEF CanonicalPathsAreMaterialized
  <2> QED
    BY <1>2, <1>3, <2>1, <2>2, <2>4 DEF PrepInv
<1>10. CASE ~leaveAlone /\ content # NoPrepFile /\ MayTake(content, newPath)
  <2>1. /\ prepFiles' = Put(Put(prepFiles, P, NoPrepFile), newPath, IF File(newPath) = NoPrepFile THEN content ELSE File(newPath))
        /\ renamed' = Put(renamed, newPath, P)
        /\ layers' = [layers EXCEPT ![L].path = newPath]
        /\ layerAt' = L + 1 /\ UNCHANGED <<prep, why>>
    BY <1>1, <1>10 DEF NormalizeLayer
  <2>2. /\ refs[L].kind = "image" /\ content \in Hashes /\ FormatOf[content] \notin {"", P[2]}
        /\ newPath = <<P[1], FormatOf[content]>> /\ File(newPath) \in {NoPrepFile, content}
    BY <1>5, <1>10 DEF NeedsRename, RenameTarget, MayTake
  <2>3. PICK t, c : t = newPath /\ c = content
    OBVIOUS
  <2>4. \A p : (File(p))' = IF p = t THEN c ELSE IF p = P THEN NoPrepFile ELSE File(p)
    <3>1. prepFiles' = Put(Put(prepFiles, P, NoPrepFile), t, c)
      BY <2>1, <2>2, <2>3
    <3> QED
      BY <3>1 DEF File, Put
  <2>5. ASSUME NEW j \in DOMAIN refs
        PROVE  layers'[j] = [path |-> IF j = L THEN t ELSE layers[j].path,
                             hash |-> refs[j].hash, kind |-> refs[j].kind]
    <3> HIDE DEF newPath
    <3>1. layers' = [layers EXCEPT ![L] = [layers[L] EXCEPT !.path = t]]
      BY <2>1, <2>3
    <3>2. layers[j] = [path |-> layers[j].path, hash |-> refs[j].hash, kind |-> refs[j].kind] /\ j \in DOMAIN layers
      BY <1>4
    <3>3. CASE j = L
      <4>1. layers'[j] = [layers[j] EXCEPT !.path = t]
        BY <3>1, <3>2, <3>3
      <4>2. [layers[j] EXCEPT !.path = t] = [path |-> t, hash |-> refs[j].hash, kind |-> refs[j].kind]
        BY <3>2
      <4> QED
        BY <3>3, <4>1, <4>2
    <3>4. CASE j # L
      BY <3>1, <3>2, <3>4
    <3> QED
      BY <3>3, <3>4
  <2>6. IsLayerList(layers)'
    <3>1. DOMAIN layers' = 1..Len(refs) /\ layers' = [i \in 1..Len(refs) |-> layers'[i]]
      <4> HIDE DEF newPath
      <4> QED
        BY <1>4, <2>1
    <3>2. ASSUME NEW j \in DOMAIN refs
          PROVE  layers'[j] = [path |-> layers'[j].path, hash |-> refs[j].hash, kind |-> refs[j].kind]
      <4>1. PICK q : q = IF j = L THEN t ELSE layers[j].path
        OBVIOUS
      <4>2. layers'[j] = [path |-> q, hash |-> refs[j].hash, kind |-> refs[j].kind]
        BY <2>5, <4>1
      <4> QED
        BY <4>2
    <3> QED
      BY <1>3, <1>4, <3>1, <3>2 DEF IsLayerList
  <2>7. Merged'
    BY <1>2, <1>3, <1>6, <2>6 DEF Merged, LayersAreRegistered, PathsAreMaterialized, OnlyMovedEntriesClash
  <2>8. CanonicalPathsAreMaterialized'
    BY <1>2, <1>3, <2>1, CanonicalStays
  <2>9. ASSUME prepCtx = "alive" PROVE Normalized'
    <3>1. Normalized /\ P = PathOf(L) /\ c # NoPrepFile
      BY <1>2, <1>7, <1>10, <2>3, <2>9
    <3>2. ASSUME NEW i \in DOMAIN manifest'
          PROVE  \/ (File(manifest[i].path))' # NoPrepFile
                 \/ \E j \in DOMAIN refs' : j < layerAt' /\ refs'[j].kind = "image" /\ PathOf(j)' = manifest'[i].path
      <4>1. PICK q : q = manifest[i].path
        OBVIOUS
      <4>2. (File(q))' = IF q = t THEN c ELSE IF q = P THEN NoPrepFile ELSE File(q)
        BY <2>4
      <4>3. (File(manifest[i].path))' = (File(q))'
        BY <1>3, <4>1 DEF File
      <4>4. CASE q = P /\ q # t
        <5>1. L \in DOMAIN refs' /\ L < layerAt' /\ refs'[L].kind = "image" /\ PathOf(L)' = manifest'[i].path
          <6>1. L \in DOMAIN refs' /\ refs'[L].kind = "image"
            BY <1>2, <1>3, <1>4, <2>2
          <6>2. L < layerAt'
            BY <1>2, <2>1
          <6>3. PathOf(L)' = PathOf(L)
            BY <1>6
          <6>4. manifest'[i].path = q
            BY <1>3, <4>1
          <6> QED
            BY <3>1, <4>4, <6>1, <6>2, <6>3, <6>4
        <5> QED
          BY <5>1
      <4>5. CASE q = t
        BY <3>1, <4>2, <4>3, <4>5
      <4>6. CASE q # t /\ q # P
        <5>1. (File(q))' = File(q)
          BY <4>2, <4>6
        <5>2. \/ File(q) # NoPrepFile
              \/ \E j \in DOMAIN refs : j < layerAt /\ refs[j].kind = "image" /\ PathOf(j) = q
          BY <1>3, <3>1, <4>1 DEF Normalized
        <5>3. \A j \in DOMAIN refs : j < layerAt => j < layerAt'
          BY <1>1, <1>2, <1>4, <2>1
        <5> QED
          BY <1>3, <1>6, <4>1, <4>3, <5>1, <5>2, <5>3
      <4> QED
        BY <4>4, <4>5, <4>6
    <3>3. ASSUME NEW j \in DOMAIN refs'
          PROVE  IF j < layerAt' THEN layers'[j].path = PathOf(j)' \/ layers'[j].path \in DOMAIN renamed'
                                 ELSE layers'[j].path = PathOf(j)'
      <4>1. t \in DOMAIN renamed' /\ \A p \in DOMAIN renamed : p \in DOMAIN renamed'
        BY <2>1, <2>3 DEF Put
      <4>2. layers'[j].path = IF j = L THEN t ELSE layers[j].path
        <5>1. PICK q : q = IF j = L THEN t ELSE layers[j].path
          OBVIOUS
        <5>2. layers'[j] = [path |-> q, hash |-> refs[j].hash, kind |-> refs[j].kind]
          BY <1>3, <2>5, <5>1
        <5>3. layers'[j].path = q
          BY <5>2
        <5> QED
          BY <5>1, <5>3
      <4>3. IF j < layerAt THEN layers[j].path = PathOf(j) \/ layers[j].path \in DOMAIN renamed ELSE layers[j].path = PathOf(j)
        BY <1>3, <3>1 DEF Normalized
      <4>4. j \in Nat
        BY <1>3, <1>4
      <4> QED
        BY <1>1, <1>2, <1>6, <2>1, <4>1, <4>2, <4>3, <4>4
    <3>4. ASSUME MergeIsClean, ~MisnamedIsShared PROVE BytesInPlace'
      <4>1. BytesInPlace
        BY <3>1, <3>4 DEF Normalized
      <4>2. MisnamedFile(t, c)
        BY <1>1, <1>2, <1>4, <2>2, <2>3, <3>1 DEF MisnamedFile
      <4>3. FileMoves(t, c) /\ NameMoves(t)
        BY <1>1, <2>1, <2>3, <2>4, <2>5, <3>1 DEF FileMoves, NameMoves
      <4> QED
        BY <1>1, <1>2, <1>3, <2>1, <3>4, <4>1, <4>2, <4>3, RenameInPlace
    <3> QED
      BY <1>6, <3>2, <3>3, <3>4 DEF Normalized
  <2> QED
    BY <1>2, <1>3, <2>1, <2>7, <2>8, <2>9 DEF PrepInv
<1> QED
  BY <1>8, <1>9, <1>10

LEMMA NormalizedStays ==
  ASSUME Normalized, UNCHANGED <<refs, layers, manifest, compiled, prepFiles, layerAt, renamed>>
  PROVE  Normalized'
<1>1. (\A j : PathOf(j)' = PathOf(j)) /\ MisnamedIsShared' = MisnamedIsShared /\ MergeIsClean' = MergeIsClean
  BY SameRefs DEF MergeIsClean
<1>2. ASSUME NEW i \in DOMAIN manifest PROVE (File(manifest[i].path))' = File(manifest[i].path)
  BY DEF File
<1>3. ASSUME NEW j PROVE (File(PathOf(j)))' = File(PathOf(j)) /\ LayerDone(j)' = LayerDone(j)
  <2>1. (File(PathOf(j)))' = File(PathOf(j)) /\ (File(layers[j].path))' = File(layers[j].path)
    BY <1>1 DEF File
  <2> QED
    BY <1>1, <2>1 DEF LayerDone
<1>4. BytesInPlace' = BytesInPlace
  BY <1>3 DEF BytesInPlace
<1> QED
  BY <1>1, <1>2, <1>4 DEF Normalized

LEMMA PrepInvStays ==
  ASSUME PrepInv, UNCHANGED prepVars
  PROVE  PrepInv'
<1>1. UNCHANGED <<prep, why, refs, layers, manifest, compiled, mat, prepFiles, layerAt, renamed, prepCtx>>
  BY DEF prepVars
<1>2. Merged => Merged'
  BY <1>1, MergedStays
<1>3. Normalized => Normalized'
  BY <1>1, NormalizedStays
<1>4. MaterializeInv => MaterializeInv'
  <2> SUFFICES ASSUME MaterializeInv PROVE MaterializeInv'
    OBVIOUS
  <2>1. (\A j : PathOf(j)' = PathOf(j)) /\ MergeIsClean' = MergeIsClean
    BY <1>1, SameRefs DEF MergeIsClean
  <2>2. ASSUME NEW j \in DOMAIN mat PROVE AssetSettled(j)'
    <3>1. AssetSettled(j) /\ (File(manifest[j].path))' = File(manifest[j].path)
      BY <1>1, <2>2 DEF MaterializeInv, File
    <3> QED
      BY <1>1, <2>1, <3>1 DEF AssetSettled
  <2> QED
    BY <1>1, <2>1, <2>2 DEF MaterializeInv
<1>5. CanonicalPathsAreMaterialized'
  BY <1>1 DEF CanonicalPathsAreMaterialized, PrepInv
<1> QED
  BY <1>1, <1>2, <1>3, <1>4, <1>5 DEF PrepInv

\* The check before the renderer: a path that is neither materialized nor renamed is the
\* registered one of a twin.
LEMMA ValidateKeeps == PrepInv /\ ValidatePlanAssets => PrepInv'
<1> SUFFICES ASSUME PrepInv, ValidatePlanAssets PROVE PrepInv'
  OBVIOUS
<1>1. /\ prep = "normalize" /\ Merged /\ CanonicalPathsAreMaterialized /\ why \notin MissingReasons
      /\ refs \in RefLists /\ layerAt \in Nat \ {0} /\ layerAt = Len(layers) + 1
      /\ prepCtx = "alive" => Normalized
  BY DEF ValidatePlanAssets, PrepInv
<1>2. UNCHANGED <<refs, layers, manifest, compiled, mat, prepFiles, layerAt, renamed, prepCtx>>
  BY DEF ValidatePlanAssets
<1>3. Len(refs) \in Nat /\ DOMAIN refs = 1..Len(refs) /\ DOMAIN layers = DOMAIN refs /\ Len(layers) = Len(refs)
  BY <1>1, LayerListFacts DEF Merged, LayersAreRegistered
<1>4. Merged' /\ MergeIsClean' = MergeIsClean
  BY <1>1, <1>2, MergedStays
<1>5. CASE prep' = "ready" /\ UNCHANGED why
  <2>1. CanonicalPathsAreMaterialized'
    BY <1>1, <1>2, <1>5, CanonicalStays
  <2>2. (prepCtx = "alive" => Normalized)'
    BY <1>1, <1>2, NormalizedStays
  <2> QED
    BY <1>1, <1>2, <1>3, <1>4, <1>5, <2>1, <2>2 DEF PrepInv
<1>6. CASE /\ prep' = "failed" /\ why' = "missing asset"
           /\ \E i \in DOMAIN layers : ~ProvenPath(layers[i].path)
  <2>1. ASSUME prepCtx = "alive"
        PROVE  \E i, k \in DOMAIN compiled : i # k /\ compiled[i].hash = compiled[k].hash
    <3>1. PICK i \in DOMAIN refs : ~ProvenPath(layers[i].path)
      BY <1>3, <1>6
    <3>2. layers[i].path \notin DOMAIN renamed /\ ~\E e \in DOMAIN manifest : manifest[e].path = layers[i].path
      BY <3>1 DEF ProvenPath
    <3>3. layers[i].path = PathOf(i)
      BY <1>1, <2>1, <3>2 DEF Normalized
    <3> QED
      BY <1>1, <3>2, <3>3, PathIsKnown
  <2>2. CanonicalPathsAreMaterialized'
    BY <1>2, <1>6, <2>1 DEF CanonicalPathsAreMaterialized
  <2> QED
    BY <1>1, <1>2, <1>4, <1>6, <2>2 DEF PrepInv
<1> QED
  BY <1>5, <1>6 DEF ValidatePlanAssets, Refuse

LEMMA PrepInvStep == PrepInv /\ [PrepNext]_prepVars => PrepInv'
<1> SUFFICES ASSUME PrepInv, [PrepNext]_prepVars PROVE PrepInv'
  OBVIOUS
<1>1. CASE Compile
  BY <1>1, CompileKeeps
<1>2. CASE MaterializeReturns
  BY <1>2, ReturnKeeps
<1>3. CASE NormalizeLayer
  BY <1>3, NormalizeKeeps
<1>4. CASE ValidatePlanAssets
  BY <1>4, ValidateKeeps
<1>5. ASSUME NEW i \in DOMAIN mat, SendAsset(i) PROVE PrepInv'
  <2>1. /\ prep = "materialize" /\ mat' = [mat EXCEPT ![i] = "queued"]
        /\ UNCHANGED <<prep, why, refs, layers, manifest, compiled, prepFiles, layerAt, renamed, prepCtx>>
    BY <1>5 DEF SendAsset, Materializing
  <2> QED
    BY <2>1, PoolMoves
<1>6. ASSUME NEW i \in DOMAIN mat, ResolveAsset(i) PROVE PrepInv'
  BY <1>6, ResolveKeeps
<1>7. ASSUME NEW i \in DOMAIN mat, InstallAsset(i) PROVE PrepInv'
  BY <1>7, InstallKeeps
<1>8. CASE CancelPrepare
  BY <1>8, CancelKeeps
<1>9. CASE UNCHANGED prepVars
  BY <1>9, PrepInvStays
<1> QED
  BY <1>1, <1>2, <1>3, <1>4, <1>5, <1>6, <1>7, <1>8, <1>9 DEF PrepNext, PrepStep

LEMMA PrepTells == PrepInv => PlanIsMaterialized
<1> SUFFICES ASSUME PrepInv PROVE PlanIsMaterialized
  OBVIOUS
<1>1. OnlyMovedEntriesClash
  <2>1. CASE compiled = << >>
    BY <2>1 DEF OnlyMovedEntriesClash, MergeIsClean
  <2>2. CASE Merged
    BY <2>2 DEF Merged
  <2> QED
    BY <2>1, <2>2 DEF PrepInv
<1>2. ASSUME ReadyToRender, NEW i \in DOMAIN layers
      PROVE  /\ i \in DOMAIN refs /\ LayerDone(i) /\ layers[i].hash = refs[i].hash /\ layers[i].kind = refs[i].kind
             /\ \E k \in DOMAIN compiled : compiled[k] = [hash |-> refs[i].hash, path |-> PathOf(i)]
  <2>1. Merged /\ Normalized /\ layerAt = Len(refs) + 1 /\ refs \in RefLists
    BY <1>2 DEF PrepInv, ReadyToRender
  <2>2. /\ Len(refs) \in Nat /\ DOMAIN refs = 1..Len(refs) /\ DOMAIN layers = DOMAIN refs
        /\ layers[i] = [path |-> layers[i].path, hash |-> refs[i].hash, kind |-> refs[i].kind]
    BY <2>1, LayerListFacts, <1>2 DEF Merged, LayersAreRegistered
  <2>3. BytesInPlace
    BY <1>2, <2>1 DEF ReadyToRender, Normalized
  <2>4. LayerDone(i)
    BY <2>1, <2>2, <2>3 DEF BytesInPlace
  <2>5. layers[i].hash = refs[i].hash /\ layers[i].kind = refs[i].kind
    BY <2>2
  <2> QED
    BY <1>2, <2>1, <2>2, <2>4, <2>5 DEF Merged, LayersAreRegistered
<1>3. LayersHaveTheirBytes
  BY <1>2 DEF LayersHaveTheirBytes, LayerDone
<1>4. ManifestDescribesPlan
  <2> SUFFICES ASSUME ReadyToRender, NEW i \in DOMAIN layers
               PROVE  [hash |-> layers[i].hash, path |-> layers[i].path] \in FinalPreparedAssets
    BY DEF ManifestDescribesPlan
  <2>1. PICK P : P = layers[i].path
    OBVIOUS
  <2>2. layers[i].hash = refs[i].hash /\ i \in DOMAIN refs
    BY <1>2
  <2>3. CASE P = PathOf(i)
    BY <1>2, <2>1, <2>2, <2>3 DEF FinalPreparedAssets
  <2>4. CASE P # PathOf(i)
    <3>1. PICK l \in DOMAIN refs : P \in DOMAIN renamed /\ renamed[P] = PathOf(l) /\ refs[l].hash = refs[i].hash
      BY <1>2, <2>1, <2>4 DEF LayerDone
    <3>2. Merged
      BY DEF PrepInv, ReadyToRender
    <3>3. PICK k \in DOMAIN compiled : compiled[k] = [hash |-> refs[l].hash, path |-> PathOf(l)]
      BY <3>2 DEF Merged, LayersAreRegistered
    <3>4. compiled[k].path = renamed[P] /\ compiled[k].hash = refs[i].hash
      BY <3>1, <3>3
    <3>5. [hash |-> compiled[k].hash, path |-> P] \in FinalPreparedAssets
      BY <3>1, <3>4 DEF FinalPreparedAssets
    <3> QED
      BY <2>1, <2>2, <3>4, <3>5
  <2> QED
    BY <2>3, <2>4
<1> QED
  BY <1>1, <1>3, <1>4 DEF PlanIsMaterialized, PrepInv

-----------------------------------------------------------------------------
(* The host *)

\* A step of the host is a step or a stutter of each of its components.
LEMMA HostSteps ==
  ASSUME [HostNext]_hostVars
  PROVE  /\ [LanesNext]_laneVars /\ [PoolNext]_daemonVars /\ [ProcNext]_procVars
         /\ [IpcNext]_ipcVars /\ [PrepNext]_prepVars
         /\ [ProgressNext]_progressVars /\ [LogsNext]_logVars
<1>1. CASE LanesRun
  BY <1>1 DEF LanesRun
<1>2. CASE PoolRuns
  BY <1>2 DEF PoolRuns
<1>3. CASE ProcessRuns
  BY <1>3 DEF ProcessRuns
<1>4. CASE CallsRun
  BY <1>4 DEF CallsRun
<1>5. CASE GatesRun \/ SegmentsRun
  BY <1>5 DEF GatesRun, SegmentsRun
<1>9. CASE AssetsRun
  BY <1>9 DEF AssetsRun
<1>6. CASE ProgressRuns
  BY <1>6 DEF ProgressRuns
<1>7. CASE LogsRun
  BY <1>7 DEF LogsRun
<1>8. CASE UNCHANGED hostVars
  BY <1>8 DEF hostVars
<1> QED
  BY <1>1, <1>2, <1>3, <1>4, <1>5, <1>6, <1>7, <1>8, <1>9 DEF HostNext

\* The load MultiClient shows of a lane is the renders it holds, and Pool.Stop leaves
\* no daemon that the pool had started, whatever else the host does.
THEOREM AccountedCorrect == HostSpec => []RenderersAreAccounted
<1> DEFINE Inv == LanesInv /\ PoolInv
<1>1. HostInit => Inv
  BY LanesInvInit, PoolInvInit DEF HostInit
<1>2. Inv /\ [HostNext]_hostVars => Inv'
  BY HostSteps, LanesInvStep, PoolInvStep
<1>3. Inv => RenderersAreAccounted
  BY LoadFromInv, PoolFromInv DEF RenderersAreAccounted
<1> HIDE DEF Inv
<1> QED
  BY <1>1, <1>2, <1>3, PTL DEF HostSpec

\* What the worker says of its renders is so: milestones, credited renders, positions
\* and logs.
THEOREM ReportedCorrect == HostSpec => []RendersAreReported
<1> DEFINE Inv == ProcInv /\ IpcInv /\ ProgressInv /\ LogsInv
<1>1. HostInit => Inv
  BY ProcInvInit, IpcInvInit, ProgressInvInit, LogsInvInit DEF HostInit
<1>2. Inv /\ [HostNext]_hostVars => Inv'
  BY HostSteps, ProcInvStep, IpcInvStep, ProgressInvStep, LogsInvStep
<1>3. Inv => RendersAreReported
  BY MilestonesFromInv, CreditFromInv, ShownFromInv, LogFromInv DEF RendersAreReported
<1> HIDE DEF Inv
<1> QED
  BY <1>1, <1>2, <1>3, PTL DEF HostSpec

\* The plan handed to the renderer, its manifest and its files agree (prepare_assets.go):
\* the merge gives a path to one content except where it moves the entry of a URL, on a live
\* context every layer of a ready plan finds the bytes it was registered with, and a file is
\* missing for the two reasons CanonicalPathsAreMaterialized names only.
THEOREM MaterializedCorrect == HostSpec => []PlanIsMaterialized
<1>1. HostInit => PrepInv
  BY PrepInvInit DEF HostInit
<1>2. PrepInv /\ [HostNext]_hostVars => PrepInv'
  BY HostSteps, PrepInvStep
<1> QED
  BY <1>1, <1>2, PrepTells, PTL DEF HostSpec
=============================================================================
