--------------------------- MODULE MotionLowering ---------------------------
(* How the overlay compiler lowers one catalog motion to what the renderer   *)
(* gets for a layer: the layer tracks, the per-unit text animators and the   *)
(* bit that sends the layer through the camera.  A motion is authored for    *)
(* windows of its own; the layer has the length the narration left it, the   *)
(* preset and the producer may ask for other windows, and every pass that    *)
(* moves keyframes has to leave frames the renderer accepts and the pose the *)
(* motion settles in.                                                        *)
(*                                                                           *)
(* A keyframe is a frame and the value authored for it; values are names.    *)
(* What an easing computes between two keyframes is one value, "between".    *)
EXTENDS Integers, SequencesExt

CONSTANTS MotionJobs,    \* the layers to animate, with their motion and windows
          SweepLimit     \* MaxStaggerSweepFrames, the keyframes a text track may span

ASSUME LimitAssumption == SweepLimit \in Nat \ {0}

VARIABLES motionJob,     \* the layer being animated
          motionStage,   \* "idle", "resolve", "compile", "text", "exit", "envelope", "route", "lowered", "refused"
          spans,         \* its entrance and exit, in frames
          layerTracks,   \* Layer.Animation
          animators,     \* Layer.TextAnimators
          enable3D,      \* Layer.Enable3D
          screenSpace    \* Layer.ScreenSpace

motionVars == <<motionJob, motionStage, spans, layerTracks, animators, enable3D, screenSpace>>

NoLayer == "idle"
NoWindows == [entrance |-> 0, exit |-> 0]
KeyAt(f, v) == [frame |-> f, value |-> v]
Larger(a, b) == IF a > b THEN a ELSE b
Smaller(a, b) == IF a < b THEN a ELSE b

-----------------------------------------------------------------------------
(* Windows *)

\* MUTANT: a duration taken for the index of the last frame.
CountsTheEnd(d) == d
LastValidFrame(d) == IF d <= 1 THEN 0 ELSE d - 1

Absent == -1
FrameParamValid(p) == p = Absent \/ p \in 0..240

\* A preset brings both spans.  A producer brings an entrance, or none, and an exit that
\* replaces the preset's; an exit of zero switches it off, which is below zero from here on.
MotionWindows(j) ==
  IF j.byPreset THEN [enter |-> j.presetEnter, exit |-> j.presetExit]
  ELSE [enter |-> Larger(j.enterParam, 0),
        exit |-> IF j.exitParam = Absent THEN j.presetExit ELSE IF j.exitParam = 0 THEN -1 ELSE j.exitParam]

EntranceFrames(authored, exit, d, phrase) ==
  LET available == IF exit > 0 /\ exit < d THEN d - exit ELSE d
  IN IF phrase THEN Larger((d + 2) \div 3, 1)
     ELSE Larger(IF authored > 0 THEN Smaller(authored, available) ELSE available, 1)

\* MUTANT: the exit of a phrase may start inside its entrance.
ExitOverlaps(exit, entrance, d, phrase) == exit
\* The entrance of a phrase is a third of its layer; an exit that does not fit is shorter.
ExitKeepsEntrance(exit, entrance, d, phrase) == IF phrase THEN Smaller(exit, d - entrance) ELSE exit

WindowsOf(j) ==
  LET asked == MotionWindows(j)
      enter == IF asked.enter <= 0 THEN j.motion.enter ELSE asked.enter
      exit == IF asked.exit < 0 THEN 0 ELSE IF asked.exit = 0 THEN j.motion.exit ELSE asked.exit
      entrance == IF j.motion.timeline THEN j.duration
                  ELSE EntranceFrames(enter, exit, j.duration, j.phrase)
  IN [entrance |-> entrance, exit |-> ExitKeepsEntrance(exit, entrance, j.duration, j.phrase)]

-----------------------------------------------------------------------------
(* Retiming *)

\* MUTANT: the first of the keyframes of a frame wins.
KeepsTheFirst(keys) ==
  FoldLeft(LAMBDA done, k : IF done # <<>> /\ Last(done).frame = k.frame THEN done ELSE Append(done, k), <<>>, keys)
\* Keyframes that fall on one frame become the last of them.
Coalesced(keys) ==
  FoldLeft(LAMBDA done, k : IF done # <<>> /\ Last(done).frame = k.frame
                            THEN Append(Front(done), k) ELSE Append(done, k), <<>>, keys)

ClampedKeys(keys, d) ==
  Coalesced([i \in DOMAIN keys |-> [keys[i] EXCEPT !.frame = Smaller(Larger(@, 0), LastValidFrame(d))]])

Scaled(keys, source, last) == [i \in DOMAIN keys |-> [keys[i] EXCEPT !.frame = (@ * last) \div source]]

FramesOf(tracks) == {k.frame : k \in UNION {Range(t.keys) : t \in Range(tracks)}}
SourceEnd(tracks) == CHOOSE f \in FramesOf(tracks) \cup {0} : \A g \in FramesOf(tracks) : g <= f

\* A recipe for short phrases keeps its entrance and a tail in which it settles, stretched
\* over the whole layer.
SettlingTail == 15
RetimePhraseKeyframes(keys, authored, d) ==
  IF authored <= 0 THEN keys
  ELSE Scaled(SelectSeq(keys, LAMBDA k : k.frame <= authored + SettlingTail),
              authored + SettlingTail, LastValidFrame(d))

\* The other motions keep their entrance; what comes after it is the pose they settle in.
RetimeMotionKeys(keys, entrance, source) ==
  IF source <= 0 \/ source = entrance THEN keys
  ELSE [i \in DOMAIN keys |->
          [keys[i] EXCEPT !.frame = IF @ > source THEN LastValidFrame(entrance)
                                    ELSE (@ * LastValidFrame(entrance)) \div source]]

RetimedTracks(j, w) ==
  LET authored == j.motion.tracks
      source == IF j.motion.enter > 0 THEN j.motion.enter ELSE SourceEnd(authored)
      Retimed(keys) ==
        IF j.motion.timeline THEN ClampedKeys(RetimePhraseKeyframes(keys, j.motion.enter, j.duration), j.duration)
        ELSE ClampedKeys(RetimeMotionKeys(keys, w.entrance, source), w.entrance)
  IN [i \in DOMAIN authored |-> [authored[i] EXCEPT !.keys = Retimed(@)]]

-----------------------------------------------------------------------------
(* Text animators *)

\* Every frame of a property is sampled, as the renderer takes no easing there.
SampleTextPropertyTrack(keys) ==
  [i \in 1..(Last(keys).frame + 1) |->
     IF \E k \in Range(keys) : k.frame = i - 1
     THEN CHOOSE k \in Range(keys) : k.frame = i - 1
     ELSE KeyAt(i - 1, "between")]

\* A stagger is a sweep of the selector's start, from nothing to everything; over a single
\* frame the division gives no number.
Sweep(last) ==
  [i \in 1..(last + 1) |-> KeyAt(i - 1, IF last = 0 THEN "NaN"
                                        ELSE IF i = last + 1 THEN "all" ELSE "between")]
Fixed(last) == <<KeyAt(0, "fixed"), KeyAt(Larger(last, 1), "fixed")>>

SelectorOf(def, entrance) ==
  [unit |-> def.unit,
   start |-> IF def.stagger THEN Sweep(LastValidFrame(entrance))
             ELSE IF def.range THEN Fixed(LastValidFrame(entrance)) ELSE <<>>,
   end |-> IF def.range THEN Fixed(LastValidFrame(entrance)) ELSE <<>>]

TextRefused(j, w) ==
  \E def \in Range(j.motion.text) :
    \/ def.stagger /\ LastValidFrame(w.entrance) > SweepLimit
    \/ \E t \in Range(def.properties) : Last(t.keys).frame > SweepLimit

RetimedText(j, w) ==
  LET sampled == [i \in DOMAIN j.motion.text |->
                    [a \in DOMAIN j.motion.text[i].properties |->
                       [j.motion.text[i].properties[a] EXCEPT !.keys = SampleTextPropertyTrack(@)]]]
      source == SourceEnd(FlattenSeq(sampled))
      d == IF j.motion.timeline THEN j.duration ELSE w.entrance
      Retimed(keys) ==
        IF j.motion.timeline THEN RetimePhraseKeyframes(keys, j.motion.enter, d)
        ELSE IF source > 0 THEN Scaled(keys, source, LastValidFrame(d)) ELSE keys
  IN [i \in DOMAIN sampled |->
        [selector |-> LET s == SelectorOf(j.motion.text[i], w.entrance)
                      IN [s EXCEPT !.start = ClampedKeys(@, d), !.end = ClampedKeys(@, d)],
         properties |-> [a \in DOMAIN sampled[i] |->
                           [sampled[i][a] EXCEPT !.keys = ClampedKeys(Retimed(@), d)]]]]

\* An animator of opacity alone needs a selector that moves through the units.
CollapsedText(as) ==
  \E a \in Range(as) :
    \/ a.properties = <<>>
    \/ /\ \A t \in Range(a.properties) : t.property = "opacity"
       /\ a.selector.unit = "layer" \/ (a.selector.start = <<>> /\ a.selector.end = <<>>)

-----------------------------------------------------------------------------
(* Exit, envelope and routing *)

HasExit(exit, d) == exit > 0 /\ d > 1 /\ exit < d
OpacityTrack(keys) == [property |-> "opacity", keys |-> keys]

\* Every track ends where it began, over the exit window, and opacity ends at nothing.
AppendExitTracks(tracks, exit, d) ==
  LET start == d - exit
      last == LastValidFrame(d)
      Mirrored(t) ==
        [t EXCEPT !.keys = @ \o IF t.property = "opacity" THEN <<KeyAt(start, "1"), KeyAt(last, "0")>>
                                ELSE <<KeyAt(start, Last(@).value), KeyAt(last, Head(@).value)>>]
      kept == SelectSeq(tracks, LAMBDA t : t.keys # <<>>)
      fade == <<KeyAt(0, "1"), KeyAt(start, "1"), KeyAt(last, "0")>>
  IN IF ~HasExit(exit, d) THEN tracks
     ELSE [i \in DOMAIN kept |-> Mirrored(kept[i])]
          \o IF \E t \in Range(kept) : t.property = "opacity" THEN <<>> ELSE <<OpacityTrack(fade)>>

\* A phrase fades in over a quarter of its layer, at most eight frames, and is cut.
WithPhraseEntryExit(tracks, d) ==
  IF d < 3 THEN tracks
  ELSE Append(SelectSeq(tracks, LAMBDA t : t.property # "opacity"),
              OpacityTrack(<<KeyAt(0, "0"), KeyAt(Larger(1, Smaller(8, d \div 4)), "1"),
                             KeyAt(LastValidFrame(d), "1")>>))

CameraBacked == {"position_z", "rotation_x", "rotation_y"}

\* MUTANT: the text animators are not looked at.
LooksAtTheLayerOnly(tracks, as) == \E t \in Range(tracks) : t.property \in CameraBacked
LayerUses3D(tracks, as) ==
  \/ \E t \in Range(tracks) : t.property \in CameraBacked
  \/ \E a \in Range(as) : \E t \in Range(a.properties) : t.property \in CameraBacked

Flat(tracks) == SelectSeq(tracks, LAMBDA t : t.property \notin CameraBacked)

\* What a screen-space text keeps: no track of the camera, no animator without a track.
ScreenSpaceTextAnimation(tracks, as) ==
  LET flat == [i \in DOMAIN as |-> [as[i] EXCEPT !.properties = Flat(@)]]
  IN [tracks |-> Flat(tracks), animators |-> SelectSeq(flat, LAMBDA a : a.properties # <<>>)]

-----------------------------------------------------------------------------
MotionInit ==
  /\ motionJob = NoLayer /\ motionStage = "idle" /\ spans = NoWindows
  /\ layerTracks = <<>> /\ animators = <<>> /\ enable3D = FALSE /\ screenSpace = FALSE

\* compileResolvedText starts a text layer in screen space; picture and map layers are not.
PickMotion(j) ==
  /\ motionStage = "idle"
  /\ motionJob' = j /\ screenSpace' = j.text
  /\ motionStage' = IF j.named THEN "resolve" ELSE "envelope"
  /\ UNCHANGED <<spans, layerTracks, animators, enable3D>>

Admissible(j) ==
  /\ j.byPreset \/ (FrameParamValid(j.enterParam) /\ FrameParamValid(j.exitParam))
  /\ ~j.motion.retired
  /\ j.byPreset \/ j.motion.admitted

ResolveMotion ==
  /\ motionStage = "resolve"
  /\ IF Admissible(motionJob)
     THEN spans' = WindowsOf(motionJob) /\ motionStage' = "compile"
     ELSE motionStage' = "refused" /\ UNCHANGED spans
  /\ UNCHANGED <<motionJob, layerTracks, animators, enable3D, screenSpace>>

CompileTracks ==
  /\ motionStage = "compile"
  /\ layerTracks' = RetimedTracks(motionJob, spans)
  /\ motionStage' = "text"
  /\ UNCHANGED <<motionJob, spans, animators, enable3D, screenSpace>>

CompileText ==
  /\ motionStage = "text"
  /\ IF TextRefused(motionJob, spans)
     THEN motionStage' = "refused" /\ UNCHANGED animators
     ELSE animators' = RetimedText(motionJob, spans) /\ motionStage' = "exit"
  /\ UNCHANGED <<motionJob, spans, layerTracks, enable3D, screenSpace>>

\* A motion the producer named must not have shrunk to a fade of the layer.
AppendExit ==
  /\ motionStage = "exit"
  /\ layerTracks' = IF motionJob.motion.timeline THEN layerTracks
                    ELSE AppendExitTracks(layerTracks, spans.exit, motionJob.duration)
  /\ motionStage' = IF ~motionJob.byPreset /\ CollapsedText(animators) THEN "refused" ELSE "envelope"
  /\ UNCHANGED <<motionJob, spans, animators, enable3D, screenSpace>>

AddEnvelope ==
  /\ motionStage = "envelope"
  /\ layerTracks' = IF motionJob.phrase THEN WithPhraseEntryExit(layerTracks, motionJob.duration) ELSE layerTracks
  /\ screenSpace' = (screenSpace /\ ~LayerUses3D(layerTracks', animators))
  /\ motionStage' = "route"
  /\ UNCHANGED <<motionJob, spans, animators, enable3D>>

ApplyMotionRouting ==
  /\ motionStage = "route"
  /\ LET kept == IF screenSpace THEN ScreenSpaceTextAnimation(layerTracks, animators)
                 ELSE [tracks |-> layerTracks, animators |-> animators]
     IN /\ layerTracks' = kept.tracks
        /\ animators' = kept.animators
        /\ enable3D' = LayerUses3D(kept.tracks, kept.animators)
  /\ motionStage' = "lowered"
  /\ UNCHANGED <<motionJob, spans, screenSpace>>

\* The compiler goes on with the next layer.
NextLayer ==
  /\ motionStage \in {"lowered", "refused"}
  /\ motionJob' = NoLayer /\ motionStage' = "idle" /\ spans' = NoWindows
  /\ layerTracks' = <<>> /\ animators' = <<>> /\ enable3D' = FALSE /\ screenSpace' = FALSE

MotionNext ==
  \/ motionStage = "idle" /\ \E j \in MotionJobs : PickMotion(j)
  \/ ResolveMotion \/ CompileTracks \/ CompileText \/ AppendExit \/ AddEnvelope \/ ApplyMotionRouting
  \/ NextLayer

-----------------------------------------------------------------------------
Increasing(keys) == \A i, k \in DOMAIN keys : i < k => keys[i].frame < keys[k].frame
TextTracks == UNION {Range(a.properties) : a \in Range(animators)}
NeedsCamera(tracks) == \E t \in tracks : t.property \in CameraBacked
SelectorKeys == UNION {{a.selector.start, a.selector.end} : a \in Range(animators)}

\* Every keyframe is in the layer.
KeysInLayer ==
  \A keys \in {t.keys : t \in Range(layerTracks) \cup TextTracks} \cup SelectorKeys :
    \A k \in Range(keys) : k.frame \in 0..LastValidFrame(motionJob.duration)

\* No track has two keyframes for a frame, an exit of a single frame excepted: its two
\* keyframes both fall on the last frame of the layer.
KeysIncrease ==
  /\ \A t \in TextTracks : Increasing(t.keys)
  /\ \A keys \in SelectorKeys : Increasing(keys)
  /\ spans.exit # 1 => \A t \in Range(layerTracks) : Increasing(t.keys)

AuthoredRest(keys) ==
  LET settling == SelectSeq(keys, LAMBDA k : k.frame <= motionJob.motion.enter + SettlingTail)
  IN IF motionJob.motion.timeline /\ motionJob.motion.enter > 0 THEN Last(settling).value ELSE Last(keys).value

\* Whatever the windows, a track reaches the pose its motion settles in, and is still in it
\* when the exit begins.
PoseSettles ==
  motionJob.named =>
    LET exits == ~motionJob.motion.timeline /\ HasExit(spans.exit, motionJob.duration)
    IN \A t \in Range(layerTracks), authored \in Range(motionJob.motion.tracks) :
         t.property = authored.property /\ t.property # "opacity" =>
           IF exits THEN KeyAt(motionJob.duration - spans.exit, AuthoredRest(authored.keys)) \in Range(t.keys)
           ELSE Last(t.keys).value = AuthoredRest(authored.keys)

\* One curve owns the opacity of the layer: a phrase is visible until it is cut, and a
\* layer with an exit has faded out at its last frame.
OpacityHasOneCurve ==
  LET curves == SelectSeq(layerTracks, LAMBDA t : t.property = "opacity")
  IN /\ Len(curves) <= 1
     /\ motionJob.phrase /\ motionJob.duration >= 3 => Len(curves) = 1 /\ Last(curves[1].keys).value = "1"
     /\ motionJob.named /\ ~motionJob.phrase /\ ~motionJob.motion.timeline /\ HasExit(spans.exit, motionJob.duration)
          => Len(curves) = 1 /\ Last(curves[1].keys).value = "0"

\* The layer goes through the camera exactly when one of its tracks needs it, and no such
\* track is lost on the way.
CameraBitIsRight ==
  /\ enable3D = NeedsCamera(Range(layerTracks) \cup TextTracks)
  /\ motionJob.named =>
       enable3D = NeedsCamera(Range(motionJob.motion.tracks)
                              \cup UNION {Range(def.properties) : def \in Range(motionJob.motion.text)})
  /\ screenSpace => ~enable3D

\* What lowerMotion and its passes hand to the renderer for a layer of any length: its
\* strict decoder takes every keyframe, the motion ends in its pose, and the routing bit
\* tells what the tracks need.
MotionIsPlayable ==
  motionStage = "lowered" => KeysInLayer /\ KeysIncrease /\ PoseSettles /\ OpacityHasOneCurve /\ CameraBitIsRight

=============================================================================
