----------------------------- MODULE MCServices -----------------------------
(* One instance of each service a worker and the queue are built on.  The    *)
(* services share no state, so a behaviour runs one of them, the part, and   *)
(* the others stay in their first state.                                     *)
EXTENDS StorageCache, ObjectStore, MediaProbe, Delivery, VramProbe, QueueApi, PlanCompile, MCAnimationOwners,
        MCParentFinalization, LeaseCalls, MotionLowering, DatePlan

CONSTANT Parts    \* the services of which one runs
VARIABLE part

\* A base job and its translation; the base alone with an edited plan; two jobs of
\* which the second is refused, by the client, by the handler or by the storage; and a
\* manifest that does not expand.
Entry(i, pl, l, d) == [id |-> i, plan |-> <<pl>>, language |-> l, defect |-> d]
MCManifests ==
  {<<Entry("a", 1, FALSE, "none"), Entry("a.it", 1, TRUE, "none")>>, <<Entry("a", 2, FALSE, "none")>>,
   <<Entry("b", 1, FALSE, "none"), Entry("c", 1, FALSE, "envelope")>>,
   <<Entry("c", 2, FALSE, "ingress")>>, <<Entry("c", 3, FALSE, "chunk")>>,
   <<Entry("a", 3, FALSE, "shape")>>}
\* One producer submits a job, edits its plan and submits it again.
MCEditions == {<<Entry("a", 1, FALSE, "none")>>, <<Entry("a", 2, FALSE, "none")>>}

\* One loop in each of several worker processes, or every loop in one.
OwnIds == [r \in Loops |-> r]
OneId == [r \in Loops |-> "worker"]
MCProcesses == {OwnIds, OneId}
OneProcess == {OneId}
MCTries == [p \in MCProcesses |-> IF p = OwnIds THEN 3 ELSE 2]
ThreeTries == [p \in MCProcesses |-> 3]

\* A uniform cadence before a longer last GOP, a broken one that does not decode, and one that does not start
\* with a keyframe.
Clip(s, streams, decodes) ==
  [packets |-> [i \in DOMAIN s |-> s[i] = 1], streams |-> streams, decodes |-> decodes]
MCMediaFiles ==
  {Clip(<<1, 0, 1, 0, 1, 0, 0>>, TRUE, TRUE), Clip(<<1, 0, 1, 1>>, TRUE, FALSE), Clip(<<0, 1, 1, 1>>, FALSE, TRUE)}

Shape(l, n) == [label |-> l, repeat |-> n, concrete |-> TRUE]
MCMatrices ==
  {<<Shape("phrase", 1), Shape("image", 1)>>, <<Shape("image", 2)>>, <<[Shape("image", 2) EXCEPT !.concrete = FALSE]>>}

\* Plans of at most two items drawn from one menu: every behaviour and recipe, canonical
\* and millisecond windows, children that overlap, names that become one path, a hash that
\* contradicts another, and every claim on the camera; the frame rates are 24 and 5/2.
AssetRef(id, hash, media) == [id |-> id, hash |-> hash, ext |-> "", media |-> media, url |-> ""]
PhotoA == AssetRef("a", 1, "image")
PhotoB == AssetRef("b", 2, "image")
ClipRef == AssetRef("clip", 3, "video")
FontRef == AssetRef("font", 4, "font")
SoundRef == AssetRef("whoosh", 5, "audio")

PlanItem(id, template, from, to) ==
  [id |-> id, template |-> template, kind |-> "", startMS |-> from, endMS |-> to, startUS |-> 0, durUS |-> NoUS,
   assets |-> <<>>, children |-> <<>>, caption |-> FALSE, style |-> Nothing, preset |-> TRUE, imagePreset |-> TRUE,
   cameraMotion |-> FALSE, motion |-> Nothing, groupMotion |-> FALSE, active |-> "", effects |-> FALSE, layout |-> 0,
   map |-> Nothing, pins |-> 1, routes |-> 0, fx |-> FALSE, blurs |-> FALSE, sfx |-> <<>>, segments |-> <<>>]
ChildOf(id, asset, from, to, caption) ==
  [id |-> id, asset |-> asset, start |-> from, end |-> to, caption |-> caption, captionStart |-> 0,
   captionEnd |-> 0, preset |-> TRUE, effects |-> id = "r"]
SfxOf(offset, dur) == <<[offsetMS |-> offset, durMS |-> dur, asset |-> SoundRef]>>
SegmentOf(template, from, dur, assets) ==
  [template |-> template, kind |-> "", startUS |-> from, durUS |-> dur, assets |-> assets, children |-> <<>>,
   preset |-> TRUE, imagePreset |-> TRUE, caption |-> FALSE, style |-> Nothing, map |-> Nothing, motion |-> Nothing,
   effects |-> TRUE, cameraMotion |-> FALSE]

ImageItem(id) == [PlanItem(id, "IMAGE_OVERLAY", 300, 1700) EXCEPT !.assets = <<PhotoA>>]
CompositeItem(id) ==
  [ImageItem(id) EXCEPT !.assets = <<PhotoA, PhotoB>>, !.endMS = 1731,
                    !.children = <<ChildOf("l", "a", 480, 1431, TRUE), ChildOf("r", "b", 240, 895, FALSE)>>]
SequenceItem(id, caption) ==
  [ImageItem(id) EXCEPT !.assets = <<PhotoA, PhotoB>>, !.startMS = 500, !.endMS = 7500, !.cameraMotion = TRUE,
                    !.children = <<ChildOf("l", "a", 0, 3000, caption), ChildOf("r", "b", 4000, 7000, caption)>>]
ChainItem(id) ==
  [PlanItem(id, "IMAGE_OVERLAY", 0, 2000) EXCEPT !.kind = "image_chain", !.assets = <<PhotoA, PhotoB>>,
     !.segments = <<SegmentOf("IMAGE_OVERLAY", 0, 1000000, <<PhotoA>>), SegmentOf("IMPORTANT_PHRASE", 900000, 1100000, <<>>)>>]

ItemMenu(id) ==
  {PlanItem(id, "IMPORTANT_PHRASE", 0, 1000),
   [PlanItem(id, "", 40, 41) EXCEPT !.kind = "number"],
   [ImageItem(id) EXCEPT !.startUS = 300400, !.durUS = 1399000, !.caption = TRUE, !.sfx = SfxOf(0, 1399)],
   [CompositeItem(id) EXCEPT !.sfx = SfxOf(240, 655)],
   CompositeItem(id), [ImageItem(id) EXCEPT !.sfx = SfxOf(0, 1500)],
   [ImageItem(id) EXCEPT !.assets = <<AssetRef("a", 9, "image")>>],
   [ImageItem(id) EXCEPT !.assets = <<AssetRef("img 1", 6, "image")>>], [ImageItem(id) EXCEPT !.assets = <<AssetRef("img/1", 7, "image")>>],
   SequenceItem(id, FALSE), SequenceItem(id, TRUE), ChainItem(id),
   [PlanItem(id, "PERSON", 0, 1500) EXCEPT !.assets = <<PhotoB>>, !.caption = TRUE, !.style = "camera"],
   [PlanItem(id, "MAP", 200, 2200) EXCEPT !.assets = <<PhotoA, PhotoB>>, !.map = "move", !.routes = 1],
   [PlanItem(id, "MAP", 0, 900) EXCEPT !.assets = <<PhotoB>>, !.map = "static", !.fx = TRUE],
   [CompositeItem(id) EXCEPT !.motion = "pan", !.groupMotion = TRUE, !.effects = TRUE],
   [CompositeItem(id) EXCEPT !.motion = "pan", !.endMS = 370,
      !.children = <<ChildOf("l", "a", 0, 60, FALSE), ChildOf("r", "b", 0, 70, TRUE)>>],
   [CompositeItem(id) EXCEPT !.motion = "group", !.groupMotion = TRUE], [CompositeItem(id) EXCEPT !.groupMotion = TRUE],
   [CompositeItem(id) EXCEPT !.motion = "stack", !.active = "r", !.effects = TRUE],
   [CompositeItem(id) EXCEPT !.motion = "premium", !.effects = TRUE],
   [ImageItem(id) EXCEPT !.motion = "captioned", !.caption = TRUE, !.effects = TRUE], [ImageItem(id) EXCEPT !.motion = "stack"],
   [PlanItem(id, "IMAGE_OVERLAY", 0, 500) EXCEPT !.kind = "light_leak", !.motion = "leak"],
   [CompositeItem(id) EXCEPT !.template = "ENTITY_GROUP", !.layout = 2],
   [PlanItem(id, "IMPORTANT_PHRASE", 0, 1000) EXCEPT !.motion = "brush", !.blurs = TRUE],
   [PlanItem(id, "VIDEO_OVERLAY", 100, 600) EXCEPT !.assets = <<ClipRef>>], PlanItem(id, "SHAPE", 0, 100)}

SemanticPlan(items) ==
  [num |-> 24, den |-> 1, durationMS |-> 1000, source |-> <<>>, stroke |-> FALSE, background |-> <<>>,
   watermark |-> <<>>, subtitles |-> <<>>, grid |-> FALSE, effects |-> FALSE, scene |-> <<>>, maps |-> 0,
   items |-> items]

SourceClips == {<<>>, <<[ref |-> ClipRef, path |-> <<"clip", "mp4">>]>>, <<[ref |-> ClipRef, path |-> <<>>]>>}
SceneCameras ==
  {<<>>, <<[rig |-> <<[start |-> 0, end |-> 500, overlap |-> 0], [start |-> 500, end |-> 1500, overlap |-> 300]>>,
            depth |-> {"x"}]>>}
SubtitleTracks == {<<>>, <<[ref |-> AssetRef("subs", 8, ""), burn |-> TRUE, styled |-> TRUE]>>}

MCPlans ==
  {SemanticPlan(<<x, y>>) : x \in ItemMenu("x"), y \in ItemMenu("y")}
  \cup {[SemanticPlan(items) EXCEPT !.num = 5, !.den = 2, !.durationMS = d, !.scene = s] :
          items \in {<<x>> : x \in ItemMenu("x")}, d \in {0, 1000}, s \in SceneCameras}
  \cup {[SemanticPlan(items) EXCEPT !.source = c, !.stroke = k, !.background = b, !.watermark = w, !.subtitles = u,
                            !.grid = g, !.effects = g] :
          items \in {<<>>, <<CompositeItem("x")>>}, c \in SourceClips, k \in BOOLEAN,
          b \in {<<>>, <<[refs |-> <<>>]>>, <<[refs |-> <<PhotoA>>]>>}, w \in {<<>>, <<[font |-> FontRef]>>}, u \in SubtitleTracks, g \in BOOLEAN}
  \cup {[SemanticPlan(<<>>) EXCEPT !.background = <<[refs |-> <<>>]>>, !.durationMS = 0, !.maps = m] : m \in {0, 1}}

MCCues == <<[start |-> 0, end |-> 490], [start |-> 490, end |-> 495], [start |-> 495, end |-> 1700]>>
MCCameraKeys == <<0, 30>>
MCRecipeFrames == <<2, 40>>

\* Motions of three frames and of thirty, with and without an exit of their own, one that
\* lives in the camera through its text only, one that sweeps, and a phrase recipe that
\* settles after its declared entrance; layers from one frame on.
TrackOf(property, frames) ==
  [property |-> property,
   keys |-> [i \in DOMAIN frames |-> KeyAt(frames[i], IF i = 1 THEN "0" ELSE IF i = Len(frames) THEN "1" ELSE "way")]]
AnimatorOf(unit, stagger, range, properties) ==
  [unit |-> unit, stagger |-> stagger, range |-> range, properties |-> properties]
MotionOf(en, ex, timeline, tracks, text) ==
  [enter |-> en, exit |-> ex, timeline |-> timeline, retired |-> FALSE, admitted |-> TRUE,
   tracks |-> tracks, text |-> text]
CatalogMotions ==
  {MotionOf(3, 2, FALSE, <<TrackOf("opacity", <<0, 3>>), TrackOf("position_y", <<0, 2, 3, 9>>)>>, <<>>),
   MotionOf(30, 0, FALSE, <<TrackOf("scale", <<0, 15, 30>>)>>, <<AnimatorOf("word", TRUE, FALSE, <<TrackOf("opacity", <<0, 4>>)>>)>>),
   MotionOf(0, 4, FALSE, <<TrackOf("rotation_y", <<0, 6>>)>>, <<AnimatorOf("glyph", FALSE, TRUE, <<TrackOf("position_z", <<0, 6>>)>>)>>),
   MotionOf(6, 0, FALSE, <<>>, <<AnimatorOf("", TRUE, TRUE, <<TrackOf("rotation_x", <<0, 6>>), TrackOf("blur", <<0, 2>>)>>)>>),
   MotionOf(4, 3, FALSE, <<>>, <<AnimatorOf("layer", FALSE, TRUE, <<TrackOf("opacity", <<0, 3>>)>>)>>),
   MotionOf(5, 3, TRUE, <<TrackOf("opacity", <<0, 12, 40>>), TrackOf("scale", <<0, 5, 18, 60>>)>>,
            <<AnimatorOf("word", FALSE, TRUE, <<TrackOf("position_y", <<0, 7>>)>>)>>)}
MotionLayer(motion, d) ==
  [motion |-> motion, named |-> TRUE, byPreset |-> FALSE, presetEnter |-> 0, presetExit |-> 0,
   enterParam |-> Absent, exitParam |-> Absent, duration |-> d, phrase |-> FALSE, text |-> TRUE]
MCMotionJobs ==
  {[MotionLayer(mo, d) EXCEPT !.enterParam = en, !.exitParam = ex, !.phrase = ph, !.text = ph \/ mo.text # <<>>] :
     mo \in CatalogMotions, d \in {1, 2, 3, 5, 9}, en \in {-1, 2}, ex \in {-1, 0, 1, 4}, ph \in BOOLEAN}
  \cup {[MotionLayer(mo, d) EXCEPT !.byPreset = TRUE, !.presetEnter = 4, !.presetExit = 3, !.phrase = ph, !.named = nm] :
           mo \in CatalogMotions, d \in {4, 7, 12}, ph \in BOOLEAN, nm \in BOOLEAN}
  \cup {[MotionLayer([mo EXCEPT !.retired = r, !.admitted = ~r], 5) EXCEPT !.enterParam = en] :
           mo \in CatalogMotions, r \in BOOLEAN, en \in {0, 241}}
  \cup {[MotionLayer([mo EXCEPT !.admitted = FALSE], 5) EXCEPT !.presetExit = 2] : mo \in CatalogMotions}

\* Up to three words of three centuries with repetitions and one that is no year, and four
\* or five years; on the command line and in a text.
MCYears == {<<1, 8, 9, 9>>, <<1, 9, 4, 8>>, <<1, 9, 7, 0>>, <<2, 0, 0, 7>>}
MCDateRequests ==
  {[words |-> w, text |-> t] : t \in BOOLEAN,
     w \in UNION {[1..n -> MCYears \cup {<<1, 3>>}] : n \in 0..3} \cup {y \in [1..4 -> MCYears] : IsInjective(y)}
           \cup {SampleYears, SampleYears \o <<<<2, 1, 0, 0>>>>}}

-----------------------------------------------------------------------------
serviceVars == <<part, cacheVars, storeVars, mediaVars, deliveredVars, probeVars, apiVars, compileVars, animVars,
                 familyVars, leaseVars, motionVars, dateVars>>

\* Only the service that runs has a choice of first states.
ServicesInit ==
  /\ part \in Parts
  /\ CacheInit /\ (part # "cache" => streaming /\ \A k \in Keys : l2[k] = "none" /\ l3[k] = "good")
  /\ StoreInit /\ (part # "store" => adapter = "disk")
  /\ MediaInit
  /\ DeliveryInit /\ (part # "delivery" => /\ capable /\ \A j \in DriveJobs : policy[j] = "drive"
                                          /\ columns = {} /\ userVersion = 0)
  /\ ProbeInit /\ (part # "calibration" => mode = "suite" /\ matrix = <<Shape("image", 2)>>)
  /\ ApiInit /\ (part # "api" => backend = "postgres" /\ hasWait)
  /\ CompileInit
  /\ AnimInit /\ (part # "owners" => \A k \in DOMAIN draw : draw[k] = 0)
  /\ FinalizerInit /\ (hostOf = OneHost => chunkFacts = [uncertified |-> {}, audio |-> "none"])
                   /\ (part # "family" => hostOf = OneHost)
  /\ LeaseInit /\ (part # "calls" => workerOf = OwnIds)
  /\ MotionInit
  /\ DateInit

CacheRuns ==
  /\ part = "cache" /\ CacheNext
  /\ UNCHANGED <<part, storeVars, mediaVars, deliveredVars, probeVars, apiVars, compileVars, animVars, familyVars, leaseVars, motionVars, dateVars>>
StoreRuns ==
  /\ part = "store" /\ StoreNext
  /\ UNCHANGED <<part, cacheVars, mediaVars, deliveredVars, probeVars, apiVars, compileVars, animVars, familyVars, leaseVars, motionVars, dateVars>>
MediaRuns ==
  /\ part = "media" /\ MediaNext
  /\ UNCHANGED <<part, cacheVars, storeVars, deliveredVars, probeVars, apiVars, compileVars, animVars, familyVars, leaseVars, motionVars, dateVars>>
DeliveryRuns ==
  /\ part = "delivery" /\ DeliveryNext
  /\ UNCHANGED <<part, cacheVars, storeVars, mediaVars, probeVars, apiVars, compileVars, animVars, familyVars, leaseVars, motionVars, dateVars>>
CalibrationRuns ==
  /\ part = "calibration" /\ ProbeNext
  /\ UNCHANGED <<part, cacheVars, storeVars, mediaVars, deliveredVars, apiVars, compileVars, animVars, familyVars, leaseVars, motionVars, dateVars>>
ApiRuns ==
  /\ part = "api" /\ ApiNext
  /\ UNCHANGED <<part, cacheVars, storeVars, mediaVars, deliveredVars, probeVars, compileVars, animVars, familyVars, leaseVars, motionVars, dateVars>>
OverlayRuns ==
  /\ part = "overlay" /\ CompileNext
  /\ UNCHANGED <<part, cacheVars, storeVars, mediaVars, deliveredVars, probeVars, apiVars, animVars, familyVars, leaseVars, motionVars, dateVars>>
OwnersRun ==
  /\ part = "owners" /\ AnimNext
  /\ UNCHANGED <<part, cacheVars, storeVars, mediaVars, deliveredVars, probeVars, apiVars, compileVars, familyVars, leaseVars, motionVars, dateVars>>

FamilyRuns ==
  /\ part = "family" /\ FinalizerNext
  /\ UNCHANGED <<part, cacheVars, storeVars, mediaVars, deliveredVars, probeVars, apiVars, compileVars, animVars, leaseVars, motionVars, dateVars>>

CallsRun ==
  /\ part = "calls" /\ LeaseNext
  /\ UNCHANGED <<part, cacheVars, storeVars, mediaVars, deliveredVars, probeVars, apiVars, compileVars, animVars, familyVars, motionVars, dateVars>>

MotionRuns ==
  /\ part = "motion" /\ MotionNext
  /\ UNCHANGED <<part, cacheVars, storeVars, mediaVars, deliveredVars, probeVars, apiVars, compileVars, animVars, familyVars, leaseVars, dateVars>>

DatesRun ==
  /\ part = "dates" /\ DateNext
  /\ UNCHANGED <<part, cacheVars, storeVars, mediaVars, deliveredVars, probeVars, apiVars, compileVars, animVars, familyVars, leaseVars, motionVars>>

ServicesNext ==
  CacheRuns \/ StoreRuns \/ MediaRuns \/ DeliveryRuns \/ CalibrationRuns
  \/ ApiRuns \/ OverlayRuns \/ OwnersRun \/ FamilyRuns \/ CallsRun \/ MotionRuns \/ DatesRun

\* What the worker certifies about a file and what the laboratory certifies about the
\* renderers is measured on them.
MeasurementsAreReal == ProbeTellsTheTruth /\ CalibrationIsReal

\* Bytes a caller gets are the ones it asked for and every caller is served or told, from
\* the worker's three-level cache down to the object store that survives power losses.
StorageIsHonest == CacheIsGenuine /\ StoreIsHonest

\* What the compiler hands to the renderer for a plan is sound, and so are the tracks it
\* makes of a motion for any layer and the clip the date command makes of any years.
PlanIsRenderable == CompiledPlanIsSound /\ MotionIsPlayable /\ DatesAreShown

\* A report of a loop whose lease is over is refused and changes nothing
\* (queue/internal/server/transition_routes.go: "a stale worker is a conflict, never a
\* corruption vector"): so what the ledger holds comes from one render.
StaleReportIsConflict ==
  /\ \A j \in LeaseJobs : filed[j] # <<>> => OneRender(StoredArtifact(j))
  /\ shown.at = "served" => OneRender(shown.art)

\* Of the parts only the finalizer runs have a property that needs fairness.
ServicesSpec ==
  /\ ServicesInit /\ [][ServicesNext]_serviceVars
  /\ \A r \in Runs : WF_familyVars(part = "family" /\ RunStep(r))
  /\ WF_familyVars(part = "family" /\ RequeueStep)
  /\ WF_familyVars(part = "family" /\ ParentLeaseElapses)
=============================================================================
