---------------------------- MODULE PlanCompile ----------------------------
(* The lowering of one semantic overlay plan to the plan the renderer        *)
(* executes, up to the package written beside it: the passes of              *)
(* compileSemanticDecoded in their order, one action per pass and one step   *)
(* per item, and the processor's passes over the compiled plan.  Every pass  *)
(* may refuse the plan; the passes share one asset registry, one canvas, one *)
(* list of layers and one set of camera controllers.                         *)
(*                                                                           *)
(* Times are milliseconds and microseconds, windows are frames, half open.   *)
(* Geometry, styles and motions are left out: a layer is who owns it, what   *)
(* it draws, when, and whether it needs the third version of the contract.   *)
EXTENDS Integers, Sequences, FiniteSets, SequencesExt

CONSTANTS
  SemanticPlans,      \* the documents a producer may send
  SubtitleCues,       \* the cues of a subtitle file, in milliseconds
  EntityCameraKeys,   \* the key frames of an entity camera in the motion catalogue
  RecipeFrames,       \* the shortest and the longest image a recipe admits
  RecipeImages        \* the images a group recipe with a layout is authored for

Nothing == "none"
NoUS == -1

VARIABLES
  pass,      \* the pass that runs next, "ready", or "refused"
  src,        \* the document
  cursor,         \* the item the pass is at
  registry,   \* the registered assets: id -> hash and logical path
  resolved,   \* the resolved items
  layers, windows, canvas,
  pending,    \* the sound cues that wait for the canvas
  cues,       \* the sound cues of the plan
  cameras,    \* the observed camera controllers
  camera,     \* who moves the camera, its key frames and the baked poses
  stalePackage, package, wireVersion
compileVars == <<pass, src, cursor, registry, resolved, layers, windows, canvas, pending, cues,
                 cameras, camera, stalePackage, package, wireVersion>>

-----------------------------------------------------------------------------
(* Time.                                                                      *)

\* math.Round of a product that is never negative.
FrameAtUS(us, p) == (2 * us * p.num + p.den * 1000000) \div (2 * p.den * 1000000)
FrameAtMS(ms, p) == FrameAtUS(1000 * ms, p)

Canonical(it) == it.durUS # NoUS
ItemWindowUS(it) ==
  IF Canonical(it) THEN [from |-> it.startUS, to |-> it.startUS + it.durUS]
  ELSE [from |-> 1000 * it.startMS, to |-> 1000 * it.endMS]

\* The millisecond window is the floor and the ceiling of the canonical one.
DecodesItem(it) ==
  Canonical(it) =>
    /\ it.startUS >= 0 /\ it.durUS > 0
    /\ it.startMS = it.startUS \div 1000
    /\ it.endMS = (it.startUS + it.durUS + 999) \div 1000

-----------------------------------------------------------------------------
(* Kinds and templates.                                                       *)

BehaviorOf(kind) ==
  CASE kind \in {"entity_card", "organization", "location", "concept"} -> "entity"
    [] kind \in {"entity_image", "image_popup", "product", "logo", "light_leak", "image", "image_chain"} -> "image"
    [] kind \in {"video_overlay", "adjustment", "video", "rendered_overlay"} -> "video"
    [] kind \in {"shape", "map"} -> kind
    [] kind = "entity_group" -> "group"
    [] OTHER -> "text"
IsChain(kind) == kind \in {"phrase_chain", "image_chain", "mixed_chain", "map_chain"}

TemplateRow(kind, preset) == [kind |-> kind, requiresPreset |-> preset]
TemplateRegistry ==
  [PERSON           |-> TemplateRow("entity_card", TRUE),
   PERSON_DEFAULT   |-> TemplateRow("entity_card", FALSE),
   IMPORTANT_PHRASE |-> TemplateRow("important_phrase", TRUE),
   IMAGE_OVERLAY    |-> TemplateRow("entity_image", TRUE),
   IMAGE_POPUP      |-> TemplateRow("image_popup", FALSE),
   VIDEO_OVERLAY    |-> TemplateRow("video_overlay", FALSE),
   SHAPE            |-> TemplateRow("shape", FALSE),
   MAP              |-> TemplateRow("map", FALSE),
   ENTITY_GROUP     |-> TemplateRow("entity_group", FALSE),
   PHRASE_CHAIN     |-> TemplateRow("important_phrase", FALSE),
   MIXED_CHAIN      |-> TemplateRow("primitive", FALSE)]
Registered(template) == template \in DOMAIN TemplateRegistry
TemplateSpecFor(template) ==
  IF Registered(template) THEN TemplateRegistry[template] ELSE TemplateRow("primitive", FALSE)

\* The kind of an item, or None when it contradicts its template.
ResolveKind(it) ==
  LET row == TemplateSpecFor(it.template) IN
    CASE it.kind = "" -> row.kind
      [] it.kind # "" /\ row.kind = "primitive" -> it.kind
      [] OTHER -> IF BehaviorOf(it.kind) = BehaviorOf(row.kind) THEN it.kind ELSE Nothing

-----------------------------------------------------------------------------
(* The asset registry.                                                        *)

\* Characters outside the safe set become underscores; the extension is the one of the
\* URL, or the one of the media type when the URL has none; a URL under assets/ is the
\* path itself.
SafeID(id) == IF id \in {"img 1", "img/1"} THEN "img_1" ELSE id
ExtOf(ref) == IF ref.ext # "" THEN ref.ext
              ELSE CASE ref.media = "image" -> "png" [] ref.media = "video" -> "mp4"
                     [] ref.media = "audio" -> "m4a" [] ref.media = "font" -> "ttf" [] OTHER -> ""
SemanticAssetPath(ref) == IF ref.url # "" THEN <<ref.url>> ELSE <<SafeID(ref.id), ExtOf(ref)>>

\* Mutant: only a second hash under one id is refused.
RegisterAnyPath(reg, ref, path) == ref.hash # 0 /\ (ref.id \in DOMAIN reg => reg[ref.id].hash = ref.hash)
\* The hash 0 stands for one that is not 64 hexadecimal digits.
CanRegister(reg, ref, path) ==
  /\ ref.hash # 0
  /\ IF ref.id \in DOMAIN reg THEN reg[ref.id].hash = ref.hash
     ELSE \A i \in DOMAIN reg : reg[i].path # path
Registering(reg, ref, path) ==
  IF ref.id \in DOMAIN reg THEN reg
  ELSE [i \in DOMAIN reg \cup {ref.id} |->
          IF i = ref.id THEN [hash |-> ref.hash, path |-> path] ELSE reg[i]]

\* Registration of a list of references, one after the other.
RegisterAll(reg, refs) ==
  FoldLeft(LAMBDA acc, ref :
             IF acc.ok /\ CanRegister(acc.reg, ref, SemanticAssetPath(ref))
             THEN [ok |-> TRUE, reg |-> Registering(acc.reg, ref, SemanticAssetPath(ref))]
             ELSE [acc EXCEPT !.ok = FALSE],
           [ok |-> TRUE, reg |-> reg], refs)

\* The path of an asset, empty when nobody registered it.
PathOf(reg, id) == IF id \in DOMAIN reg THEN reg[id].path ELSE <<>>

-----------------------------------------------------------------------------
(* Item validation.                                                           *)

AssetIds(it) == {it.assets[i].id : i \in DOMAIN it.assets}

ValidImageLayers(it, kind) ==
  \/ IsChain(kind)
  \/ /\ it.children = <<>>
     /\ Len(it.assets) > 1 => BehaviorOf(kind) \notin {"image", "entity"}
  \/ /\ it.children # <<>>
     /\ BehaviorOf(kind) \in {"image", "group"}
     /\ Len(it.children) >= 2 /\ Len(it.assets) >= 2
     /\ \A i \in DOMAIN it.children :
          LET c == it.children[i] IN
            /\ c.asset \in AssetIds(it) /\ c.preset
            /\ \A j \in 1 .. i - 1 : it.children[j].id # c.id
            /\ c.start >= 0 /\ c.start < c.end /\ c.end <= it.endMS - it.startMS
     /\ ~it.caption

ValidStyle(it, kind) ==
  it.style # Nothing =>
    /\ it.style # "unknown"
    /\ BehaviorOf(kind) \in {"entity", "image"}
    /\ it.children = <<>> /\ it.assets # <<>> /\ it.caption

ValidPreset(it) == TemplateSpecFor(it.template).requiresPreset => it.preset

\* A map that stands still is one raster, and only it takes an effect around its first
\* pin; a map that flies has a raster per level of detail, and only it shows routes.
MaxMapLODs == 8
ValidMapLODs(it) ==
  CASE it.map = "static" -> Len(it.assets) = 1
    [] it.map = "move" -> Len(it.assets) \in 2 .. MaxMapLODs
    [] OTHER -> TRUE
ValidMap(it, kind) ==
  /\ (kind = "map") <=> (it.map # Nothing)
  /\ ValidMapLODs(it)
  /\ it.routes > 0 => it.map = "move"
  /\ it.fx => it.map = "static" /\ it.pins = 1

\* What one item must satisfy beyond its window; a chain's segments meet it too.
ValidContent(it, kind) ==
  /\ kind # Nothing
  /\ it.template # "" => Registered(it.template)
  /\ ValidImageLayers(it, kind)
  /\ ValidMap(it, kind)
  /\ ValidPreset(it)

ResolvedWindow(it, p) ==
  [start |-> FrameAtUS(ItemWindowUS(it).from, p), end |-> FrameAtUS(ItemWindowUS(it).to, p)]

Resolves(it, p) ==
  LET kind == ResolveKind(it)
      w == ResolvedWindow(it, p) IN
    /\ it.startMS >= 0 /\ it.startMS < it.endMS
    /\ w.start < w.end
    /\ ValidContent(it, kind)
    /\ ValidStyle(it, kind)
    /\ BehaviorOf(kind) = "image" /\ kind # "light_leak" => it.assets # <<>> \/ it.children # <<>>
    /\ kind = "light_leak" => it.motion # Nothing
    /\ BehaviorOf(kind) = "video" => it.assets # <<>>

Resolve(it, p) ==
  [item |-> it, kind |-> ResolveKind(it),
   start |-> ResolvedWindow(it, p).start, end |-> ResolvedWindow(it, p).end]

-----------------------------------------------------------------------------
(* Layers.                                                                    *)

\* Where a caption is drawn: beside its own image, or, for the names of a camera
\* sequence, all at the centre of the screen.
Layer(owner, tag, type, start, end) ==
  [owner |-> owner, tag |-> tag, type |-> type, start |-> start, frames |-> end - start,
   v3 |-> type \in {"shape", "adjustment"}, path |-> <<>>,
   place |-> <<owner>> \o tag, child |-> FALSE, entity |-> FALSE, effects |-> 0]
IsCaption(l) == Last(l.tag) = "caption"
LayerEnd(l) == l.start + l.frames

MaxOf(a, b) == IF a < b THEN b ELSE a
MinOf(a, b) == IF a < b THEN a ELSE b

SequenceTravelMS == 2000
SequenceHoldMS == 1500

\* A photographic surface: what an item's effect stack decorates.
BaseImage(ri, tag, asset, start, end, reg) ==
  [Layer(ri.item.id, Append(tag, "image"), "image", start, end)
     EXCEPT !.path = PathOf(reg, asset), !.entity = ri.kind = "entity_image"]
\* A caption stays with its image.
CaptionLayer(image) ==
  Layer(image.owner, Append(Front(image.tag), "caption"), "text", image.start, LayerEnd(image))

\* The recipes of the motion catalogue: premium ones decorate one image (one of them
\* wants its caption, the stack wants several images), group ones move several; a
\* reusable group recipe serves a single image as an ordinary motion.
IsPremium(it) == it.motion \in {"premium", "captioned", "stack"}
IsGroupRecipe(it) == it.motion \in {"group", "pan"} \/ (it.motion = "reusable" /\ it.children # <<>>)
SupportsCount(it) == Len(it.children) \in 2 .. 5 /\ (it.motion = "group" => Len(it.children) = RecipeImages)

\* The plates and strokes of a premium recipe last as long as their image.
PremiumLayers(it, image) ==
  IF IsPremium(it) THEN <<image, Layer(image.owner, Append(image.tag, "premium"), "shape", image.start, LayerEnd(image))>>
  ELSE <<image>>

\* The window of a child: its own inside the item, or, in a camera sequence, the whole
\* item, so that every portrait is there before the camera arrives.
ChildWindow(ri, k, p) ==
  LET c == ri.item.children[k] IN
    IF ri.item.cameraMotion THEN [start |-> ri.start, end |-> ri.end]
    ELSE [start |-> ri.start + FrameAtMS(c.start, p), end |-> ri.start + FrameAtMS(c.end, p)]
ChildImage(ri, k, p, reg) ==
  LET w == ChildWindow(ri, k, p)
      c == ri.item.children[k] IN
    [BaseImage(ri, <<c.id>>, c.asset, w.start, w.end, reg) EXCEPT !.child = TRUE, !.effects = IF c.effects THEN 1 ELSE 0]

\* The caption of a child: it ends before the camera of a sequence leaves its image, or
\* has the window the producer gave it.
ChildCaption(ri, k, p, image) ==
  LET c == ri.item.children[k]
      text == CaptionLayer(image)
      panStart == ri.start + FrameAtMS(ri.item.children[k + 1].start, p) - FrameAtMS(SequenceTravelMS, p)
      captionEnd == IF k < Len(ri.item.children) THEN MinOf(ri.end, panStart) ELSE ri.end IN
    CASE ri.item.cameraMotion -> [text EXCEPT !.frames = MaxOf(1, captionEnd - ri.start), !.place = <<"centre">>]
      [] ~ri.item.cameraMotion /\ c.captionEnd > 0 ->
           [text EXCEPT !.start = ri.start + FrameAtMS(c.captionStart, p),
                        !.frames = MaxOf(1, FrameAtMS(c.captionEnd, p) - FrameAtMS(c.captionStart, p))]
      [] OTHER -> text

\* A composite of the plans without group motion; the images of a camera sequence are
\* plain photographs.
LegacyCompositeLayers(ri, p, reg) ==
  FlattenSeq([k \in DOMAIN ri.item.children |->
    LET image == [ChildImage(ri, k, p, reg) EXCEPT !.entity = @ /\ ~ri.item.cameraMotion]
        decorated == IF ri.item.cameraMotion THEN <<image>> ELSE PremiumLayers(ri.item, image) IN
      decorated \o (IF ri.item.children[k].caption THEN <<ChildCaption(ri, k, p, image)>> ELSE <<>>)])

\* The members of a group recipe; those of a camera pan are all there for the whole item
\* and their captions ride with them.
GroupRecipeLayers(ri, p, reg) ==
  FlattenSeq([k \in DOMAIN ri.item.children |->
    LET whole == ri.item.motion = "pan"
        member == ChildImage([ri EXCEPT !.item.cameraMotion = FALSE], k, p, reg)
        image == IF whole THEN [member EXCEPT !.start = ri.start, !.frames = ri.end - ri.start] ELSE member IN
      IF ri.item.children[k].caption THEN <<image, CaptionLayer(image)>> ELSE <<image>>])

\* The stack: the active image alone is decorated.
StackLayers(ri, p, reg) ==
  FlattenSeq([k \in DOMAIN ri.item.children |->
    LET image == ChildImage([ri EXCEPT !.item.cameraMotion = FALSE], k, p, reg)
        c == ri.item.children[k] IN
      (IF c.id = ri.item.active THEN PremiumLayers(ri.item, image) ELSE <<image>>)
        \o (IF c.caption THEN <<CaptionLayer(image)>> ELSE <<>>)])

\* A light leak without an image is its glow and nothing else.
LightLeakLayers(ri) == <<Layer(ri.item.id, <<"glow">>, "shape", ri.start, ri.end)>>

SingleImageLayers(ri, reg) ==
  LET image == BaseImage(ri, <<>>, ri.item.assets[1].id, ri.start, ri.end, reg) IN
    PremiumLayers(ri.item, image) \o (IF ri.item.caption THEN <<CaptionLayer(image)>> ELSE <<>>)

ImageItemLayers(ri, p, reg) ==
  CASE ri.item.assets = <<>> /\ ri.item.children = <<>> -> LightLeakLayers(ri)
    [] ri.item.assets # <<>> /\ ri.item.children = <<>> -> SingleImageLayers(ri, reg)
    [] ri.item.children # <<>> /\ IsGroupRecipe(ri.item) -> GroupRecipeLayers(ri, p, reg)
    [] ri.item.children # <<>> /\ ri.item.motion = "stack" -> StackLayers(ri, p, reg)
    [] OTHER -> LegacyCompositeLayers(ri, p, reg)

\* The length a premium or a group recipe admits.
WithinRecipe(frames) == RecipeFrames[1] <= frames /\ frames <= RecipeFrames[2]
MembersFit(ri, p) ==
  IF ri.item.motion = "pan" THEN WithinRecipe(ri.end - ri.start)
  ELSE \A k \in DOMAIN ri.item.children :
         LET w == ChildWindow([ri EXCEPT !.item.cameraMotion = FALSE], k, p) IN WithinRecipe(w.end - w.start)

\* A composite child inherits the motion of its parent's recipe; one caption among the
\* children is enough for the child's own check, every caption for the item's.
LegacyCompositeCompiles(ri, p) ==
  IsPremium(ri.item) /\ ~ri.item.cameraMotion =>
    ri.item.motion # "stack" /\ \A k \in DOMAIN ri.item.children :
      LET w == ChildWindow(ri, k, p) IN WithinRecipe(w.end - w.start)
GroupRecipeCompiles(ri, p) == BehaviorOf(ri.kind) = "image" /\ SupportsCount(ri.item) /\ MembersFit(ri, p)
StackCompiles(ri, p) ==
  /\ \E k \in DOMAIN ri.item.children : ri.item.children[k].id = ri.item.active
  /\ MembersFit(ri, p)
SingleImageCompiles(ri) ==
  /\ ri.item.motion \notin {"group", "pan", "stack"}
  /\ IsPremium(ri.item) => WithinRecipe(ri.end - ri.start)
  /\ ri.item.motion = "captioned" => ri.item.caption

\* A group motion without a recipe is refused: it would be animated by two owners.
ImageItemCompiles(ri, p) ==
  LET it == ri.item IN
    CASE it.assets = <<>> /\ it.children = <<>> -> it.motion = "leak" /\ ri.kind = "light_leak"
      [] it.assets # <<>> /\ it.children = <<>> -> SingleImageCompiles(ri)
      [] it.children # <<>> /\ IsGroupRecipe(it) -> GroupRecipeCompiles(ri, p)
      [] it.children # <<>> /\ it.motion = "stack" -> StackCompiles(ri, p)
      [] OTHER -> /\ it.motion = "captioned" => \A k \in DOMAIN it.children : it.children[k].caption
                  /\ ~it.groupMotion /\ LegacyCompositeCompiles(ri, p)

\* Entity cards and groups: a portrait with its caption; up to five members in slots.
EntityCardCompiles(ri) ==
  /\ BehaviorOf(ri.kind) = "image" => ri.item.imagePreset
  /\ ri.item.motion # Nothing => ri.item.imagePreset
  /\ SingleImageCompiles(ri)
EntityGroupCompiles(ri, p) ==
  /\ Len(ri.item.children) \in 2 .. 5
  /\ ri.item.layout \in {0, Len(ri.item.children)}
  /\ LegacyCompositeCompiles(ri, p)

VideoLayers(ri, reg) ==
  <<[Layer(ri.item.id, <<"overlay">>, "video", ri.start, ri.end) EXCEPT !.path = PathOf(reg, ri.item.assets[1].id)]>>
ShapeLayers(ri) == <<Layer(ri.item.id, <<"shape">>, "shape", ri.start, ri.end)>>
TextLayers(ri) ==
  LET text == Layer(ri.item.id, <<"text">>, "text", ri.start, ri.end) IN
    IF ri.item.motion = "brush"
    THEN <<text, Layer(ri.item.id, <<"text", "premium">>, "shape", ri.start, ri.end)>> ELSE <<text>>

\* The plate of a map, its routes, a marker and a label for each pin, the effect of a
\* map that stands still, and the credit, which stays on the screen.
MapLayers(ri, reg) ==
  LET it == ri.item
      part(tag, type) == Layer(it.id, tag, type, ri.start, ri.end) IN
    <<[part(<<"map_basemap">>, "image") EXCEPT !.path = PathOf(reg, it.assets[1].id)]>>
      \o [n \in 1 .. it.routes |-> part(<<n, "map_route">>, "shape")]
      \o FlattenSeq([n \in 1 .. it.pins |-> <<part(<<n, "map_pin">>, "shape"), part(<<n, "map_label">>, "text")>>])
      \o (IF it.fx THEN <<part(<<"map_fx">>, "shape")>> ELSE <<>>)
      \o <<[part(<<"map_attribution">>, "text") EXCEPT !.v3 = TRUE]>>

\* Mutant: the stack decorates the plates of a recipe too.
DecoratedAll(ri, made) ==
  [i \in DOMAIN made |-> IF ri.item.effects THEN [made[i] EXCEPT !.effects = 1] ELSE made[i]]
\* The effect stack of an item goes on every photograph its compiler made, once.
Decorated(ri, made) ==
  [i \in DOMAIN made |->
     IF ri.item.effects /\ made[i].type = "image" /\ Last(made[i].tag) = "image"
     THEN [made[i] EXCEPT !.effects = @ + 1] ELSE made[i]]
TakesEffects(ri) ==
  BehaviorOf(ri.kind) \in {"group", "image"} \/ (BehaviorOf(ri.kind) = "entity" /\ ri.item.assets # <<>>)

\* compileItem, chains aside: one compiler per behaviour.
IsEntityCard(ri) ==
  \/ BehaviorOf(ri.kind) = "entity" /\ ri.item.assets # <<>>
  \/ BehaviorOf(ri.kind) = "image" /\ ri.item.style # Nothing /\ ri.item.assets # <<>>
RawLayers(ri, p, reg) ==
  LET behavior == BehaviorOf(ri.kind) IN
    CASE behavior = "group" -> LegacyCompositeLayers(ri, p, reg)
      [] IsEntityCard(ri) -> SingleImageLayers(ri, reg)
      [] behavior = "image" /\ ~IsEntityCard(ri) -> ImageItemLayers(ri, p, reg)
      [] behavior = "video" -> VideoLayers(ri, reg)
      [] behavior = "shape" -> ShapeLayers(ri)
      [] behavior = "map" -> MapLayers(ri, reg)
      [] OTHER -> TextLayers(ri)
ItemLayers(ri, p, reg) ==
  IF TakesEffects(ri) THEN Decorated(ri, RawLayers(ri, p, reg)) ELSE RawLayers(ri, p, reg)

ItemCompiles(ri, p) ==
  /\ CASE BehaviorOf(ri.kind) = "group" -> EntityGroupCompiles(ri, p)
       [] IsEntityCard(ri) -> EntityCardCompiles(ri)
       [] BehaviorOf(ri.kind) = "image" /\ ~IsEntityCard(ri) -> ImageItemCompiles(ri, p)
       [] OTHER -> TRUE
  /\ TakesEffects(ri) /\ ri.item.effects => ri.item.children # <<>> \/ ri.item.assets # <<>>

\* A segment of a chain, rebuilt as the item it was fused from; the window and the
\* identity stay the chain's.
SegmentItem(seg, chain) ==
  [chain EXCEPT !.template = seg.template, !.kind = seg.kind, !.assets = seg.assets,
                !.children = seg.children, !.preset = seg.preset, !.imagePreset = seg.imagePreset,
                !.cameraMotion = seg.cameraMotion, !.caption = seg.caption, !.style = seg.style, !.map = seg.map,
                !.motion = seg.motion, !.effects = seg.effects, !.routes = 0, !.fx = FALSE,
                !.sfx = <<>>, !.segments = <<>>]
SegmentRI(ri, n, p) ==
  LET seg == ri.item.segments[n]
      it == SegmentItem(seg, ri.item) IN
    [item |-> it, kind |-> ResolveKind(it),
     start |-> FrameAtUS(seg.startUS, p), end |-> FrameAtUS(seg.startUS + seg.durUS, p)]

SegmentCompiles(ri, n, p) ==
  LET seg == ri.item.segments[n]
      w == ItemWindowUS(ri.item)
      s == SegmentRI(ri, n, p) IN
    /\ seg.durUS > 0 /\ seg.startUS >= 0
    /\ w.from <= seg.startUS /\ seg.startUS + seg.durUS <= w.to
    /\ s.start < s.end
    /\ ValidContent(s.item, s.kind)
    /\ ItemCompiles(s, p)

\* Every layer of a segment after the first fades in, which only the third version says.
SegmentLayers(ri, n, p, reg) ==
  [k \in DOMAIN ItemLayers(SegmentRI(ri, n, p), p, reg) |->
     LET l == ItemLayers(SegmentRI(ri, n, p), p, reg)[k] IN
       [l EXCEPT !.tag = <<n>> \o @, !.v3 = @ \/ (n > 1 /\ SegmentRI(ri, n, p).kind # "map")]]

Compiles(ri, p) ==
  IF IsChain(ri.kind)
  THEN Len(ri.item.segments) >= 2 /\ \A n \in DOMAIN ri.item.segments : SegmentCompiles(ri, n, p)
  ELSE ItemCompiles(ri, p)
CompileItem(ri, p, reg) ==
  IF IsChain(ri.kind)
  THEN FlattenSeq([n \in DOMAIN ri.item.segments |-> SegmentLayers(ri, n, p, reg)])
  ELSE ItemLayers(ri, p, reg)

-----------------------------------------------------------------------------
(* Sound cues.                                                                *)

\* The child that is seen first; of two that start together, the longer one.
FirstChild(it) ==
  CHOOSE k \in DOMAIN it.children :
    \A j \in DOMAIN it.children :
      LET c == it.children[k]
          d == it.children[j] IN
        \/ c.start < d.start
        \/ c.start = d.start /\ (c.end > d.end \/ (c.end = d.end /\ k <= j))

\* The window the first image of an item is visible in, relative to the item.
VisibleUS(it) ==
  LET length == ItemWindowUS(it).to - ItemWindowUS(it).from IN
    IF it.children = <<>> THEN [from |-> 0, to |-> length]
    ELSE LET c == it.children[FirstChild(it)] IN [from |-> 1000 * c.start, to |-> MinOf(1000 * c.end, length)]

\* The item of that id that was resolved last, as the map of resolved items keeps it.
ResolvedByID(id) == resolved[CHOOSE i \in DOMAIN resolved :
                               /\ resolved[i].item.id = id
                               /\ \A j \in DOMAIN resolved : resolved[j].item.id = id => j <= i]

SoundEffectCue(it, ri, p) ==
  LET v == VisibleUS(it) IN
    [owner |-> it.id, start |-> ri.start + FrameAtUS(v.from, p), visibleEnd |-> ri.start + FrameAtUS(v.to, p),
     frames |-> FrameAtMS(it.sfx[1].durMS, p)]
ValidSoundEffect(it, ri, p) ==
  LET v == VisibleUS(it)
      cue == SoundEffectCue(it, ri, p) IN
    /\ BehaviorOf(ri.kind) = "image"
    /\ it.sfx[1].durMS > 0 /\ 1000 * it.sfx[1].offsetMS = v.from
    /\ 1000 * it.sfx[1].durMS <= v.to - v.from
    /\ it.sfx[1].asset.media = "audio"
    /\ cue.start < cue.visibleEnd /\ cue.frames > 0

-----------------------------------------------------------------------------
(* Camera controllers.                                                        *)

NoController == [start |-> 0, end |-> 0, item |-> Nothing]

\* The first segment of a chain that moves the camera over its images.
ChainSequences(ri, p) ==
  SelectSeq([n \in DOMAIN ri.item.segments |-> SegmentRI(ri, n, p)],
            LAMBDA s : s.item.cameraMotion /\ Len(s.item.children) >= 2)
SequenceOf(ri, p) ==
  CASE ri.item.cameraMotion -> ri
    [] ~ri.item.cameraMotion /\ IsChain(ri.kind) /\ ChainSequences(ri, p) # <<>> -> Head(ChainSequences(ri, p))
    [] OTHER -> NoController

MovesEntityCamera(ri) == BehaviorOf(ri.kind) \in {"entity", "image"} /\ ri.item.style = "camera"
MovesMapCamera(ri) == ri.item.map = "move"

\* Mutant: a second map may take the camera over from the first.
ObservesLast(ri) == MovesEntityCamera(ri) => cameras.entity = Nothing
Observes(ri) ==
  /\ MovesEntityCamera(ri) => cameras.entity = Nothing
  /\ MovesMapCamera(ri) => cameras.map = NoController
Observed(ri, p) ==
  [sequence |-> IF cameras.sequence = NoController THEN SequenceOf(ri, p) ELSE cameras.sequence,
   entity |-> IF MovesEntityCamera(ri) THEN ri.item.id ELSE cameras.entity,
   map |-> IF MovesMapCamera(ri) THEN ri ELSE cameras.map]

\* Of the keys on one frame the last one stays.
DedupeKeys(keys) ==
  FoldLeft(LAMBDA out, f : IF out # <<>> /\ Last(out) = f THEN out ELSE Append(out, f), <<>>, keys)

\* One move of a camera sequence: a hold on the image that is shown, then the travel,
\* shortened to the time there is; without time for both, the arrival is delayed.
SequenceMove(keys, arrivesAt, p) ==
  LET hold == FrameAtMS(SequenceHoldMS, p)
      wanted == MaxOf(arrivesAt, Last(keys) + 1)
      arrival == IF wanted - Last(keys) - hold < 1 THEN Last(keys) + hold + 1 ELSE wanted
      travel == MinOf(FrameAtMS(SequenceTravelMS, p), arrival - Last(keys) - hold) IN
    keys \o <<arrival - travel, arrival>>
SequenceKeys(ri, p) ==
  LET arrival(k) == ri.start + FrameAtMS(ri.item.children[k].start, p)
      moves == FoldLeft(LAMBDA keys, k : SequenceMove(keys, arrival(k), p), <<arrival(1)>>,
                        [k \in 1 .. Len(ri.item.children) - 1 |-> k + 1]) IN
    DedupeKeys(IF Last(moves) < ri.end THEN Append(moves, ri.end) ELSE moves)

\* The strip of a camera pan, in frames of its item: a hold on the first image, then for
\* each further one a travel that ends at its arrival.  Without starts of their own the
\* arrivals are spread evenly.
PanArrivals(ri, p) ==
  LET frames == ri.end - ri.start
      n == Len(ri.item.children)
      step == MaxOf(1, frames \div n)
      start(k) == FrameAtMS(ri.item.children[k].start, p)
      staggered == \E k \in 2 .. n : start(k) > 0
      arrive(before, k) ==
        LET wanted == IF staggered THEN start(k) ELSE (k - 1) * step
            later == IF wanted <= before THEN before + step ELSE wanted IN
          MaxOf(MinOf(later, frames - 1), before + 1) IN
    FoldLeft(LAMBDA out, k : Append(out, arrive(Last(out), k)), <<0>>, [k \in 1 .. n - 1 |-> k + 1])
\* Mutant: the arrival is not held before the end of the item.
PanStepLate(keys, arrivesAt, step, frames) ==
  LET moveStart == MaxOf(arrivesAt - MaxOf(1, (step * 3) \div 5), Last(keys) + 1) IN
    keys \o <<moveStart, MaxOf(arrivesAt, moveStart + 1)>>
PanStep(keys, arrivesAt, step, frames) ==
  LET gap == MaxOf(2, arrivesAt - Last(keys))
      travel == MaxOf(1, MinOf(MaxOf(1, (step * 3) \div 5), (gap * 3) \div 5))
      moveStart == MaxOf(arrivesAt - travel, Last(keys) + 1)
      arrival == MinOf(IF moveStart >= arrivesAt THEN moveStart + 1 ELSE arrivesAt, frames - 1) IN
    IF arrival <= moveStart THEN keys ELSE keys \o <<moveStart, arrival>>
PanTrack(ri, p) ==
  LET frames == ri.end - ri.start
      n == Len(ri.item.children)
      stairs == FoldLeft(LAMBDA keys, k : PanStep(keys, PanArrivals(ri, p)[k], MaxOf(1, frames \div n), frames),
                         <<0>>, [k \in 1 .. n - 1 |-> k + 1]) IN
    IF frames - 1 > Last(stairs) THEN Append(stairs, frames - 1) ELSE stairs

\* The camera of a map travels for three quarters of its item, held until then.
MapKeys(ri) ==
  LET travelled == ri.start + ((ri.end - ri.start) * 3) \div 4
      end == IF travelled > ri.start THEN travelled ELSE ri.end IN
    (IF ri.start > 0 THEN <<0>> ELSE <<>>) \o <<ri.start, end>>

\* The windows of the chained nulls of a scene camera; a null may start before the one
\* before it ends, but not before that one starts.  Here times are cut, not rounded.
CutFrame(ms, p) == (ms * p.num) \div (p.den * 1000)
RigWindows(rig, p) ==
  FoldLeft(LAMBDA out, null :
             LET start == CutFrame(null.start, p)
                 early == start - CutFrame(null.overlap, p) IN
               Append(out, [start |-> IF out = <<>> \/ early = start THEN start ELSE MaxOf(early, Last(out).start + 1),
                            end |-> CutFrame(null.end, p)]), <<>>, rig)
SceneKeys(p) ==
  LET w == RigWindows(p.scene[1].rig, p) IN
    SetToSortSeq({w[i].start : i \in DOMAIN w} \cup {w[i].end : i \in DOMAIN w}, <)

ValidScene(p) ==
  p.scene # <<>> =>
    \A i \in DOMAIN p.scene[1].rig :
      LET null == p.scene[1].rig[i] IN
        /\ 0 <= null.start /\ null.start < null.end
        /\ null.overlap \in 0 .. null.end - null.start - 1
SceneCompiles(p) ==
  /\ \A i \in DOMAIN p.scene[1].rig : RigWindows(p.scene[1].rig, p)[i].start < RigWindows(p.scene[1].rig, p)[i].end
  /\ \A owner \in p.scene[1].depth : \E i \in DOMAIN layers : layers[i].owner = owner

ControllersAgree ==
  Cardinality({c \in {"scene", "entity", "map"} :
                 CASE c = "scene" -> src.scene # <<>>
                   [] c = "entity" -> cameras.entity # Nothing
                   [] c = "map" -> cameras.map # NoController}) <= 1

NoCamera == [by |-> Nothing, keys |-> <<>>, samples |-> 0]
WinningCamera ==
  LET moving(by, keys) == [by |-> by, keys |-> keys, samples |-> 0] IN
    CASE src.scene # <<>> -> moving("scene", SceneKeys(src))
      [] cameras.map # NoController -> moving("map", MapKeys(cameras.map))
      [] cameras.entity # Nothing -> moving("entity", EntityCameraKeys)
      [] cameras.sequence # NoController ->
           moving("sequence", IF Len(cameras.sequence.item.children) < 2 THEN <<>> ELSE SequenceKeys(cameras.sequence, src))
      [] OTHER -> NoCamera

-----------------------------------------------------------------------------
(* The passes.                                                                *)

CompileInit ==
  /\ pass = "idle" /\ src = <<>> /\ cursor = 1
  /\ registry = [i \in {} |-> 0] /\ resolved = <<>>
  /\ layers = <<>> /\ windows = <<>> /\ canvas = 0
  /\ pending = <<>> /\ cues = <<>>
  /\ cameras = [sequence |-> NoController, entity |-> Nothing, map |-> NoController]
  /\ camera = NoCamera
  /\ stalePackage = FALSE /\ package = <<>> /\ wireVersion = 0

\* A pass ends in the next one, or refuses the plan: nobody looks at what it left.
Passes(here, ok, then) ==
  /\ pass = here
  /\ pass' = IF ok THEN then ELSE "refused"

\* A pass over the items: it goes on to the next item until the last one.
PassesItem(here, ok, then) ==
  /\ pass = here /\ cursor \in DOMAIN src.items
  /\ pass' = CASE ~ok -> "refused" [] ok /\ cursor < Len(src.items) -> here [] OTHER -> then
  /\ cursor' = IF cursor < Len(src.items) THEN cursor + 1 ELSE 1
NothingToPass(here, then) ==
  /\ pass = here /\ src.items = <<>> /\ pass' = then /\ cursor' = cursor

DecodePlan(p) ==
  /\ src' = p
  /\ pass' = IF \A i \in DOMAIN p.items : DecodesItem(p.items[i]) THEN "check" ELSE "refused"
  /\ UNCHANGED <<cursor, registry, resolved, layers, windows, canvas, pending, cues, cameras, camera,
                 stalePackage, package, wireVersion>>

\* The explicit duration seeds the canvas; items can only extend it.
CheckPlan ==
  /\ Passes("check", src.num > 0 /\ src.den > 0
                      /\ (src.source # <<>> \/ src.background # <<>> \/ src.items # <<>>), "background")
  /\ canvas' = IF src.durationMS > 0 THEN FrameAtMS(src.durationMS, src) ELSE 0
  /\ UNCHANGED <<src, cursor, registry, resolved, layers, windows, pending, cues, cameras, camera,
                 stalePackage, package, wireVersion>>

\* A plate of the whole canvas in screen space; its duration is known at the end.
CompileBackground ==
  LET refs == IF src.background = <<>> THEN <<>> ELSE src.background[1].refs
      r == RegisterAll(registry, refs)
      type == IF refs = <<>> THEN "color" ELSE "image"
      plate == [Layer("plan", <<"background">>, type, 0, 0)
                  EXCEPT !.v3 = TRUE, !.path = IF refs = <<>> THEN <<>> ELSE PathOf(r.reg, refs[1].id)] IN
    /\ Passes("background", r.ok, "resolve")
    /\ registry' = r.reg
    /\ layers' = IF src.background = <<>> THEN <<>> ELSE <<plate>>
    /\ UNCHANGED <<src, cursor, resolved, windows, canvas, pending, cues, cameras, camera,
                   stalePackage, package, wireVersion>>

\* The number of maps a composition asks for is checked once every item is resolved.
MapsFit(items) ==
  src.maps > 0 => Cardinality({i \in DOMAIN items : items[i].kind = "map"}) = src.maps
ResolveItem ==
  LET it == src.items[cursor]
      all == Append(resolved, Resolve(it, src)) IN
    /\ PassesItem("resolve", Resolves(it, src) /\ (cursor = Len(src.items) => MapsFit(all)), "register")
    /\ resolved' = all
    /\ UNCHANGED <<src, registry, layers, windows, canvas, pending, cues, cameras, camera,
                   stalePackage, package, wireVersion>>
ResolveNothing ==
  /\ NothingToPass("resolve", IF MapsFit(<<>>) THEN "register" ELSE "refused")
  /\ UNCHANGED <<src, registry, resolved, layers, windows, canvas, pending, cues, cameras, camera,
                 stalePackage, package, wireVersion>>

\* Every asset is registered before any layer is made; a sound goes with its item.
RegisterItem ==
  LET it == src.items[cursor]
      ri == ResolvedByID(it.id)
      sounds == it.sfx # <<>>
      r == RegisterAll(registry, it.assets \o (IF sounds THEN <<it.sfx[1].asset>> ELSE <<>>)) IN
    /\ PassesItem("register", r.ok /\ (sounds => ValidSoundEffect(it, ri, src)), "source")
    /\ registry' = r.reg
    /\ pending' = IF sounds THEN Append(pending, SoundEffectCue(it, ri, src)) ELSE pending
    /\ UNCHANGED <<src, resolved, layers, windows, canvas, cues, cameras, camera,
                   stalePackage, package, wireVersion>>
RegisterNothing ==
  /\ NothingToPass("register", "source")
  /\ UNCHANGED <<src, registry, resolved, layers, windows, canvas, pending, cues, cameras, camera,
                 stalePackage, package, wireVersion>>

\* The clip, at the path its producer owns or at the registry's; a card treatment puts
\* a stroke above it, and needs a clip to treat.
CompileSource ==
  LET clip == src.source[1]
      path == IF clip.path = <<>> THEN SemanticAssetPath(clip.ref) ELSE clip.path
      reg == Registering(registry, clip.ref, path)
      video == [Layer("plan", <<"source">>, "video", 0, 0) EXCEPT !.path = PathOf(reg, clip.ref.id)]
      stroke == Layer("plan", <<"source", "stroke">>, "shape", 0, 0) IN
    /\ Passes("source", IF src.source = <<>> THEN ~src.stroke ELSE CanRegister(registry, clip.ref, path), "subtitles")
    /\ registry' = IF src.source = <<>> THEN registry ELSE reg
    /\ layers' = layers \o (IF src.source = <<>> THEN <<>> ELSE <<video>> \o (IF src.stroke THEN <<stroke>> ELSE <<>>))
    /\ UNCHANGED <<src, cursor, resolved, windows, canvas, pending, cues, cameras, camera,
                   stalePackage, package, wireVersion>>

\* Sidecar subtitles are registered only; the watermark lasts as long as the canvas is
\* known to last when it is compiled.
CompileSubtitles ==
  LET r == RegisterAll(registry, IF src.subtitles = <<>> THEN <<>> ELSE <<src.subtitles[1].ref>>) IN
    /\ Passes("subtitles", r.ok, "watermark")
    /\ registry' = r.reg
    /\ UNCHANGED <<src, cursor, resolved, layers, windows, canvas, pending, cues, cameras, camera,
                   stalePackage, package, wireVersion>>
CompileWatermark ==
  LET r == RegisterAll(registry, IF src.watermark = <<>> THEN <<>> ELSE <<src.watermark[1].font>>) IN
    /\ Passes("watermark", r.ok /\ ValidScene(src), "lower")
    /\ registry' = r.reg
    /\ layers' = IF src.watermark = <<>> THEN layers
                 ELSE Append(layers, Layer("plan", <<"watermark">>, "text", 0, canvas))
    /\ UNCHANGED <<src, cursor, resolved, windows, canvas, pending, cues, cameras, camera,
                   stalePackage, package, wireVersion>>

\* One item: its camera is observed, its layers follow those of the items before it, its
\* window is booked for the segmented output, and the canvas reaches its end.
LowerItem ==
  LET ri == resolved[cursor] IN
    /\ PassesItem("lower", Observes(ri) /\ Compiles(ri, src), "fullframe")
    /\ IF Observes(ri) /\ Compiles(ri, src)
       THEN /\ cameras' = Observed(ri, src)
            /\ layers' = layers \o CompileItem(ri, src, registry)
            /\ windows' = Append(windows, [id |-> ri.item.id, start |-> ri.start, end |-> ri.end])
            /\ canvas' = MaxOf(canvas, ri.end)
       ELSE UNCHANGED <<cameras, layers, windows, canvas>>
    /\ UNCHANGED <<src, registry, resolved, pending, cues, camera, stalePackage, package, wireVersion>>
LowerNothing ==
  /\ NothingToPass("lower", "fullframe")
  /\ UNCHANGED <<src, registry, resolved, layers, windows, canvas, pending, cues, cameras, camera,
                 stalePackage, package, wireVersion>>

\* The grid of the clip and, above everything, the adjustment layer.
FullFrameStages ==
  /\ Passes("fullframe", TRUE, "camera")
  /\ layers' = layers
       \o (IF src.grid THEN <<Layer("plan", <<"grid">>, "shape", 0, canvas)>> ELSE <<>>)
       \o (IF src.effects THEN <<Layer("plan", <<"adjustment">>, "adjustment", 0, 0)>> ELSE <<>>)
  /\ UNCHANGED <<src, cursor, registry, resolved, windows, canvas, pending, cues, cameras, camera,
                 stalePackage, package, wireVersion>>

\* The one authority over the camera, decided when every item has been seen; the layers
\* of the map that flies get the window of their item.
ApplyCameras ==
  LET ok == ControllersAgree /\ (src.scene # <<>> => SceneCompiles(src))
      flown(l) == cameras.map # NoController /\ l.owner = cameras.map.item.id IN
    /\ Passes("camera", ok, "finalize")
    /\ camera' = IF ok THEN WinningCamera ELSE camera
    /\ layers' = [i \in DOMAIN layers |->
                    IF flown(layers[i])
                    THEN [layers[i] EXCEPT !.start = cameras.map.start, !.frames = cameras.map.end - cameras.map.start]
                    ELSE layers[i]]
    /\ UNCHANGED <<src, cursor, registry, resolved, windows, canvas, pending, cues, cameras,
                   stalePackage, package, wireVersion>>

FinalizeLayerDurations ==
  [i \in DOMAIN layers |->
     LET l == layers[i] IN
       IF l.owner = "plan" /\ (\/ i = 1 /\ l.tag = <<"background">>
                               \/ l.tag \in {<<"source">>, <<"source", "stroke">>, <<"grid">>}
                               \/ l.tag = <<"watermark">> /\ l.frames = 0)
       THEN [l EXCEPT !.frames = canvas] ELSE l]

\* Mutant: a cue ends with the canvas.
ClampToCanvas(cue) == [cue EXCEPT !.frames = MinOf(@, canvas - cue.start)]
\* A cue ends with its image and with the canvas.
ClampCue(cue) ==
  [cue EXCEPT !.frames = MinOf(@, MinOf(canvas - cue.start, cue.visibleEnd - cue.start))]
Finalize ==
  /\ Passes("finalize", canvas > 0, "bake")
  /\ layers' = FinalizeLayerDurations
  /\ cues' = SelectSeq([i \in DOMAIN pending |-> ClampCue(pending[i])],
                       LAMBDA cue : cue.frames > 0 /\ cue.start < canvas)
  /\ UNCHANGED <<src, cursor, registry, resolved, windows, canvas, pending, cameras, camera,
                 stalePackage, package, wireVersion>>

\* What a layer contributes to the prepared package: an image nobody registered is left out.
Prepared(ls) == SelectSeq(ls, LAMBDA l : l.type \in {"image", "video"} => l.path # <<>>)

\* The poses of an animated camera come from an external program, one for each frame of
\* the canvas; then the first package is built.
BakeCamera ==
  /\ pass = "bake"
  /\ pass' \in (IF camera.keys = <<>> THEN {"fit"} ELSE {"fit", "refused"})
  /\ camera' = [camera EXCEPT !.samples = IF camera.keys = <<>> THEN 0 ELSE canvas]
  /\ package' = Prepared(layers)
  /\ UNCHANGED <<src, cursor, registry, resolved, layers, windows, canvas, pending, cues, cameras,
                 stalePackage, wireVersion>>

-----------------------------------------------------------------------------
(* The processor's passes over the compiled plan, once the assets are on disk. *)

\* Two captions in one place at one time.
CaptionsCollide ==
  \E i, j \in DOMAIN layers :
    LET a == layers[i]
        b == layers[j] IN
      /\ i < j /\ IsCaption(a) /\ IsCaption(b) /\ a.place = b.place
      /\ MaxOf(a.start, b.start) < MinOf(LayerEnd(a), LayerEnd(b))

\* Mutant: the package is not rebuilt for the new boxes.
FitInPlace ==
  /\ Passes("fit", ~CaptionsCollide, "burn")
  /\ layers' = [i \in DOMAIN layers |-> [layers[i] EXCEPT !.entity = FALSE]]
  /\ UNCHANGED <<src, cursor, registry, resolved, windows, canvas, pending, cues, cameras, camera,
                 stalePackage, package, wireVersion>>
\* The boxes of entity images take the aspect of the verified bytes.
FitEntityImages ==
  /\ Passes("fit", ~CaptionsCollide, "burn")
  /\ layers' = [i \in DOMAIN layers |->
                  IF layers[i].entity THEN [layers[i] EXCEPT !.entity = FALSE] ELSE layers[i]]
  /\ stalePackage' = (stalePackage \/ \E i \in DOMAIN layers : layers[i].entity)
  /\ UNCHANGED <<src, cursor, registry, resolved, windows, canvas, pending, cues, cameras, camera, package, wireVersion>>

\* Burned subtitles become text layers; they need a font among the plan's assets and a style.
HasFont == \E id \in DOMAIN registry : registry[id].path[Len(registry[id].path)] = "ttf"
\* Subtitle times are rounded up, both of them; a cue without a frame is dropped.
AssTimeFrame(ms, p) == (ms * p.num + 1000 * p.den - 1) \div (1000 * p.den)
CueLayers(p) ==
  SelectSeq([i \in DOMAIN SubtitleCues |->
               Layer("plan", <<"cue">>, "text", AssTimeFrame(SubtitleCues[i].start, p), AssTimeFrame(SubtitleCues[i].end, p))],
            LAMBDA l : l.frames > 0)
BurnSubtitles ==
  LET burns == src.subtitles # <<>> /\ src.subtitles[1].burn IN
    /\ Passes("burn", burns => HasFont /\ src.subtitles[1].styled, "rebuild")
    /\ layers' = IF burns THEN layers \o CueLayers(src) ELSE layers
    /\ stalePackage' = (stalePackage \/ burns)
    /\ UNCHANGED <<src, cursor, registry, resolved, windows, canvas, pending, cues, cameras, camera, package, wireVersion>>

\* The version the plan is written with is the lowest that knows its features: the camera,
\* sound, layers with a shape, a place on the screen, a transition (v3) or effects, and
\* motions that blur or colour.
PlanNeedsV3 ==
  \/ camera.samples > 0 \/ camera.keys # <<>> \/ cues # <<>>
  \/ camera.by # Nothing /\ layers # <<>>
IgnoresEffects(l) == l.v3     \* slip: a layer is judged by its shape alone
LayerNeedsV3(l) ==
  \/ l.v3 \/ l.effects > 0
  \/ \E k \in DOMAIN src.items : src.items[k].id = l.owner /\ src.items[k].blurs
RenderPlanWireVersion == IF PlanNeedsV3 \/ \E i \in DOMAIN layers : LayerNeedsV3(layers[i]) THEN 3 ELSE 2
WritePlan ==
  /\ Passes("rebuild", TRUE, "ready")
  /\ package' = IF stalePackage THEN Prepared(layers) ELSE package
  /\ stalePackage' = FALSE
  /\ wireVersion' = RenderPlanWireVersion
  /\ UNCHANGED <<src, cursor, registry, resolved, layers, windows, canvas, pending, cues, cameras, camera>>

CompileNext ==
  \/ pass = "idle" /\ \E p \in SemanticPlans : DecodePlan(p)
  \/ CheckPlan \/ CompileBackground \/ ResolveItem \/ ResolveNothing \/ RegisterItem \/ RegisterNothing
  \/ CompileSource \/ CompileSubtitles \/ CompileWatermark \/ LowerItem \/ LowerNothing
  \/ FullFrameStages \/ ApplyCameras \/ Finalize \/ BakeCamera
  \/ FitEntityImages \/ BurnSubtitles \/ WritePlan

-----------------------------------------------------------------------------
(* Properties.                                                                *)

PlanTypeOK ==
  /\ canvas \in Nat /\ cursor \in Nat /\ stalePackage \in BOOLEAN
  /\ \A i \in DOMAIN layers : layers[i].start \in Nat /\ layers[i].frames \in Nat

WindowOf(id) == CHOOSE w \in Range(windows) : w.id = id
Inside(l, from, to) == from <= l.start /\ LayerEnd(l) <= to

\* The frames the segmented output is cut at are those the items' layers are drawn in: an
\* item draws nothing outside its window (a child of a composite, whose times are rounded
\* on their own, may last one frame more; captions that carry times of their own are not
\* held to it) and no window leaves the canvas.
DrawnInItsWindow ==
  /\ [i \in DOMAIN windows |-> windows[i].id] = [i \in DOMAIN src.items |-> src.items[i].id]
  /\ \A i \in DOMAIN windows : windows[i].start < windows[i].end /\ windows[i].end <= canvas
  /\ \A l \in Range(layers) : l.owner # "plan" /\ ~IsCaption(l) =>
       Inside(l, WindowOf(l.owner).start, WindowOf(l.owner).end + (IF l.child THEN 1 ELSE 0))

\* A sound is heard while an image of its item is seen, from a frame on which one is
\* drawn, and not after the canvas.
HeardWithItsImage ==
  \A cue \in Range(cues) :
    /\ cue.frames > 0 /\ cue.start + cue.frames <= canvas
    /\ \E l \in Range(layers) : /\ l.owner = cue.owner /\ l.type = "image"
                                 /\ Inside([start |-> cue.start, frames |-> cue.frames], l.start, LayerEnd(l))

\* Two assets never share a path, and what a layer draws is what its own item, or the
\* plan, registered there.
RefsOf(it) == Range(it.assets) \cup UNION {Range(it.segments[n].assets) : n \in DOMAIN it.segments}
DrawsItsAsset ==
  /\ \A i, j \in DOMAIN registry : registry[i].path = registry[j].path => i = j
  /\ \A l \in Range(layers) : l.owner # "plan" /\ l.path # <<>> =>
       \E k \in DOMAIN src.items : \E ref \in RefsOf(src.items[k]) :
         /\ src.items[k].id = l.owner /\ ref.id \in DOMAIN registry
         /\ registry[ref.id].path = l.path /\ registry[ref.id].hash = ref.hash

\* Who claims the camera, read off the document in any order.
Claims(p) ==
  {<<"scene">> : x \in {y \in {1} : p.scene # <<>>}}
  \cup {<<"map", i>> : i \in {i \in DOMAIN p.items : p.items[i].map = "move"}}
  \cup {<<"entity", i>> : i \in {i \in DOMAIN p.items : p.items[i].style = "camera"}}
StrictlyIncreases(keys) == \A i \in 1 .. Len(keys) - 1 : keys[i] < keys[i + 1]

\* A compiled plan has one authority over the camera, whatever the order of its items:
\* no plan with two claims comes through, a claim beats the camera of a sequence, the key
\* frames go forward, and an animated camera has a pose for every frame of the canvas.
OneCamera ==
  /\ Cardinality(Claims(src)) <= 1
  /\ \A c \in Claims(src) : camera.by = c[1]
  /\ StrictlyIncreases(camera.keys)
  /\ camera.keys # <<>> => camera.samples = canvas

\* The photographs of an item that asks for effects have its stack once, besides their own.
DecoratedOnce ==
  \A l \in Range(layers) : \A k \in DOMAIN src.items :
    /\ l.owner = src.items[k].id /\ l.type = "image" /\ Last(l.tag) = "image"
    /\ ~IsChain(resolved[k].kind)
    => l.effects = (IF src.items[k].effects THEN 1 ELSE 0)
                   + Cardinality({j \in DOMAIN src.items[k].children :
                                    <<src.items[k].children[j].id, "image">> = l.tag /\ src.items[k].children[j].effects})

\* The strip of a camera pan goes forward on frames its item has.
PanGoesForward ==
  \A k \in DOMAIN resolved :
    resolved[k].item.motion = "pan" /\ ~IsChain(resolved[k].kind) =>
      /\ StrictlyIncreases(PanTrack(resolved[k], src))
      /\ \A f \in Range(PanTrack(resolved[k], src)) : f \in 0 .. resolved[k].end - resolved[k].start - 1

\* The plate, the clip, its stroke and the grid last as long as the canvas of the whole plan.
FullClipLasts ==
  \A l \in Range(layers) :
    l.owner = "plan" /\ l.tag[1] \in {"background", "source", "grid"} => l.start = 0 /\ l.frames = canvas

\* Subtitles that follow each other in the file are never on one frame together.
CuesTakeTurns ==
  LET cueLayers == SelectSeq(layers, LAMBDA l : l.tag = <<"cue">>) IN
    \A i \in 1 .. Len(cueLayers) - 1 : LayerEnd(cueLayers[i]) <= cueLayers[i + 1].start

\* The package beside a plan that is ready describes the layers of that plan and no
\* earlier ones: fitting, burning and finalization included.
PackageIsCurrent ==
  /\ package = Prepared(layers)
  /\ wireVersion = 2 => /\ camera = NoCamera /\ cues = <<>>
                        /\ \A l \in Range(layers) : l.effects = 0 /\ l.type \notin {"shape", "adjustment"}

\* What the renderer is given.
CompiledPlanIsSound ==
  /\ PlanTypeOK
  /\ pass = "ready" =>
       /\ DrawnInItsWindow /\ HeardWithItsImage /\ DrawsItsAsset /\ OneCamera /\ FullClipLasts /\ PackageIsCurrent
       /\ DecoratedOnce /\ PanGoesForward /\ CuesTakeTurns
=============================================================================
