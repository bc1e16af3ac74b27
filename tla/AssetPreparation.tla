-------------------------- MODULE AssetPreparation --------------------------
(***************************************************************************)
(* How the files of a plan get into a job's workspace                      *)
(* (renderinggen/internal: overlay/asset_registry.go registers the         *)
(* references of a plan, processor/asset_merge.go merges them with the     *)
(* job's manifest, workspace.MaterializePaths resolves and installs them   *)
(* on a pool, processor/prepare_assets.go renames images after their bytes *)
(* and checks the plan before the renderer sees it).  A content is named   *)
(* by its hash, a path is a pair of a stem and an extension, UrlPath stands*)
(* for a logical path that is a URL.                                       *)
(***************************************************************************)
EXTENDS Naturals, Sequences, FiniteSets, Functions

CONSTANTS
  RefLists,    \* plans: sequences of references [id, hash, path, kind], one layer each
  Manifests,   \* job manifests: sequences of [hash, path, url]
  FormatOf,    \* per hash the extension its bytes call for, "" if unknown
  PrepPool     \* workers of MaterializePaths

UrlPath == <<0, "url">>
NoPrepFile == "none"
Hashes == DOMAIN FormatOf

\* References and manifest entries name contents the model knows.
IsListOfContents(list) ==
  /\ Len(list) \in Nat /\ DOMAIN list = 1..Len(list)
  /\ \A i \in DOMAIN list : list[i].hash \in Hashes
ASSUME PrepAssumption ==
  /\ NoPrepFile \notin Hashes /\ PrepPool \in Nat \ {0}
  /\ \A list \in RefLists \cup Manifests : IsListOfContents(list)

VARIABLES
  prep,      \* "compile", "materialize", "normalize", "ready", "failed"
  why,       \* reason of the failure
  refs,      \* the references of the plan
  layers,    \* per reference [path, hash, kind]
  manifest,  \* the job's assets; after the merge the assets to materialize
  compiled,  \* the registry's manifest
  mat,       \* per asset: "unsent", "queued", "resolved" (or "foreign": other bytes), "installed", "failed"
  prepFiles, \* function from paths to contents
  cached,    \* hashes in the store
  layerAt,   \* the layer normalization is at
  renamed,   \* function from new to old paths
  prepCtx    \* "alive", "cancelled" (the caller), "aborted" (first error)

prepVars == <<prep, why, refs, layers, manifest, compiled, mat, prepFiles, cached,
              layerAt, renamed, prepCtx>>

File(path) == IF path \in DOMAIN prepFiles THEN prepFiles[path] ELSE NoPrepFile
Put(f, key, value) == [k \in DOMAIN f \cup {key} |-> IF k = key THEN value ELSE f[k]]
Refuse(reason) == prep' = "failed" /\ why' = reason

\* What an earlier attempt at the same plan left in the workspace: nothing, or the
\* images it had renamed.
Leftover(i) == <<refs[i].path[1], FormatOf[refs[i].hash]>>
Leftovers ==
  LET images == {i \in DOMAIN refs : FormatOf[refs[i].hash] # "" /\ Leftover(i) # refs[i].path}
  IN {<< >>, [t \in {Leftover(i) : i \in images} |->
                refs[CHOOSE i \in images : Leftover(i) = t].hash]}

PrepInit ==
  /\ prep = "compile" /\ why = "none"
  /\ refs \in RefLists /\ manifest \in Manifests /\ prepFiles \in Leftovers
  /\ cached \in SUBSET Hashes
  /\ layers = << >> /\ compiled = << >> /\ mat = << >>
  /\ layerAt = 1 /\ renamed = << >> /\ prepCtx = "alive"

-----------------------------------------------------------------------------
(* assetRegistry.Register: one hash per id, one id per path *)

\* An id is registered by the first reference that names it.
FirstOf(id) == refs[CHOOSE i \in DOMAIN refs : refs[i].id = id /\ \A j \in 1..(i - 1) : refs[j].id # id]
Ids == {refs[i].id : i \in DOMAIN refs}

IgnoresThePath(a, b) == FALSE
SamePath(a, b) == FirstOf(a).path = FirstOf(b).path
RegistryError ==
  \/ \E i \in DOMAIN refs : refs[i].hash # FirstOf(refs[i].id).hash
  \/ \E a, b \in Ids : a # b /\ SamePath(a, b)

\* Assets(): in the order of the paths.  Paths are not spelled here, so any order can
\* be that of their names.
Registered == {[hash |-> FirstOf(id).hash, path |-> FirstOf(id).path] : id \in Ids}
RegistryOrders == Bijection(1..Cardinality(Registered), Registered)

-----------------------------------------------------------------------------
(* mergeAssets *)

FirstWith(hash) == CHOOSE i \in DOMAIN manifest :
                     manifest[i].hash = hash /\ \A j \in 1..(i - 1) : manifest[j].hash # hash
InManifest(hash) == \E i \in DOMAIN manifest : manifest[i].hash = hash
FromUrl(entry) == entry.url \/ entry.path = UrlPath

\* A compiled asset whose bytes the manifest fetches from a URL moves that entry to
\* its canonical path; any other one is added under it.
MovesToPath(asset) == InManifest(asset.hash) /\ FromUrl(manifest[FirstWith(asset.hash)])

\* Two hashes for one path: in the manifest, or between it and an added asset.
MergeConflict(assets) ==
  \/ \E i, j \in DOMAIN manifest : manifest[i].path = manifest[j].path /\ manifest[i].hash # manifest[j].hash
  \/ \E i \in DOMAIN manifest, k \in DOMAIN assets :
       /\ ~MovesToPath(assets[k])
       /\ manifest[i].path = assets[k].path /\ manifest[i].hash # assets[k].hash

\* The last compiled asset with the bytes of a moved entry decides its path.
Moved(i, assets) ==
  LET same == {k \in DOMAIN assets : assets[k].hash = manifest[i].hash}
      last == CHOOSE k \in same : \A l \in same : l <= k
  IN IF same # {} /\ i = FirstWith(manifest[i].hash) /\ FromUrl(manifest[i])
     THEN [hash |-> manifest[i].hash, path |-> assets[last].path, url |-> TRUE]
     ELSE manifest[i]

DropsAliases(asset) == ~InManifest(asset.hash)
IsAdded(asset) ==
  ~MovesToPath(asset) /\ \A i \in DOMAIN manifest : manifest[i].path # asset.path

\* What is added follows the manifest; its place is that of the compiled asset, so the
\* merged list has a gap for every asset that was already there.
MergeAssets(assets) ==
  LET n == Len(manifest)
      added == {k \in DOMAIN assets : IsAdded(assets[k])}
  IN [i \in DOMAIN manifest \cup {n + k : k \in added} |->
        IF i \in DOMAIN manifest THEN Moved(i, assets)
        ELSE [hash |-> assets[i - n].hash, path |-> assets[i - n].path, url |-> FALSE]]

Compile ==
  /\ prep = "compile"
  /\ \E assets \in RegistryOrders :
       IF RegistryError \/ MergeConflict(assets)
       THEN Refuse("conflict") /\ UNCHANGED <<layers, manifest, compiled, mat>>
       ELSE /\ prep' = "materialize" /\ UNCHANGED why
            /\ layers' = [i \in DOMAIN refs |-> [path |-> FirstOf(refs[i].id).path,
                                                 hash |-> refs[i].hash, kind |-> refs[i].kind]]
            /\ compiled' = assets
            /\ manifest' = MergeAssets(assets)
            /\ mat' = [i \in DOMAIN manifest' |-> "unsent"]
  /\ UNCHANGED <<refs, prepFiles, cached, layerAt, renamed, prepCtx>>

-----------------------------------------------------------------------------
(* MaterializePaths *)

Materializing == prep = "materialize"
CountOf(state) == Cardinality({i \in DOMAIN mat : mat[i] = state})

\* The channel holds as many assets as there are workers.
SendAsset(i) ==
  /\ Materializing /\ mat[i] = "unsent"
  /\ \A j \in DOMAIN mat : j < i => mat[j] # "unsent"
  /\ CountOf("queued") < PrepPool
  /\ mat' = [mat EXCEPT ![i] = "queued"]
  /\ UNCHANGED <<prep, why, refs, layers, manifest, compiled, prepFiles, cached, layerAt,
                 renamed, prepCtx>>

\* The first error cancels the others.
AssetFails(i, reason) ==
  /\ mat' = [mat EXCEPT ![i] = "failed"]
  /\ why' = IF why = "none" THEN reason ELSE why
  /\ prepCtx' = IF prepCtx = "alive" THEN "aborted" ELSE prepCtx
  /\ UNCHANGED <<prep, refs, layers, manifest, compiled, prepFiles, cached, layerAt, renamed>>

\* resolveAssetStreaming: the store, or a download that is hashed while it streams
\* and staged in the store only under its own address.
TrustsTheDownload(hash, got) == TRUE
DigestMatches(hash, got) == got = hash

ResolveAsset(i) ==
  /\ Materializing /\ mat[i] = "queued" /\ CountOf("resolved") < PrepPool
  /\ LET a == manifest[i] IN
     \/ /\ a.hash \in cached
        /\ mat' = [mat EXCEPT ![i] = "resolved"]
        /\ UNCHANGED <<prep, why, refs, layers, manifest, compiled, prepFiles, cached,
                       layerAt, renamed, prepCtx>>
     \/ /\ a.hash \notin cached /\ (a.url \/ a.path = UrlPath) /\ prepCtx = "alive"
        /\ \E got \in Hashes :
             IF DigestMatches(a.hash, got)
             THEN /\ mat' = [mat EXCEPT ![i] = IF got = a.hash THEN "resolved" ELSE "foreign"]
                  /\ cached' = cached \cup {a.hash}
                  /\ UNCHANGED <<prep, why, refs, layers, manifest, compiled, prepFiles,
                                 layerAt, renamed, prepCtx>>
             ELSE AssetFails(i, "digest")
     \/ a.hash \notin cached /\ AssetFails(i, "unresolved")

\* copyFileRooted: copy, check the context, rename into place.
InstallAsset(i) ==
  /\ Materializing /\ mat[i] \in {"resolved", "foreign"}
  /\ \/ /\ prepCtx = "alive"
        /\ prepFiles' = Put(prepFiles, manifest[i].path,
                            IF mat[i] = "foreign" THEN "wrong" ELSE manifest[i].hash)
        /\ mat' = [mat EXCEPT ![i] = "installed"]
        /\ UNCHANGED <<prep, why, refs, layers, manifest, compiled, cached, layerAt, renamed,
                       prepCtx>>
     \/ AssetFails(i, "install")

CancelPrepare ==
  /\ Materializing /\ prepCtx = "alive"
  /\ prepCtx' = "cancelled"
  /\ UNCHANGED <<prep, why, refs, layers, manifest, compiled, mat, prepFiles, cached,
                 layerAt, renamed>>

\* The send loop ends when all were sent or the context is done; what was sent is
\* finished, and only an error of a worker is returned.
WaitsForSuccess(i) == mat[i] = "installed" \/ (mat[i] = "unsent" /\ prepCtx # "alive")
Settled(i) == mat[i] \in {"installed", "failed"} \/ (mat[i] = "unsent" /\ prepCtx # "alive")
MaterializeReturns ==
  /\ Materializing
  /\ \A i \in DOMAIN mat : Settled(i)
  /\ prep' = IF CountOf("failed") > 0 THEN "failed" ELSE "normalize"
  /\ UNCHANGED <<why, refs, layers, manifest, compiled, mat, prepFiles, cached, layerAt,
                 renamed, prepCtx>>

-----------------------------------------------------------------------------
(* normalizeMaterializedImagePaths and validateMaterializedPlanAssets *)

RenameTarget(layer, content) == <<layer.path[1], FormatOf[content]>>
NeedsRename(layer, content) ==
  content \in Hashes /\ FormatOf[content] \notin {"", layer.path[2]}

\* An existing target is adopted if it holds the same bytes, else the names collide.
AdoptsAny(content, target) == TRUE
MayTake(content, target) == File(target) \in {NoPrepFile, content}

NormalizeLayer ==
  /\ prep = "normalize" /\ layerAt \in DOMAIN layers
  /\ LET layer == layers[layerAt]
         content == File(layer.path)
         target == RenameTarget(layer, content)
         leaveAlone == layer.kind # "image"
                         \/ (content # NoPrepFile /\ ~NeedsRename(layer, content))
     IN IF leaveAlone
        THEN /\ layerAt' = layerAt + 1
             /\ UNCHANGED <<prep, why, layers, prepFiles, renamed>>
        ELSE IF content = NoPrepFile \/ ~MayTake(content, target)
        THEN /\ Refuse(IF content = NoPrepFile THEN "missing image" ELSE "collision")
             /\ UNCHANGED <<layerAt, layers, prepFiles, renamed>>
        ELSE /\ prepFiles' = Put(Put(prepFiles, layer.path, NoPrepFile), target,
                                 IF File(target) = NoPrepFile THEN content ELSE File(target))
             /\ renamed' = Put(renamed, target, layer.path)
             /\ layers' = [layers EXCEPT ![layerAt].path = target]
             /\ layerAt' = layerAt + 1
             /\ UNCHANGED <<prep, why>>
  /\ UNCHANGED <<refs, manifest, compiled, mat, cached, prepCtx>>

\* A path this stage produced is taken as proven, any other one is looked up.
ProvenPath(path) == path \in {manifest[i].path : i \in DOMAIN manifest} \cup DOMAIN renamed

ValidatePlanAssets ==
  /\ prep = "normalize" /\ layerAt = Len(layers) + 1
  /\ IF \A i \in DOMAIN layers : ProvenPath(layers[i].path) \/ File(layers[i].path) # NoPrepFile
     THEN prep' = "ready" /\ UNCHANGED why
     ELSE Refuse("missing asset")
  /\ UNCHANGED <<refs, layers, manifest, compiled, mat, prepFiles, cached, layerAt, renamed,
                 prepCtx>>

\* finalPreparedAssets: the registry's manifest with the renamed paths added
KeepsOldPaths == {compiled[i] : i \in DOMAIN compiled}
FinalPreparedAssets ==
  {compiled[i] : i \in DOMAIN compiled} \cup
  UNION {{[hash |-> compiled[i].hash, path |-> new] :
            i \in {j \in DOMAIN compiled : compiled[j].path = renamed[new]}} : new \in DOMAIN renamed}

PrepStep ==
  \/ Compile \/ MaterializeReturns \/ NormalizeLayer \/ ValidatePlanAssets
  \/ \E i \in DOMAIN mat : SendAsset(i) \/ ResolveAsset(i) \/ InstallAsset(i)
PrepNext == PrepStep \/ CancelPrepare

-----------------------------------------------------------------------------
(* Properties *)

\* Every registered path is materialized, with the bytes that were registered under it.
\* The merge does not see to that for the entry it moves: it takes the entry from
\* every other asset with these bytes, and does not ask whether its new path is taken.
MergeIsClean ==
  \A k \in DOMAIN compiled :
    LET at == {i \in DOMAIN manifest : manifest[i].path = compiled[k].path}
    IN at # {} /\ \A i \in at : manifest[i].hash = compiled[k].hash

\* Only for the entries of URLs.
OnlyMovedEntriesClash ==
  ~MergeIsClean =>
    \E i \in DOMAIN manifest, k \in DOMAIN compiled :
      manifest[i].url /\ manifest[i].hash = compiled[k].hash

\* An image whose name does not fit its bytes is renamed under one of its layers, and
\* another layer keeps the name.
Misnamed(i) ==
  refs[i].kind = "image" /\ FormatOf[refs[i].hash] \notin {"", FirstOf(refs[i].id).path[2]}
MisnamedIsShared == \E i, k \in DOMAIN refs : i # k /\ refs[i].id = refs[k].id /\ Misnamed(i)

ReadyToRender == prep = "ready" /\ prepCtx = "alive" /\ MergeIsClean /\ ~MisnamedIsShared

\* A plan that is ready for the renderer has, for every layer, a file under the
\* layer's path that holds exactly the bytes the layer was registered with, and an
\* image has the extension of its bytes: no download, race of two installs, rename or
\* leftover of an earlier attempt changes that.
LayersHaveTheirBytes ==
  ReadyToRender =>
    \A i \in DOMAIN layers :
      /\ File(layers[i].path) = layers[i].hash
      /\ layers[i].kind = "image" /\ FormatOf[layers[i].hash] # "" =>
           layers[i].path[2] = FormatOf[layers[i].hash]

\* The manifest of the prepared package describes the plan that will be rendered,
\* the renames included.
ManifestDescribesPlan ==
  ReadyToRender =>
    \A i \in DOMAIN layers :
      [hash |-> layers[i].hash, path |-> layers[i].path] \in FinalPreparedAssets

\* Preparation ends, whatever fails or is cancelled.
PreparationEnds == (prep = "compile") ~> (prep \in {"ready", "failed"})

\* On a live context a plan fails for a missing file in two cases only: the bytes of
\* a URL were registered under two ids, so that the manifest entry moved to the last
\* of them, or two layers share an image the first of them had renamed.  Every other
\* canonical path is materialized, next to the aliases of the manifest.
CanonicalPathsAreMaterialized ==
  prep = "failed" /\ prepCtx = "alive" /\ why \in {"missing asset", "missing image"} =>
    \/ \E i, k \in DOMAIN compiled : i # k /\ compiled[i].hash = compiled[k].hash
    \/ \E i, k \in DOMAIN refs : i # k /\ refs[i].id = refs[k].id /\ refs[i].kind = "image"

\* The plan handed to the renderer, its manifest and its files agree.
PlanIsMaterialized ==
  /\ OnlyMovedEntriesClash /\ LayersHaveTheirBytes
  /\ ManifestDescribesPlan /\ CanonicalPathsAreMaterialized
=============================================================================
