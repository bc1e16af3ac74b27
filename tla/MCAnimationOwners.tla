------------------------- MODULE MCAnimationOwners -------------------------
(* Plans of two items for AnimationOwners: photos with and without captions, *)
(* a phrase, a metric and a composite of two images, under policies of a     *)
(* group and of a subgroup and under one or two animation groups.            *)
EXTENDS AnimationOwners

Motion(targets) == [targets |-> targets, retired |-> FALSE, recipe |-> "none", valid |-> TRUE, rests |-> TRUE]
MCMotions ==
  [fade  |-> Motion({"text", "caption"}), pop |-> Motion({"phrase"}), count |-> Motion({"metric"}),
   zoom  |-> Motion({"image"}), spin |-> Motion({"image"}), drift |-> [Motion({"image"}) EXCEPT !.rests = FALSE],
   pile  |-> [Motion({"image"}) EXCEPT !.recipe = "stack"],
   orbit |-> [Motion({"image_group"}) EXCEPT !.recipe = "group"],
   old   |-> [Motion({"image", "text"}) EXCEPT !.retired = TRUE]]
MCDefaults ==
  [important_phrase |-> <<"fade", "old">>, image |-> <<"drift", "spin", "zoom">>, caption |-> <<"fade", "pop">>,
   metric |-> <<"count">>, date |-> <<>>]
\* A hash is a number for each key; the keys here differ in the group, the subgroup and the role.
HashKeys == {<<target, "g", subgroup>> : target \in Roles, subgroup \in {"", "s", "t"}}
              \cup {<<id, role>> : id \in {"h", "i"}, role \in Roles}
MCHashes ==
  {[key \in HashKeys |-> IF key[Len(key)] \in S THEN 1 ELSE 0] :
     S \in {{}, {"s"}, {"", "caption"}, {"s", "t", "image"}}}

AnimItem(id, behavior) ==
  [id |-> id, behavior |-> behavior, target |-> "", kindTarget |-> "text", asset |-> FALSE, caption |-> FALSE,
   children |-> <<>>, motion |-> NoMotion, captionMotion |-> NoMotion, groupMotion |-> NoMotion, mapMotion |-> NoMotion,
   group |-> "g", subgroup |-> "", well |-> TRUE, start |-> 0, end |-> 4000, startUS |-> Unset, durUS |-> Unset]
Photo(id) == [AnimItem(id, "image") EXCEPT !.asset = TRUE]
Child == [caption |-> FALSE, motion |-> NoMotion, captionMotion |-> NoMotion, group |-> "", subgroup |-> "", well |-> TRUE]
Composite(id) == [AnimItem(id, "image") EXCEPT !.asset = TRUE, !.children = <<Child, [Child EXCEPT !.caption = TRUE, !.subgroup = "s"]>>]
AnimMenu(id) ==
  {Photo(id), [Photo(id) EXCEPT !.subgroup = "s", !.caption = TRUE], [Photo(id) EXCEPT !.subgroup = "t", !.startUS = 500, !.durUS = 2500000],
   [Photo(id) EXCEPT !.motion = "zoom"], [Photo(id) EXCEPT !.captionMotion = "count", !.caption = TRUE],
   [AnimItem(id, "text") EXCEPT !.kindTarget = "important_phrase"], [AnimItem(id, "text") EXCEPT !.target = "metric"],
   [AnimItem(id, "text") EXCEPT !.kindTarget = "important_phrase", !.target = "metric"],
   [AnimItem(id, "entity") EXCEPT !.asset = TRUE, !.group = ""], [AnimItem(id, "image") EXCEPT !.group = "", !.subgroup = "s"],
   Composite(id), [Composite(id) EXCEPT !.groupMotion = "orbit"], [Composite(id) EXCEPT !.children[1].motion = "old"],
   AnimItem(id, "conflict")}
\* A map block that names a retired motion.
MapItem(id) == [AnimItem(id, "map") EXCEPT !.mapMotion = "old"]

Policy(target, subgroup, motion) ==
  [target |-> target, group |-> "g", subgroup |-> subgroup, motion |-> motion, params |-> FALSE, well |-> TRUE]
PolicyMenu ==
  {<<Policy("image", "", NoMotion)>>, <<Policy("image", "", "pile"), Policy("image", "s", "drift")>>,
   <<Policy("image", "s", NoMotion), Policy("image", "", "zoom"), Policy("caption", "", NoMotion)>>,
   <<Policy("important_phrase", "", NoMotion)>>, <<Policy("metric", "", NoMotion), Policy("caption", "", "fade")>>,
   <<Policy("image", "", "zoom"), Policy("image", "", "drift")>>, <<Policy("image", "", "old")>>,
   <<[Policy("image", "", NoMotion) EXCEPT !.params = TRUE]>>}

Member(item, role) == [item |-> item, role |-> role, motion |-> NoMotion, params |-> FALSE, offset |-> Unset, endOffset |-> Unset, well |-> TRUE]
Group(id, members) == [id |-> id, start |-> 1000, end |-> 3000, stagger |-> 6, members |-> members, well |-> TRUE]
GroupMenu ==
  {<<Group("h", <<Member("x", "image"), Member("y", "image")>>)>>,
   <<Group("h", <<Member("x", "image"), [Member("y", "important_phrase") EXCEPT !.motion = "pop", !.endOffset = 1000]>>)>>,
   <<Group("h", <<[Member("y", "image") EXCEPT !.motion = "drift"], Member("x", "metric")>>)>>,
   <<Group("h", <<Member("x", "caption"), Member("x", "image"), Member("y", "image")>>)>>,
   <<Group("h", <<Member("x", "image"), Member("y", "image")>>), Group("i", <<Member("x", "caption"), Member("y", "caption")>>)>>,
   <<Group("h", <<Member("x", "image"), [Member("y", "image") EXCEPT !.offset = 2000]>>)>>,
   <<[Group("h", <<Member("x", "image"), Member("y", "image")>>) EXCEPT !.end = 1000]>>,
   <<Group("h", <<Member("x", "metric"), [Member("x", "important_phrase") EXCEPT !.motion = "pop"], Member("y", "image")>>)>>,
   <<Group("h", <<Member("x", "image"), Member("z", "image")>>)>>, <<Group("h", <<Member("x", "image")>>)>>}

AnimationPlan(x, y, policies, groups) == [num |-> 24, den |-> 1, items |-> <<x, y>>, policies |-> policies, groups |-> groups]
MCAnimationPlans ==
  {AnimationPlan(x, y, p, <<>>) : x \in AnimMenu("x"), y \in AnimMenu("y"), p \in PolicyMenu}
    \cup {AnimationPlan(x, y, p, g) : x \in AnimMenu("x"), y \in AnimMenu("y"), p \in {<<>>, <<Policy("image", "s", "zoom")>>}, g \in GroupMenu}
    \cup {AnimationPlan(Photo("x"), y, <<>>, g) : y \in {Photo("x"), [Photo("x") EXCEPT !.motion = "zoom"]}, g \in GroupMenu}
    \cup {AnimationPlan(MapItem("x"), y, p, <<>>) : y \in AnimMenu("y"), p \in PolicyMenu}
    \cup {[AnimationPlan(Photo("x"), Photo("y"), <<>>, g) EXCEPT !.num = 0] : g \in GroupMenu}
=============================================================================
