-------------------------- MODULE AnimationOwners --------------------------
(* Who animates what (internal/overlay/animation_policy.go,                  *)
(* animation_group_compile.go, motion_admission.go): before the items of a   *)
(* semantic plan are lowered, the plan's animation policies give a motion to *)
(* the items that named none, the animation groups take over the windows and *)
(* motions of their members, and a plan that then names a retired motion is  *)
(* refused.  The passes rewrite the items in place, one after the other.     *)
(* Ids and numbers are abstracted: well says that the ids of a block are     *)
(* trimmed and short enough and its parameters in range.                     *)
EXTENDS Integers, Sequences, FiniteSets

CONSTANTS
  AnimationPlans,  \* the documents a producer may send
  Motions,         \* motion.Registry: id -> its definition
  Defaults,        \* target -> the sorted pool its default motion is drawn from, each id once
  Hashes           \* what styleHash may compute for the keys of a plan: <<target, group,
                   \* subgroup>> of a policy's draw, <<group, role>> of an animation group's

VARIABLES
  owning,      \* the pass that runs next, "owned", or "refused"
  animPlan,    \* the document
  draw,        \* what styleHash computes for this plan and video
  rules,       \* resolveAnimationPolicies: selector -> policy
  animItems,   \* the items, as the passes rewrite them
  itemOwner,   \* claimedItems: item -> group
  roleOwner,   \* claimed: item and role -> group
  assignments, \* what the groups will do to their members
  step         \* the policy, item or assignment the pass is at, or group and member
animVars == <<owning, animPlan, draw, rules, animItems, itemOwner, roleOwner, assignments, step>>

NoMotion == ""
Unset == -1
Roles == {"image", "important_phrase", "caption", "date", "metric"}

\* What the decoder and the tables of templates and kinds make of a document: only the
\* templates and kinds of texts have a motion target of their own.
IsItem(x) ==
  /\ x = [id |-> x.id, behavior |-> x.behavior, target |-> x.target, kindTarget |-> x.kindTarget, asset |-> x.asset,
          caption |-> x.caption, children |-> x.children, motion |-> x.motion, captionMotion |-> x.captionMotion,
          groupMotion |-> x.groupMotion, mapMotion |-> x.mapMotion, group |-> x.group, subgroup |-> x.subgroup, well |-> x.well,
          start |-> x.start, end |-> x.end, startUS |-> x.startUS, durUS |-> x.durUS]
  /\ x.children = [k \in DOMAIN x.children |->
                     [caption |-> x.children[k].caption, motion |-> x.children[k].motion,
                      captionMotion |-> x.children[k].captionMotion, group |-> x.children[k].group,
                      subgroup |-> x.children[k].subgroup, well |-> x.children[k].well]]
  /\ x.target # "" \/ x.kindTarget # "text" => x.behavior = "text"
IsListOf(s) == Len(s) \in Nat /\ DOMAIN s = 1 .. Len(s)
IsGroup(g) ==
  /\ g.start \in Int /\ g.end \in Int /\ g.stagger \in Int /\ IsListOf(g.members)
  /\ \A k \in DOMAIN g.members : g.members[k].offset \in Int /\ g.members[k].endOffset \in Int
ASSUME AnimationAssumption ==
  /\ \A p \in AnimationPlans :
       /\ p.num \in Int /\ p.den \in Int /\ IsListOf(p.items) /\ IsListOf(p.policies) /\ IsListOf(p.groups)
       /\ \A i \in DOMAIN p.items : IsItem(p.items[i])
       /\ \A n \in DOMAIN p.groups : IsGroup(p.groups[n])
       /\ \A draw0 \in Hashes : \A n \in DOMAIN p.groups : \A role \in Roles : draw0[<<p.groups[n].id, role>>] \in Nat
  /\ \A role \in Roles : IsListOf(Defaults[role])

-----------------------------------------------------------------------------
(* The motion catalogue and its admission rules. *)

Resolvable(id) == id \in DOMAIN Motions
Retired(id) == Resolvable(id) /\ Motions[id].retired

AdmissionRule(admit, deny) == [admit |-> admit, deny |-> deny]
TargetAdmissionRules ==
  [important_phrase |-> AdmissionRule({"text", "phrase", "short_phrase", "caption", "important_phrase"},
                                      {"metric", "date", "entity"}),
   caption |-> AdmissionRule({"caption", "text", "phrase", "entity"}, {"metric", "date"}),
   image   |-> AdmissionRule({"image"}, {}),
   metric  |-> AdmissionRule({"metric"}, {}),
   date    |-> AdmissionRule({"date"}, {})]

MotionAdmitsTarget(id, target) ==
  /\ Resolvable(id) /\ ~Retired(id)
  /\ Motions[id].targets \cap TargetAdmissionRules[target].deny = {}
  /\ Motions[id].targets \cap TargetAdmissionRules[target].admit # {}

\* The stacks of several images, and the choreographies a composite may pin.
UsesStack(id) == Resolvable(id) /\ Motions[id].recipe = "stack"
UsesGroupRecipe(id) == Resolvable(id) /\ Motions[id].recipe = "group"

-----------------------------------------------------------------------------
(* Policies. *)

ValidGroupIDs(x) == x.well /\ (x.subgroup # "" => x.group # "")
PolicyTargets == DOMAIN TargetAdmissionRules
Selector(p) == <<p.target, p.group, p.subgroup>>
ValidPolicy(p) ==
  /\ p.target \in PolicyTargets
  /\ ValidGroupIDs(p) /\ p.group # ""
  /\ p.motion # NoMotion => MotionAdmitsTarget(p.motion, p.target)
  /\ p.motion = NoMotion => ~p.params
  /\ Selector(p) \notin DOMAIN rules

NoPolicy == [target |-> "", group |-> "", subgroup |-> "", motion |-> NoMotion, params |-> FALSE, well |-> TRUE]
\* Mutant: the policy of the group comes before the one of the subgroup
GroupPolicyFirst(target, x) ==
  IF x.group # "" /\ <<target, x.group, "">> \in DOMAIN rules THEN rules[<<target, x.group, "">>]
  ELSE IF <<target, x.group, x.subgroup>> \in DOMAIN rules THEN rules[<<target, x.group, x.subgroup>>] ELSE NoPolicy
\* The policy of the subgroup, or else the one of the group.
SelectAnimationPolicy(target, x) ==
  LET own == <<target, x.group, x.subgroup>>
      shared == <<target, x.group, "">> IN
    CASE x.group # "" /\ x.subgroup # "" /\ own \in DOMAIN rules -> rules[own]
      [] x.group # "" /\ (x.subgroup = "" \/ own \notin DOMAIN rules) /\ shared \in DOMAIN rules -> rules[shared]
      [] OTHER -> NoPolicy

\* The draw of styleHash from a pool.
Drawn(pool, key) == IF pool = <<>> THEN NoMotion ELSE pool[1 + (draw[key] % Len(pool))]
\* A policy that names no motion leaves the choice to the plan's hash.
ResolvePolicyMotion(p, target, x) ==
  IF p.motion # NoMotion THEN p.motion
  ELSE Drawn(Defaults[target], <<target, x.group, IF p.subgroup # "" THEN p.subgroup ELSE x.subgroup>>)

\* An item or child that names no motion takes the one of its policy.
WithPolicyMotion(x, target, eligible) ==
  LET p == SelectAnimationPolicy(target, x) IN
    IF x.motion = NoMotion /\ eligible /\ p # NoPolicy
    THEN [x EXCEPT !.motion = ResolvePolicyMotion(p, target, x)] ELSE x
WithPolicyCaption(x) ==
  LET p == SelectAnimationPolicy("caption", x) IN
    IF x.caption /\ x.captionMotion = NoMotion /\ p # NoPolicy
    THEN [x EXCEPT !.captionMotion = ResolvePolicyMotion(p, "caption", x)] ELSE x
CaptionAdmitted(x) == x.caption /\ x.captionMotion # NoMotion => MotionAdmitsTarget(x.captionMotion, "caption")

\* A composite may pin one certified choreography for all its images.
Pins(it) == it.children # <<>> /\ it.groupMotion # NoMotion
PinAgrees(it) == Pins(it) => it.motion \in {NoMotion, it.groupMotion} /\ UsesGroupRecipe(it.groupMotion)
Pinned(it) == IF Pins(it) THEN [it EXCEPT !.motion = it.groupMotion] ELSE it

IsTextLike(it) == it.behavior \in {"text", "entity"}
IsPictured(it) == it.behavior \in {"image", "entity"}
TextItem(it) == IsTextLike(it) /\ ~it.asset /\ it.children = <<>>
\* The motion of an item before its images are looked at: text items ask for a phrase
\* motion, then templates with a target of their own ask for that.
TextDefaults(it) ==
  LET phrased == WithPolicyMotion(it, "important_phrase", TextItem(it)) IN
    WithPolicyCaption(IF it.target = "" THEN phrased ELSE WithPolicyMotion(phrased, it.target, TRUE))

\* A child inherits the group of its item, and the subgroup with it.
InGroupOf(it, c) ==
  CASE c.group = "" -> [c EXCEPT !.group = it.group, !.subgroup = IF c.subgroup = "" THEN it.subgroup ELSE c.subgroup]
    [] c.group # "" /\ c.group = it.group /\ c.subgroup = "" -> [c EXCEPT !.subgroup = it.subgroup]
    [] OTHER -> c
\* Mutant: the children take their policy also under a stack
MovesEveryChild(it, c) == LET p == SelectAnimationPolicy("image", c) IN p.motion = NoMotion \/ ~UsesStack(p.motion)
\* The images of a stack are moved by the stack alone.
MovesChild(it, c) ==
  LET p == SelectAnimationPolicy("image", c) IN
    ~UsesStack(it.motion) /\ (p.motion = NoMotion \/ ~UsesStack(p.motion))
ChildDefaults(it, child) ==
  LET c == InGroupOf(it, child) IN WithPolicyCaption(WithPolicyMotion(c, "image", MovesChild(it, c)))
ChildAdmitted(it, child) == ValidGroupIDs(InGroupOf(it, child)) /\ CaptionAdmitted(ChildDefaults(it, child))

\* An image takes any image motion, a composite only a stack.
Moved(it) ==
  WithPolicyMotion(it, "image", IF it.children = <<>> THEN it.asset /\ IsPictured(it)
                                ELSE UsesStack(SelectAnimationPolicy("image", it).motion))
ImageDefaults(it) == [Moved(it) EXCEPT !.children = [k \in DOMAIN it.children |-> ChildDefaults(Moved(it), it.children[k])]]

Expands(it) ==
  LET texted == TextDefaults(Pinned(it)) IN
    /\ ValidGroupIDs(it)
    /\ it.behavior # "conflict"
    /\ PinAgrees(it)
    /\ CaptionAdmitted(texted)
    /\ \A k \in DOMAIN it.children : ChildAdmitted(Moved(texted), it.children[k])
Expanded(it) == ImageDefaults(TextDefaults(Pinned(it)))

-----------------------------------------------------------------------------
(* Groups. *)

MinimumMembers == 2
MaximumMembers == 8
\* The last item with the id, if there are several.
Exists(id) == \E i \in DOMAIN animPlan.items : animPlan.items[i].id = id
ItemOf(id) == CHOOSE i \in DOMAIN animPlan.items :
                /\ animPlan.items[i].id = id
                /\ \A j \in DOMAIN animPlan.items : animPlan.items[j].id = id => j <= i

RoleCompatible(it, role) ==
  CASE role = "image"   -> it.children = <<>> /\ IsPictured(it) /\ it.asset
    [] role = "caption" -> it.caption /\ it.children = <<>> /\ IsPictured(it) /\ it.asset
    [] role = "important_phrase" -> it.kindTarget = "important_phrase" /\ ~it.asset /\ it.children = <<>>
    [] OTHER            -> (IF it.target # "" THEN it.target ELSE it.kindTarget) = role /\ it.children = <<>>

\* Mutant: the motions of an item are not looked at
OwnsNothing(it) == it.groupMotion = NoMotion
\* A member may have no other owner of its motions.
HasNoOwner(it) == it.motion = NoMotion /\ it.captionMotion = NoMotion /\ it.groupMotion = NoMotion

\* What a group asks of a motion: valid, honest about 3D, and back at rest at its end.
Restful(id) == Resolvable(id) /\ Motions[id].valid /\ Motions[id].rests
\* The part of a role's pool its members may draw from.
RolePool(role) ==
  {i \in DOMAIN Defaults[role] : MotionAdmitsTarget(Defaults[role][i], role) /\ Restful(Defaults[role][i])}
DrawnFor(g, role) ==
  LET pool == RolePool(role)
      n == draw[<<g.id, role>>] % Cardinality(pool) IN
    Defaults[role][CHOOSE i \in pool : Cardinality({j \in pool : j < i}) = n]
\* The members of a group that have one role and name no motion share one.
MemberMotion(g, m) == IF m.motion # NoMotion THEN m.motion ELSE DrawnFor(g, m.role)
MotionOfMember(m) ==
  IF m.motion # NoMotion THEN MotionAdmitsTarget(m.motion, m.role) /\ Restful(m.motion)
  ELSE ~m.params /\ RolePool(m.role) # {}

StaggerMS(g) == (2 * g.stagger * 1000 * animPlan.den + animPlan.num) \div (2 * animPlan.num)
\* Mutant: the stagger is dropped for the members that give no offset
OffsetZero(g, k) == IF g.members[k].offset = Unset THEN 0 ELSE g.members[k].offset
OffsetMS(g, k) == IF g.members[k].offset = Unset THEN (k - 1) * StaggerMS(g) ELSE g.members[k].offset
EndOffsetMS(g, k) == IF g.members[k].endOffset = Unset THEN g.end - g.start ELSE g.members[k].endOffset
InGroupWindow(g, k) ==
  /\ 0 <= OffsetMS(g, k) /\ OffsetMS(g, k) < g.end - g.start
  /\ OffsetMS(g, k) < EndOffsetMS(g, k) /\ EndOffsetMS(g, k) <= g.end - g.start

MaxStaggerFrames == 240
ValidGroup(n) ==
  LET g == animPlan.groups[n] IN
    /\ 0 < animPlan.num /\ 0 < animPlan.den
    /\ g.well /\ g.id \notin {animPlan.groups[k].id : k \in 1 .. n - 1}
    /\ 0 <= g.start /\ g.start < g.end
    /\ g.stagger \in 0 .. MaxStaggerFrames
    /\ Len(g.members) \in MinimumMembers .. MaximumMembers

\* Mutant: a second group may take a role of the item that the first did not claim
ClaimsByRole(g, m) == <<m.item, m.role>> \notin DOMAIN roleOwner
\* An item belongs to one group, and each of its roles to one member.
CanClaim(g, m) ==
  /\ m.item \in DOMAIN itemOwner => itemOwner[m.item] = g.id
  /\ <<m.item, m.role>> \notin DOMAIN roleOwner

ValidMember(g, k) ==
  LET m == g.members[k] IN
    /\ m.well /\ m.role \in Roles
    /\ Exists(m.item)
    /\ LET it == animItems[ItemOf(m.item)] IN RoleCompatible(it, m.role) /\ HasNoOwner(it)
    /\ CanClaim(g, m)
    /\ MotionOfMember(m)
    /\ InGroupWindow(g, k)

Assignment(g, k) ==
  [item |-> g.members[k].item, role |-> g.members[k].role, motion |-> MemberMotion(g, g.members[k]),
   start |-> g.start + OffsetMS(g, k), end |-> g.start + EndOffsetMS(g, k)]

\* Mutant: the canonical microseconds of the item stay
KeepsMicroseconds(it, a) ==
  LET timed == [it EXCEPT !.start = a.start, !.end = a.end] IN
    IF a.role = "caption" THEN [timed EXCEPT !.captionMotion = a.motion] ELSE [timed EXCEPT !.motion = a.motion]
\* The group's window replaces the milliseconds and the canonical microseconds.
ApplyAssignment(it, a) ==
  LET timed == [it EXCEPT !.start = a.start, !.end = a.end, !.startUS = Unset, !.durUS = Unset] IN
    IF a.role = "caption" THEN [timed EXCEPT !.captionMotion = a.motion] ELSE [timed EXCEPT !.motion = a.motion]

-----------------------------------------------------------------------------
(* Retirement. *)

ItemMotionIDs(it) ==
  {it.motion, it.captionMotion, it.mapMotion}
    \cup UNION {{it.children[k].motion, it.children[k].captionMotion} : k \in DOMAIN it.children}
\* Mutant: only the item's own motion is looked at
OnlyItemMotions(p, items) == \E i \in DOMAIN items : Retired(items[i].motion)
NamesRetired(p, items) ==
  \/ \E k \in DOMAIN p.policies : Retired(p.policies[k].motion)
  \/ \E i \in DOMAIN items : \E id \in ItemMotionIDs(items[i]) : Retired(id)

-----------------------------------------------------------------------------
(* The passes. *)

NoAnimPlan == [num |-> 1, den |-> 1, items |-> <<>>, policies |-> <<>>, groups |-> <<>>]
AnimInit ==
  /\ owning = "document" /\ animPlan = NoAnimPlan /\ draw \in Hashes
  /\ rules = <<>> /\ animItems = <<>> /\ itemOwner = <<>> /\ roleOwner = <<>> /\ assignments = <<>>
  /\ step = <<1, 1>>

RefusePlan ==
  /\ owning' = "refused"
  /\ UNCHANGED <<animPlan, draw, rules, animItems, itemOwner, roleOwner, assignments, step>>

ReadDocument ==
  /\ owning = "document"
  /\ \E p \in AnimationPlans : animPlan' = p /\ animItems' = p.items
  /\ owning' = "policies"
  /\ UNCHANGED <<draw, rules, itemOwner, roleOwner, assignments, step>>

\* One policy after the other, then the items.
RegisterPolicy ==
  /\ owning = "policies"
  /\ step[1] \in DOMAIN animPlan.policies
  /\ LET p == animPlan.policies[step[1]] IN
       IF ValidPolicy(p)
       THEN /\ rules' = [s \in DOMAIN rules \cup {Selector(p)} |-> IF s = Selector(p) THEN p ELSE rules[s]]
            /\ step' = <<step[1] + 1, 1>>
            /\ UNCHANGED <<owning, animPlan, draw, animItems, itemOwner, roleOwner, assignments>>
       ELSE RefusePlan
EndOf(pass, list, next) ==
  /\ owning = pass /\ step[1] \notin DOMAIN list
  /\ owning' = next /\ step' = <<1, 1>>
  /\ UNCHANGED <<animPlan, draw, rules, animItems, itemOwner, roleOwner, assignments>>
PoliciesRegistered == EndOf("policies", animPlan.policies, "items")

ExpandItem ==
  /\ owning = "items"
  /\ step[1] \in DOMAIN animItems
  /\ IF Expands(animItems[step[1]])
     THEN /\ animItems' = [animItems EXCEPT ![step[1]] = Expanded(@)]
          /\ step' = <<step[1] + 1, 1>>
          /\ UNCHANGED <<owning, animPlan, draw, rules, itemOwner, roleOwner, assignments>>
     ELSE RefusePlan
ItemsExpanded == EndOf("items", animItems, "groups")

\* One member of one group.
ResolveMember ==
  /\ owning = "groups"
  /\ step[1] \in DOMAIN animPlan.groups
  /\ LET g == animPlan.groups[step[1]]
         k == step[2] IN
       IF ValidGroup(step[1]) /\ ValidMember(g, k)
       THEN LET m == g.members[k] IN
              /\ assignments' = Append(assignments, Assignment(g, k))
              /\ itemOwner' = [i \in DOMAIN itemOwner \cup {m.item} |-> IF i = m.item THEN g.id ELSE itemOwner[i]]
              /\ roleOwner' = [r \in DOMAIN roleOwner \cup {<<m.item, m.role>>} |->
                                 IF r = <<m.item, m.role>> THEN g.id ELSE roleOwner[r]]
              /\ step' = IF k = Len(g.members) THEN <<step[1] + 1, 1>> ELSE <<step[1], k + 1>>
              /\ UNCHANGED <<owning, animPlan, draw, rules, animItems>>
       ELSE RefusePlan
GroupsResolved == EndOf("groups", animPlan.groups, "assign")

\* Nothing is assigned before every group was found valid.
AssignMember ==
  /\ owning = "assign"
  /\ step[1] \in DOMAIN assignments
  /\ LET a == assignments[step[1]] IN animItems' = [animItems EXCEPT ![ItemOf(a.item)] = ApplyAssignment(@, a)]
  /\ step' = <<step[1] + 1, 1>>
  /\ UNCHANGED <<owning, animPlan, draw, rules, itemOwner, roleOwner, assignments>>
MembersAssigned == EndOf("assign", assignments, "retirement")

CheckRetirement ==
  /\ owning = "retirement"
  /\ owning' = IF NamesRetired(animPlan, animItems) THEN "refused" ELSE "owned"
  /\ UNCHANGED <<animPlan, draw, rules, animItems, itemOwner, roleOwner, assignments, step>>

AnimNext ==
  \/ ReadDocument \/ RegisterPolicy \/ PoliciesRegistered \/ ExpandItem \/ ItemsExpanded
  \/ ResolveMember \/ GroupsResolved \/ AssignMember \/ MembersAssigned \/ CheckRetirement

AnimSpec == AnimInit /\ [][AnimNext]_animVars

-----------------------------------------------------------------------------
(* Properties. *)

MembersOf(n) == DOMAIN animPlan.groups[n].members
\* The window the next pass reads: the microseconds, if there are any.
WindowMS(it) == IF it.durUS # Unset THEN <<it.startUS \div 1000, (it.startUS + it.durUS) \div 1000>> ELSE <<it.start, it.end>>
InSomeGroup(i) == \E n \in DOMAIN animPlan.groups : \E k \in MembersOf(n) : ItemOf(animPlan.groups[n].members[k].item) = i
MotionFor(m) == IF m.role = "caption" THEN animItems[ItemOf(m.item)].captionMotion ELSE animItems[ItemOf(m.item)].motion

\* A group may name an item under two roles.  The last of them decides when the item shows,
\* and the last text or image role decides its motion.
SameMotion(m, o) == m.item = o.item /\ (m.role = "caption" <=> o.role = "caption")
DecidesWindow(g, k) == \A j \in DOMAIN g.members : g.members[j].item = g.members[k].item => j <= k
DecidesMotion(g, k) == \A j \in DOMAIN g.members : SameMotion(g.members[j], g.members[k]) => j <= k

\* A group owns its members: the motion of a member is one the group chose for its role,
\* equal for the members of the role that named none, and the item shows when the group
\* said, inside the group's window; nobody else is moved in time.
GroupOwnsMembers ==
  /\ \A n \in DOMAIN animPlan.groups : \A k \in MembersOf(n) :
       LET g == animPlan.groups[n]
           m == g.members[k]
           w == WindowMS(animItems[ItemOf(m.item)]) IN
         /\ MotionFor(m) \in DOMAIN Motions /\ Motions[MotionFor(m)].rests /\ ~Motions[MotionFor(m)].retired
         /\ m.motion # NoMotion /\ DecidesMotion(g, k) => MotionFor(m) = m.motion
         /\ g.start <= w[1] /\ w[1] < w[2] /\ w[2] <= g.end
         /\ DecidesWindow(g, k)
              => w[1] - g.start = IF m.offset # Unset THEN m.offset
                                  ELSE (k - 1) * ((2000 * g.stagger * animPlan.den + animPlan.num) \div (2 * animPlan.num))
         /\ \A j \in MembersOf(n) :
              g.members[j].role = m.role /\ g.members[j].motion = NoMotion /\ m.motion = NoMotion
                /\ DecidesMotion(g, j) /\ DecidesMotion(g, k)
              => MotionFor(g.members[j]) = MotionFor(m)
  /\ \A i \in DOMAIN animItems : ~InSomeGroup(i) => WindowMS(animItems[i]) = WindowMS(animPlan.items[i])

\* A motion the producer named is played, and no item has two groups.
ProducerDecides ==
  /\ \A i \in DOMAIN animItems :
       LET it == animItems[i]
           source == animPlan.items[i] IN
         /\ source.motion # NoMotion => it.motion = source.motion
         /\ source.captionMotion # NoMotion => it.captionMotion = source.captionMotion
         /\ \A k \in DOMAIN source.children : source.children[k].motion # NoMotion => it.children[k].motion = source.children[k].motion
  /\ \A n, o \in DOMAIN animPlan.groups : \A k \in MembersOf(n), j \in MembersOf(o) :
       animPlan.groups[n].members[k].item = animPlan.groups[o].members[j].item => n = o

\* What a subgroup asks for is what its items play, whatever its group asks for, and the
\* images of a stack have no motion of their own but what the producer gave them.
SubgroupDecides ==
  \A i \in DOMAIN animItems :
    LET it == animItems[i] IN
      /\ \A k \in DOMAIN animPlan.policies :
           LET p == animPlan.policies[k] IN
             p.target = "image" /\ p.motion # NoMotion /\ ~UsesStack(p.motion) /\ it.asset /\ it.children = <<>> /\ it.behavior = "image"
               /\ it.group = p.group /\ it.subgroup = p.subgroup /\ animPlan.items[i].motion = NoMotion
             => it.motion = p.motion
      /\ UsesStack(it.motion) => \A k \in DOMAIN it.children : it.children[k].motion = animPlan.items[i].children[k].motion

\* Once a plan is accepted every motion in it has one owner, and none is retired: the
\* policies, the groups and the retirement run one after the other over the same items
\* (semantic_compile.go:84-99).
AnimationHasOneOwner ==
  owning = "owned" =>
    /\ GroupOwnsMembers /\ ProducerDecides /\ SubgroupDecides
    /\ \A i \in DOMAIN animItems : \A id \in ItemMotionIDs(animItems[i]) : ~Retired(id)

\* "A group-level policy shares one choice across all member subgroups"
\* (animation_policy.go): two images that take their motion from the policy of the group
\* take the same.
GroupPolicySharesOneChoice ==
  owning = "owned" =>
    \A i, j \in DOMAIN animItems :
      LET shared(k) == /\ animPlan.items[k].motion = NoMotion /\ ~InSomeGroup(k)
                       /\ animItems[k].asset /\ animItems[k].children = <<>> /\ animItems[k].behavior = "image"
                       /\ SelectAnimationPolicy("image", animItems[k]) # NoPolicy
                       /\ SelectAnimationPolicy("image", animItems[k]).subgroup = "" IN
        shared(i) /\ shared(j) /\ animItems[i].group = animItems[j].group
          => animItems[i].motion = animItems[j].motion
=============================================================================
