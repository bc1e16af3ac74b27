--------------------------- MODULE AnimationProofs ---------------------------
(***************************************************************************)
(* Proofs about the owners of the motions of a plan, for any documents,    *)
(* motions, pools and hashes: once a plan is accepted, every motion in it  *)
(* is the producer's, a policy's or the one group's that claimed the item. *)
(***************************************************************************)
EXTENDS AnimationOwners, FiniteSetTheorems, SequenceTheorems, WellFoundedInduction, NaturalsInduction, TLAPS

-----------------------------------------------------------------------------
(* The inductive invariant *)

ItemFields ==
  {"id", "behavior", "target", "kindTarget", "asset", "caption", "children", "motion", "captionMotion",
   "groupMotion", "mapMotion", "group", "subgroup", "well", "start", "end", "startUS", "durUS"}
ChildFields == {"caption", "motion", "captionMotion", "group", "subgroup", "well"}

\* What no pass changes of an item.
Framed(it, source) ==
  /\ DOMAIN it = ItemFields /\ DOMAIN it.children = DOMAIN source.children
  /\ it.asset = source.asset /\ it.behavior = source.behavior
  /\ it.group = source.group /\ it.subgroup = source.subgroup
Untimed(it, source) ==
  it.start = source.start /\ it.end = source.end /\ it.startUS = source.startUS /\ it.durUS = source.durUS

\* The item is an image the policy gives its motion.
Governs(p, source) ==
  /\ p.target = "image" /\ p.motion # NoMotion /\ ~UsesStack(p.motion)
  /\ source.asset /\ DOMAIN source.children = {} /\ source.behavior = "image"
  /\ source.group = p.group /\ source.subgroup = p.subgroup /\ source.motion = NoMotion
\* The producer and the policies have their way with an item.
Decided(it, source) ==
  /\ source.motion # NoMotion => it.motion = source.motion
  /\ source.captionMotion # NoMotion => it.captionMotion = source.captionMotion
  /\ \A k \in DOMAIN source.children :
       source.children[k].motion # NoMotion => it.children[k].motion = source.children[k].motion
  /\ \A k \in DOMAIN animPlan.policies : Governs(animPlan.policies[k], source) => it.motion = animPlan.policies[k].motion
  /\ UsesStack(it.motion) => \A k \in DOMAIN it.children : it.children[k].motion = source.children[k].motion
Treated(it, source) == Framed(it, source) /\ Untimed(it, source) /\ Decided(it, source)
\* Nobody but a group has a say in an item.
Unowned(source) ==
  /\ source.motion = NoMotion /\ source.captionMotion = NoMotion /\ DOMAIN source.children = {}
  /\ \A k \in DOMAIN animPlan.policies : ~Governs(animPlan.policies[k], source)

\* The policies before the n-th are the rules of their selectors.
Registered(n) ==
  \A k \in DOMAIN animPlan.policies : k < n =>
    LET p == animPlan.policies[k] IN
      p.group # "" /\ p.target # "" /\ Selector(p) \in DOMAIN rules /\ rules[Selector(p)] = p

\* The members of the groups in the order in which they are claimed.
Places == UNION {{<<n, k>> : k \in MembersOf(n)} : n \in DOMAIN animPlan.groups}
Earlier(u, v) == u[1] < v[1] \/ (u[1] = v[1] /\ u[2] < v[2])
AssignmentAt(u) == Assignment(animPlan.groups[u[1]], u[2])
MemberAt(u) == animPlan.groups[u[1]].members[u[2]]
\* A member that a valid group has claimed.
Claimed(u) ==
  /\ ValidGroup(u[1]) /\ Exists(MemberAt(u).item) /\ Unowned(animPlan.items[ItemOf(MemberAt(u).item)])
  /\ MotionOfMember(MemberAt(u)) /\ MemberAt(u).role \in Roles /\ InGroupWindow(animPlan.groups[u[1]], u[2])
  /\ MemberAt(u).item \in DOMAIN itemOwner /\ itemOwner[MemberAt(u).item] = animPlan.groups[u[1]].id
\* The assignments are those of the members before a place, in their order.
Follow(f, at) ==
  /\ f \in [DOMAIN assignments -> Places]
  /\ \A p \in DOMAIN assignments : assignments[p] = AssignmentAt(f[p]) /\ Earlier(f[p], at)
  /\ \A p, q \in DOMAIN assignments : p < q => Earlier(f[p], f[q])
  /\ \A u \in Places : Earlier(u, at) => \E p \in DOMAIN assignments : f[p] = u
ClaimsTo(at) ==
  /\ assignments \in Seq({AssignmentAt(u) : u \in Places})
  /\ \E f \in [DOMAIN assignments -> Places] : Follow(f, at)
  /\ \A u \in Places : Earlier(u, at) => Claimed(u)
Everywhere == <<Len(animPlan.groups) + 1, 1>>

\* After d assignments an item shows when one of those that name it said, the last of
\* them or a later one than any given, and so for its motions.
OfCaption(a) == a.role = "caption"
MotionOf(it, a) == IF OfCaption(a) THEN it.captionMotion ELSE it.motion
Applied(d) ==
  /\ \A i \in DOMAIN animPlan.items :
       /\ Framed(animItems[i], animPlan.items[i]) /\ Decided(animItems[i], animPlan.items[i])
       /\ (\A p \in 1 .. d : ItemOf(assignments[p].item) # i) => Untimed(animItems[i], animPlan.items[i])
  /\ \A p \in 1 .. d : \E q \in p .. d :
       LET it == animItems[ItemOf(assignments[p].item)] IN
         /\ assignments[q].item = assignments[p].item
         /\ it.start = assignments[q].start /\ it.end = assignments[q].end /\ it.durUS = Unset
  /\ \A p \in 1 .. d : \E q \in p .. d :
       /\ assignments[q].item = assignments[p].item /\ (OfCaption(assignments[q]) <=> OfCaption(assignments[p]))
       /\ MotionOf(animItems[ItemOf(assignments[p].item)], assignments[p]) = assignments[q].motion

AnimTyped ==
  /\ owning \in {"document", "policies", "items", "groups", "assign", "retirement", "owned", "refused"}
  /\ step \in (Nat \ {0}) \X (Nat \ {0})
  /\ draw \in Hashes
  /\ owning = "document" => step = <<1, 1>> /\ rules = <<>>
  /\ owning # "document" => animPlan \in AnimationPlans /\ DOMAIN animItems = DOMAIN animPlan.items
  /\ owning \in {"document", "policies", "items"} => assignments = <<>> /\ itemOwner = <<>>
PolicyInv ==
  /\ owning = "policies" => animItems = animPlan.items /\ Registered(step[1])
  /\ owning = "items" => Registered(Len(animPlan.policies) + 1)
ItemsInv ==
  /\ owning = "items" =>
       \A i \in DOMAIN animPlan.items :
         IF i < step[1] THEN Treated(animItems[i], animPlan.items[i]) ELSE animItems[i] = animPlan.items[i]
  /\ owning = "groups" => \A i \in DOMAIN animPlan.items : Treated(animItems[i], animPlan.items[i])
ClaimsInv ==
  /\ owning = "groups" => ClaimsTo(step) /\ (step[1] \in DOMAIN animPlan.groups => step[2] \in 1 .. Len(animPlan.groups[step[1]].members) \/ step[2] = 1)
  /\ owning \in {"assign", "retirement", "owned"} => ClaimsTo(Everywhere)
AssignInv ==
  /\ owning = "assign" => step[1] - 1 <= Len(assignments) /\ Applied(step[1] - 1)
  /\ owning \in {"retirement", "owned"} => Applied(Len(assignments))
  /\ owning = "owned" => ~NamesRetired(animPlan, animItems)
AnimInv == AnimTyped /\ PolicyInv /\ ItemsInv /\ ClaimsInv /\ AssignInv

-----------------------------------------------------------------------------
(* Numbers and indices *)

\* A set of naturals has a least element, and a bounded one a greatest.
LEMMA LeastExists ==
  ASSUME NEW S \in SUBSET Nat, S # {}
  PROVE  \E x \in S : \A y \in S : x <= y
<1>1. PICK x \in S : \A y \in S : ~(<<y, x>> \in OpToRel(<, Nat))
  BY NatLessThanWellFounded, WFMin
<1>2. \A y \in S : ~(y < x)
  BY <1>1 DEF OpToRel
<1> QED
  BY <1>2

LEMMA GreatestExists ==
  ASSUME NEW n \in Nat, NEW S \in SUBSET (1 .. n), S # {}
  PROVE  \E x \in S : \A y \in S : y <= x
<1> DEFINE mirror == {k \in Nat : n - k \in S}
<1>1. mirror \in SUBSET Nat /\ mirror # {}
  <2>1. PICK y \in S : TRUE
    OBVIOUS
  <2>2. y \in 1 .. n /\ n - y \in Nat /\ n - (n - y) = y
    OBVIOUS
  <2> QED
    BY <2>1, <2>2
<1>2. PICK k \in mirror : \A j \in mirror : k <= j
  BY <1>1, LeastExists
<1>3. \A y \in S : y <= n - k
  <2> TAKE y \in S
  <2>1. y \in 1 .. n /\ n - y \in Nat /\ n - (n - y) = y
    OBVIOUS
  <2>2. k <= n - y
    BY <1>2, <2>1
  <2> QED
    BY <2>1, <2>2
<1> QED
  BY <1>2, <1>3

LEMMA PartFinite ==
  ASSUME NEW max \in Nat, NEW pool \in SUBSET (1 .. max)
  PROVE  IsFiniteSet(pool) /\ Cardinality(pool) \in Nat /\ (Cardinality(pool) = 0 <=> pool = {})
<1>1. IsFiniteSet(1 .. max)
  <2>1. 1 \in Int /\ max \in Int
    OBVIOUS
  <2> QED
    BY <2>1, FS_Interval
<1>2. IsFiniteSet(pool)
  BY <1>1, FS_Subset
<1> QED
  BY <1>2, FS_CardinalityType, FS_EmptySet

\* What is below the greatest number is the rest.
LEMMA BelowTop ==
  ASSUME NEW pool \in SUBSET Nat, NEW rest \in SUBSET pool, NEW x \in rest, \A y \in rest : y <= x,
         \A y \in pool : y < x => y \in rest
  PROVE  {j \in pool : j < x} = rest \ {x}
<1>1. x \in Nat /\ \A y \in pool : y \in Nat
  OBVIOUS
<1>2. ASSUME NEW y, y \in pool, y < x PROVE y \in rest \ {x}
  BY <1>1, <1>2
<1>3. ASSUME NEW y, y \in rest \ {x} PROVE y \in pool /\ y < x
  BY <1>1, <1>3
<1> QED
  BY <1>2, <1>3

\* Among the numbers of a set some one has n smaller ones, for every n below its size.
LEMMA NthExists ==
  ASSUME NEW max \in Nat, NEW pool \in SUBSET (1 .. max), NEW n \in Nat, n < Cardinality(pool)
  PROVE  \E i \in pool : Cardinality({j \in pool : j < i}) = n
<1> DEFINE below(i) == {j \in pool : j < i}
           high == {i \in pool : Cardinality(below(i)) >= n}
<1>1. IsFiniteSet(pool) /\ Cardinality(pool) \in Nat /\ pool # {}
  <2>1. IsFiniteSet(pool) /\ Cardinality(pool) \in Nat /\ (Cardinality(pool) = 0 <=> pool = {})
    BY PartFinite
  <2> QED
    BY <2>1
<1>0. pool \in SUBSET Nat /\ \A y \in pool : y \in Nat
  OBVIOUS
<1>2. \A i \in pool : IsFiniteSet(below(i)) /\ Cardinality(below(i)) \in Nat
  BY <1>1, FS_Subset, FS_CardinalityType
<1>3. high # {}
  <2>1. PICK x \in pool : \A y \in pool : y <= x
    BY <1>1, GreatestExists
  <2>2. below(x) = pool \ {x}
    BY <1>0, <2>1, BelowTop
  <2>3. Cardinality(below(x)) = Cardinality(pool) - 1
    BY <1>1, <2>2, FS_RemoveElement
  <2>4. Cardinality(below(x)) >= n
    <3> HIDE DEF below
    <3> QED
      BY <1>1, <2>3
  <2> QED
    BY <2>1, <2>4
<1>4. PICK i \in high : \A j \in high : i <= j
  <2>1. high \in SUBSET Nat
    <3>1. high \subseteq pool
      OBVIOUS
    <3> QED
      BY <1>0, <3>1
  <2> HIDE DEF high
  <2> QED
    BY <1>3, <2>1, LeastExists
<1>5. ASSUME Cardinality(below(i)) > n PROVE FALSE
  <2>1. below(i) # {}
    BY <1>5, <1>2, FS_EmptySet
  <2>2. PICK h \in below(i) : \A y \in below(i) : y <= h
    <3>1. below(i) \in SUBSET (1 .. max)
      OBVIOUS
    <3> HIDE DEF below
    <3> QED
      BY <2>1, <3>1, GreatestExists
  <2>3. below(h) = below(i) \ {h}
    <3>1. i \in pool /\ below(i) \in SUBSET pool /\ h \in pool /\ h < i
      BY <2>2
    <3>2. \A y \in pool : y < h => y \in below(i)
      BY <1>0, <3>1
    <3> QED
      BY <1>0, <2>2, <3>1, <3>2, BelowTop
  <2>4. Cardinality(below(h)) = Cardinality(below(i)) - 1
    BY <1>2, <2>2, <2>3, FS_RemoveElement
  <2>5. h \in high
    BY <1>2, <1>5, <2>2, <2>4
  <2> QED
    BY <1>4, <2>2, <2>5
<1> QED
  BY <1>2, <1>4, <1>5

\* What a group draws for a role is in the part of the pool it may draw from.
LEMMA DrawnInPool ==
  ASSUME NEW role \in Roles, NEW g, draw[<<g.id, role>>] \in Nat, RolePool(role) # {}
  PROVE  \E i \in RolePool(role) : DrawnFor(g, role) = Defaults[role][i]
<1> DEFINE pool == RolePool(role)
           n == draw[<<g.id, role>>] % Cardinality(pool)
           nth == CHOOSE i \in pool : Cardinality({j \in pool : j < i}) = n
<1>1. pool \in SUBSET (1 .. Len(Defaults[role])) /\ Len(Defaults[role]) \in Nat
  BY AnimationAssumption DEF RolePool, IsListOf
<1>2. IsFiniteSet(pool) /\ Cardinality(pool) \in Nat \ {0}
  <2> HIDE DEF pool
  <2>1. pool # {}
    BY DEF pool
  <2> QED
    BY <1>1, <2>1, PartFinite
<1>3. n \in Nat /\ n < Cardinality(pool)
  <2> HIDE DEF pool
  <2> QED
    BY <1>1, <1>2
<1>4. \E i \in pool : Cardinality({j \in pool : j < i}) = n
  <2> HIDE DEF pool, n
  <2> QED
    BY <1>1, <1>3, NthExists
<1>5. nth \in pool
  <2> HIDE DEF pool, n
  <2> QED
    BY <1>4
<1>6. DrawnFor(g, role) = Defaults[role][nth]
  BY DEF DrawnFor
<1> QED
  BY <1>5, <1>6

\* An id that some item has names one of them.
LEMMA NamedItem ==
  ASSUME animPlan \in AnimationPlans, NEW id, Exists(id)
  PROVE  ItemOf(id) \in DOMAIN animPlan.items /\ animPlan.items[ItemOf(id)].id = id
<1> DEFINE S == {i \in DOMAIN animPlan.items : animPlan.items[i].id = id}
<1>1. DOMAIN animPlan.items = 1 .. Len(animPlan.items) /\ Len(animPlan.items) \in Nat
  BY AnimationAssumption DEF IsListOf
<1>2. S \in SUBSET (1 .. Len(animPlan.items)) /\ S # {}
  BY <1>1 DEF Exists
<1>3. \E x \in S : \A y \in S : y <= x
  BY <1>1, <1>2, GreatestExists
<1>4. \E i \in DOMAIN animPlan.items :
        /\ animPlan.items[i].id = id
        /\ \A j \in DOMAIN animPlan.items : animPlan.items[j].id = id => j <= i
  BY <1>3
<1> QED
  BY <1>4 DEF ItemOf

-----------------------------------------------------------------------------
(* What the policies make of an item *)

\* y is x but for the fields of S, and a motion that was named is kept.
Rewrites(y, x, S) == DOMAIN y = DOMAIN x /\ \A f \in DOMAIN x \ S : y[f] = x[f]
Keeps(y, x) ==
  /\ x.motion # NoMotion => y.motion = x.motion
  /\ x.captionMotion # NoMotion => y.captionMotion = x.captionMotion
Motional == {"motion", "captionMotion"}

LEMMA ItemShape ==
  ASSUME NEW x, IsItem(x)
  PROVE  /\ DOMAIN x = ItemFields /\ x.children = [k \in DOMAIN x.children |-> x.children[k]]
         /\ \A k \in DOMAIN x.children : DOMAIN x.children[k] = ChildFields
         /\ x.behavior = "image" => x.target = ""
<1>1. DOMAIN x = ItemFields
  BY DEF IsItem, ItemFields
<1>2. ASSUME NEW k \in DOMAIN x.children PROVE DOMAIN x.children[k] = ChildFields
  <2> DEFINE c == x.children[k]
  <2>1. c = [caption |-> c.caption, motion |-> c.motion, captionMotion |-> c.captionMotion, group |-> c.group,
             subgroup |-> c.subgroup, well |-> c.well]
    BY DEF IsItem
  <2> HIDE DEF c
  <2>2. DOMAIN c = ChildFields
    BY <2>1 DEF ChildFields
  <2> QED
    BY <2>2 DEF c
<1>3. x.children = [k \in DOMAIN x.children |-> x.children[k]]
  BY DEF IsItem
<1>4. x.behavior = "image" => x.target = ""
  BY DEF IsItem
<1> QED
  BY <1>1, <1>2, <1>3, <1>4

LEMMA NoChildren ==
  ASSUME NEW x, IsItem(x)
  PROVE  x.children = <<>> <=> DOMAIN x.children = {}
<1>1. x.children = [k \in DOMAIN x.children |-> x.children[k]]
  BY ItemShape
<1>2. ASSUME DOMAIN x.children = {} PROVE x.children = <<>>
  BY <1>1, <1>2
<1> QED
  BY <1>2

LEMMA SetMotion ==
  ASSUME NEW x, NEW v, "motion" \in DOMAIN x, NEW y, y = [x EXCEPT !.motion = v]
  PROVE  Rewrites(y, x, {"motion"}) /\ y.motion = v
BY DEF Rewrites

LEMMA SetCaption ==
  ASSUME NEW x, NEW v, "captionMotion" \in DOMAIN x, NEW y, y = [x EXCEPT !.captionMotion = v]
  PROVE  Rewrites(y, x, {"captionMotion"}) /\ y.captionMotion = v
BY DEF Rewrites

\* A policy gives a motion to what has none.
LEMMA GivesMotion ==
  ASSUME NEW x, Motional \subseteq DOMAIN x, NEW v, NEW y, y = x \/ (x.motion = NoMotion /\ y = [x EXCEPT !.motion = v])
  PROVE  Rewrites(y, x, {"motion"}) /\ Keeps(y, x)
<1>1. CASE y = x
  BY <1>1 DEF Rewrites, Keeps
<1>2. CASE x.motion = NoMotion /\ y = [x EXCEPT !.motion = v]
  <2>1. Rewrites(y, x, {"motion"})
    BY <1>2, SetMotion DEF Motional
  <2>2. y.captionMotion = x.captionMotion
    BY <2>1 DEF Rewrites, Motional
  <2> QED
    BY <1>2, <2>1, <2>2 DEF Keeps
<1> QED
  BY <1>1, <1>2

LEMMA PolicyMotion ==
  ASSUME NEW x, NEW target, NEW eligible, Motional \subseteq DOMAIN x, NEW y, y = WithPolicyMotion(x, target, eligible)
  PROVE  Rewrites(y, x, {"motion"}) /\ Keeps(y, x) /\ (~eligible => y = x)
<1> DEFINE v == ResolvePolicyMotion(SelectAnimationPolicy(target, x), target, x)
<1>1. y = x \/ (x.motion = NoMotion /\ y = [x EXCEPT !.motion = v])
  BY DEF WithPolicyMotion
<1>2. ~eligible => y = x
  BY DEF WithPolicyMotion
<1> HIDE DEF v
<1> QED
  BY <1>1, <1>2, GivesMotion

LEMMA PolicyCaption ==
  ASSUME NEW x, Motional \subseteq DOMAIN x, NEW y, y = WithPolicyCaption(x)
  PROVE  Rewrites(y, x, {"captionMotion"}) /\ Keeps(y, x)
<1>1. CASE y = x
  BY <1>1 DEF Rewrites, Keeps
<1>2. CASE y # x
  <2>1. /\ x.captionMotion = NoMotion
        /\ y = [x EXCEPT !.captionMotion = ResolvePolicyMotion(SelectAnimationPolicy("caption", x), "caption", x)]
    BY <1>2 DEF WithPolicyCaption
  <2>2. Rewrites(y, x, {"captionMotion"})
    BY <2>1, SetCaption DEF Motional
  <2>3. y.motion = x.motion
    BY <2>2 DEF Rewrites, Motional
  <2> QED
    BY <2>1, <2>2, <2>3 DEF Keeps
<1> QED
  BY <1>1, <1>2

LEMMA RewriteTwice ==
  ASSUME NEW x, NEW y, NEW z, Motional \subseteq DOMAIN x, Rewrites(y, x, Motional), Rewrites(z, y, Motional), Keeps(y, x), Keeps(z, y)
  PROVE  Rewrites(z, x, Motional) /\ Keeps(z, x)
BY DEF Rewrites, Keeps

LEMMA RewriteMore ==
  ASSUME NEW x, NEW y
  PROVE  Rewrites(y, x, {"motion"}) \/ Rewrites(y, x, {"captionMotion"}) => Rewrites(y, x, Motional)
BY DEF Rewrites, Motional

\* The motions of an item before its images: a named one is kept, and an image has no text's.
LEMMA TextRewrites ==
  ASSUME NEW x, Motional \subseteq DOMAIN x, NEW y, y = TextDefaults(x)
  PROVE  /\ Rewrites(y, x, Motional) /\ Keeps(y, x)
         /\ x.behavior = "image" /\ x.target = "" => y.motion = x.motion
<1> DEFINE phrased == WithPolicyMotion(x, "important_phrase", TextItem(x))
           named == WithPolicyMotion(phrased, x.target, TRUE)
           asked == IF x.target = "" THEN phrased ELSE named
<1>1. y = WithPolicyCaption(asked)
  BY DEF TextDefaults
<1>2. Rewrites(phrased, x, {"motion"}) /\ Keeps(phrased, x) /\ (~TextItem(x) => phrased = x)
  BY PolicyMotion
<1>3. Motional \subseteq DOMAIN phrased
  BY <1>2 DEF Rewrites
<1>4. Rewrites(named, phrased, {"motion"}) /\ Keeps(named, phrased)
  <2> DEFINE v == ResolvePolicyMotion(SelectAnimationPolicy(x.target, phrased), x.target, phrased)
  <2>1. named = phrased \/ (phrased.motion = NoMotion /\ named = [phrased EXCEPT !.motion = v])
    BY DEF WithPolicyMotion
  <2> HIDE DEF v, phrased, named
  <2> QED
    BY <1>3, <2>1, GivesMotion
<1> HIDE DEF phrased, named
<1>5. Rewrites(asked, x, Motional) /\ Keeps(asked, x)
  BY <1>2, <1>4, RewriteMore, RewriteTwice
<1>6. Motional \subseteq DOMAIN asked
  BY <1>5 DEF Rewrites
<1>7. Rewrites(y, asked, {"captionMotion"}) /\ Keeps(y, asked)
  BY <1>1, <1>6, PolicyCaption
<1>8. y.motion = asked.motion
  BY <1>6, <1>7 DEF Rewrites, Motional
<1>9. x.behavior = "image" /\ x.target = "" => asked = x
  BY <1>2 DEF TextItem, IsTextLike
<1> HIDE DEF asked
<1>10. Rewrites(y, x, Motional) /\ Keeps(y, x)
  BY <1>5, <1>7, RewriteMore, RewriteTwice
<1> QED
  BY <1>8, <1>9, <1>10

\* Once every policy is a rule, the one of an item's own subgroup is the one it takes.
LEMMA OwnPolicy ==
  ASSUME NEW k \in DOMAIN animPlan.policies, NEW p, p = animPlan.policies[k], p.target = "image",
         p.group # "", Selector(p) \in DOMAIN rules, rules[Selector(p)] = p,
         NEW x, x.group = p.group, x.subgroup = p.subgroup
  PROVE  SelectAnimationPolicy("image", x) = p
<1>1. Selector(p) = <<"image", x.group, x.subgroup>>
  BY DEF Selector
<1>2. CASE x.subgroup = ""
  BY <1>1, <1>2 DEF SelectAnimationPolicy
<1>3. CASE x.subgroup # ""
  BY <1>1, <1>3 DEF SelectAnimationPolicy
<1> QED
  BY <1>2, <1>3

\* A child keeps the motion the producer gave it, and has no other under a stack.
LEMMA ChildTreated ==
  ASSUME NEW it, NEW child, DOMAIN child = ChildFields, NEW c, c = ChildDefaults(it, child)
  PROVE  /\ child.motion # NoMotion => c.motion = child.motion
         /\ UsesStack(it.motion) => c.motion = child.motion
<1> DEFINE in == InGroupOf(it, child)
           moved == WithPolicyMotion(in, "image", MovesChild(it, in))
<1>1. DOMAIN in = ChildFields /\ in.motion = child.motion
  BY DEF InGroupOf, ChildFields
<1>2. c = WithPolicyCaption(moved)
  BY DEF ChildDefaults
<1>3. UsesStack(it.motion) => ~MovesChild(it, in)
  BY DEF MovesChild
<1> HIDE DEF in
<1>4. Motional \subseteq DOMAIN in
  BY <1>1 DEF Motional, ChildFields
<1>5. Rewrites(moved, in, {"motion"}) /\ Keeps(moved, in) /\ (~MovesChild(it, in) => moved = in)
  BY <1>4, PolicyMotion
<1> HIDE DEF moved
<1>6. Motional \subseteq DOMAIN moved
  BY <1>4, <1>5 DEF Rewrites
<1>7. Rewrites(c, moved, {"captionMotion"})
  BY <1>2, <1>6, PolicyCaption
<1>8. c.motion = moved.motion
  BY <1>6, <1>7 DEF Rewrites, Motional
<1> QED
  BY <1>1, <1>3, <1>5, <1>8 DEF Keeps

\* An item that is pinned keeps its motion.
LEMMA PinnedKeeps ==
  ASSUME NEW x, Motional \subseteq DOMAIN x, PinAgrees(x), NEW y, y = Pinned(x)
  PROVE  Rewrites(y, x, {"motion"}) /\ Keeps(y, x) /\ (x.children = <<>> => y = x)
<1>1. CASE ~Pins(x)
  BY <1>1 DEF Pinned, Rewrites, Keeps
<1>2. CASE Pins(x)
  <2>1. y = [x EXCEPT !.motion = x.groupMotion]
    BY <1>2 DEF Pinned
  <2>2. Rewrites(y, x, {"motion"}) /\ y.motion = x.groupMotion
    BY <2>1, SetMotion DEF Motional
  <2>3. y.captionMotion = x.captionMotion
    BY <2>2 DEF Rewrites, Motional
  <2>4. x.motion \in {NoMotion, x.groupMotion} /\ x.children # <<>>
    BY <1>2 DEF PinAgrees, Pins
  <2> QED
    BY <2>2, <2>3, <2>4 DEF Keeps
<1> QED
  BY <1>1, <1>2

\* The passes over one item do what the invariant says of it.
LEMMA ExpandedIsTreated ==
  ASSUME NEW source, IsItem(source), Expands(source), Registered(Len(animPlan.policies) + 1),
         IsListOf(animPlan.policies)
  PROVE  Treated(Expanded(source), source)
<1> DEFINE pinned == Pinned(source)
           texted == TextDefaults(pinned)
           moved == Moved(texted)
           it == Expanded(source)
           eligible == IF texted.children = <<>> THEN texted.asset /\ IsPictured(texted)
                       ELSE UsesStack(SelectAnimationPolicy("image", texted).motion)
<1>1. /\ DOMAIN source = ItemFields /\ Motional \subseteq DOMAIN source
      /\ \A k \in DOMAIN source.children : DOMAIN source.children[k] = ChildFields
      /\ source.behavior = "image" => source.target = ""
      /\ source.children = <<>> <=> DOMAIN source.children = {}
  <2>1. Motional \subseteq ItemFields
    BY DEF Motional, ItemFields
  <2> QED
    BY <2>1, ItemShape, NoChildren
<1>2. Rewrites(pinned, source, {"motion"}) /\ Keeps(pinned, source) /\ (source.children = <<>> => pinned = source)
  <2>1. PinAgrees(source)
    BY DEF Expands
  <2> QED
    BY <1>1, <2>1, PinnedKeeps
<1>3. Motional \subseteq DOMAIN pinned
  BY <1>1, <1>2 DEF Rewrites
<1> HIDE DEF pinned
<1>4. /\ Rewrites(texted, pinned, Motional) /\ Keeps(texted, pinned)
      /\ pinned.behavior = "image" /\ pinned.target = "" => texted.motion = pinned.motion
  BY <1>3, TextRewrites
<1> HIDE DEF texted
<1>5. Motional \subseteq DOMAIN texted
  BY <1>3, <1>4 DEF Rewrites
<1>6. moved = WithPolicyMotion(texted, "image", eligible)
  BY DEF Moved
<1>7. Rewrites(moved, texted, {"motion"}) /\ Keeps(moved, texted)
  BY <1>5, <1>6, PolicyMotion
<1>8. it = [moved EXCEPT !.children = [k \in DOMAIN texted.children |-> ChildDefaults(moved, texted.children[k])]]
  BY DEF Expanded, ImageDefaults, texted, pinned
<1>9. Rewrites(texted, source, Motional) /\ Keeps(texted, source)
  BY <1>1, <1>2, <1>4, RewriteMore, RewriteTwice
<1>10. texted.children = source.children
  BY <1>1, <1>9 DEF Rewrites, Motional, ItemFields
<1> HIDE DEF moved, it, eligible
<1>11. Rewrites(moved, source, Motional) /\ Keeps(moved, source)
  BY <1>1, <1>7, <1>9, RewriteMore, RewriteTwice
<1>12. DOMAIN moved = ItemFields
  BY <1>1, <1>11 DEF Rewrites
<1>13. /\ DOMAIN it = ItemFields /\ \A f \in ItemFields \ {"children"} : it[f] = moved[f]
       /\ it.children = [k \in DOMAIN source.children |-> ChildDefaults(moved, source.children[k])]
  BY <1>8, <1>10, <1>12 DEF ItemFields
<1>14. \A f \in ItemFields \ {"children", "motion", "captionMotion"} : it[f] = source[f]
  BY <1>1, <1>11, <1>13 DEF Rewrites, Motional
<1>15. it.motion = moved.motion /\ it.captionMotion = moved.captionMotion
  BY <1>13 DEF ItemFields
<1>16. Framed(it, source) /\ Untimed(it, source)
  BY <1>13, <1>14 DEF Framed, Untimed, ItemFields
<1>17. \A k \in DOMAIN source.children :
         /\ source.children[k].motion # NoMotion => it.children[k].motion = source.children[k].motion
         /\ UsesStack(it.motion) => it.children[k].motion = source.children[k].motion
  <2> TAKE k \in DOMAIN source.children
  <2>1. DOMAIN source.children[k] = ChildFields
    BY <1>1
  <2>2. it.children[k] = ChildDefaults(moved, source.children[k])
    BY <1>13
  <2>3. /\ source.children[k].motion # NoMotion => it.children[k].motion = source.children[k].motion
        /\ UsesStack(moved.motion) => it.children[k].motion = source.children[k].motion
    BY <2>1, <2>2, ChildTreated
  <2> QED
    BY <1>15, <2>3
<1>18. ASSUME NEW n \in DOMAIN animPlan.policies, Governs(animPlan.policies[n], source)
       PROVE  it.motion = animPlan.policies[n].motion
  <2> DEFINE p == animPlan.policies[n]
  <2>1. /\ p.target = "image" /\ p.motion # NoMotion /\ source.asset /\ source.children = <<>>
        /\ source.behavior = "image" /\ source.group = p.group /\ source.subgroup = p.subgroup
        /\ source.motion = NoMotion /\ source.target = ""
    BY <1>1, <1>18 DEF Governs
  <2>2. p.group # "" /\ p.target # "" /\ Selector(p) \in DOMAIN rules /\ rules[Selector(p)] = p
    <3>1. n < Len(animPlan.policies) + 1
      BY DEF IsListOf
    <3> QED
      BY <3>1 DEF Registered
  <2>3. pinned = source /\ texted.motion = NoMotion
    BY <1>2, <1>4, <2>1
  <2>4. texted.group = p.group /\ texted.subgroup = p.subgroup /\ texted.asset /\ texted.behavior = "image"
    BY <1>1, <1>9, <2>1 DEF Rewrites, Motional, ItemFields
  <2>5. SelectAnimationPolicy("image", texted) = p
    BY <2>1, <2>2, <2>4, OwnPolicy
  <2>6. eligible
    BY <1>10, <2>1, <2>4 DEF eligible, IsPictured
  <2>7. p # NoPolicy
    <3>1. NoPolicy.target = ""
      BY DEF NoPolicy
    <3> HIDE DEF p
    <3> QED
      BY <2>1, <3>1
  <2>8. moved = [texted EXCEPT !.motion = ResolvePolicyMotion(p, "image", texted)]
    BY <1>6, <2>3, <2>5, <2>6, <2>7 DEF WithPolicyMotion
  <2>9. ResolvePolicyMotion(p, "image", texted) = p.motion
    BY <2>1 DEF ResolvePolicyMotion
  <2>10. moved.motion = p.motion
    BY <1>5, <2>8, <2>9 DEF Motional
  <2> QED
    BY <1>15, <2>10
<1>19. Decided(it, source)
  BY <1>11, <1>13, <1>15, <1>17, <1>18 DEF Decided, Keeps
<1> QED
  BY <1>16, <1>19 DEF Treated, it

-----------------------------------------------------------------------------
(* The policies and the items *)

LEMMA PlanTyped ==
  ASSUME animPlan \in AnimationPlans
  PROVE  /\ IsListOf(animPlan.items) /\ IsListOf(animPlan.policies) /\ IsListOf(animPlan.groups)
         /\ \A i \in DOMAIN animPlan.items : IsItem(animPlan.items[i])
         /\ \A n \in DOMAIN animPlan.groups : IsGroup(animPlan.groups[n])
         /\ animPlan.num \in Int /\ animPlan.den \in Int
BY AnimationAssumption

LEMMA StepTyped ==
  ASSUME AnimTyped
  PROVE  step[1] \in Nat \ {0} /\ step[2] \in Nat \ {0} /\ <<step[1] + 1, 1>> \in (Nat \ {0}) \X (Nat \ {0})
         /\ <<step[1], step[2] + 1>> \in (Nat \ {0}) \X (Nat \ {0}) /\ <<1, 1>> \in (Nat \ {0}) \X (Nat \ {0})
BY DEF AnimTyped

LEMMA AnimInvInit == AnimInit => AnimInv
<1> SUFFICES ASSUME AnimInit
             PROVE  AnimInv
  OBVIOUS
<1>1. AnimTyped
  BY DEF AnimInit, AnimTyped
<1> QED
  BY <1>1 DEF AnimInit, AnimInv, PolicyInv, ItemsInv, ClaimsInv, AssignInv

LEMMA ReadKeeps ==
  ASSUME AnimInv, ReadDocument
  PROVE  AnimInv'
<1>1. AnimTyped'
  BY DEF ReadDocument, AnimInv, AnimTyped
<1>2. step' = <<1, 1>> /\ DOMAIN animPlan'.policies = 1 .. Len(animPlan'.policies) /\ Len(animPlan'.policies) \in Nat
      /\ animItems' = animPlan'.items
  BY AnimationAssumption DEF ReadDocument, AnimInv, AnimTyped, IsListOf
<1>3. \A k \in DOMAIN animPlan'.policies : ~(k < step'[1])
  BY <1>2
<1>4. PolicyInv'
  BY <1>2, <1>3 DEF ReadDocument, PolicyInv, Registered
<1> QED
  BY <1>1, <1>4 DEF ReadDocument, AnimInv, ItemsInv, ClaimsInv, AssignInv

\* A refused plan has no more to answer for.
LEMMA RefuseKeeps ==
  ASSUME AnimInv, RefusePlan, owning # "document"
  PROVE  AnimInv'
<1>1. AnimTyped'
  BY DEF RefusePlan, AnimInv, AnimTyped
<1> QED
  BY <1>1 DEF RefusePlan, AnimInv, PolicyInv, ItemsInv, ClaimsInv, AssignInv

LEMMA RegisterKeeps ==
  ASSUME AnimInv, RegisterPolicy
  PROVE  AnimInv'
<1> DEFINE p == animPlan.policies[step[1]]
<1>1. CASE ~ValidPolicy(p)
  BY <1>1, RefuseKeeps DEF RegisterPolicy
<1>2. CASE ValidPolicy(p)
  <2>1. /\ owning = "policies" /\ step[1] \in DOMAIN animPlan.policies
        /\ rules' = [s \in DOMAIN rules \cup {Selector(p)} |-> IF s = Selector(p) THEN p ELSE rules[s]]
        /\ step' = <<step[1] + 1, 1>>
        /\ UNCHANGED <<owning, animPlan, draw, animItems, itemOwner, roleOwner, assignments>>
    BY <1>2 DEF RegisterPolicy
  <2>2. AnimTyped'
    BY <2>1, StepTyped DEF AnimInv, AnimTyped
  <2>3. p.group # "" /\ p.target # "" /\ Selector(p) \notin DOMAIN rules
    BY <1>2 DEF ValidPolicy, PolicyTargets, TargetAdmissionRules
  <2>4. animItems' = animPlan.items /\ Registered(step[1]) /\ animPlan \in AnimationPlans /\ step[1] \in Nat
    BY <2>1, StepTyped DEF AnimInv, PolicyInv, AnimTyped
  <2>5. Registered(step[1])'
    <3> SUFFICES ASSUME NEW k \in DOMAIN animPlan.policies, k < step[1] + 1
                 PROVE  LET o == animPlan.policies[k] IN
                          o.group # "" /\ o.target # "" /\ Selector(o) \in DOMAIN rules' /\ rules'[Selector(o)] = o
      BY <2>1 DEF Registered, Selector
    <3>1. k \in Nat
      BY <2>4, PlanTyped DEF IsListOf
    <3>2. CASE k = step[1]
      BY <2>1, <2>3, <3>2
    <3>3. CASE k # step[1]
      <4> DEFINE o == animPlan.policies[k]
      <4>1. k < step[1]
        BY <2>4, <3>1, <3>3
      <4>2. o.group # "" /\ o.target # "" /\ Selector(o) \in DOMAIN rules /\ rules[Selector(o)] = o
        BY <2>4, <4>1 DEF Registered
      <4>3. Selector(o) # Selector(p)
        BY <2>3, <4>2
      <4> HIDE DEF o, p
      <4>4. Selector(o) \in DOMAIN rules' /\ rules'[Selector(o)] = o
        BY <2>1, <4>2, <4>3
      <4> QED
        BY <4>2, <4>4 DEF o
    <3> QED
      BY <3>2, <3>3
  <2>6. PolicyInv'
    BY <2>1, <2>4, <2>5 DEF PolicyInv, Registered
  <2> QED
    BY <2>1, <2>2, <2>6 DEF AnimInv, ItemsInv, ClaimsInv, AssignInv
<1> QED
  BY <1>1, <1>2

LEMMA PoliciesRegisteredKeeps ==
  ASSUME AnimInv, PoliciesRegistered
  PROVE  AnimInv'
<1>1. /\ owning = "policies" /\ step[1] \notin DOMAIN animPlan.policies /\ owning' = "items" /\ step' = <<1, 1>>
      /\ UNCHANGED <<animPlan, draw, rules, animItems, itemOwner, roleOwner, assignments>>
  BY DEF PoliciesRegistered, EndOf
<1>2. AnimTyped'
  BY <1>1, StepTyped DEF AnimInv, AnimTyped
<1>3. animItems = animPlan.items /\ Registered(step[1]) /\ animPlan \in AnimationPlans /\ step[1] \in Nat \ {0}
  BY <1>1, StepTyped DEF AnimInv, PolicyInv, AnimTyped
<1>4. /\ DOMAIN animPlan.policies = 1 .. Len(animPlan.policies) /\ Len(animPlan.policies) \in Nat
      /\ DOMAIN animPlan.items = 1 .. Len(animPlan.items) /\ Len(animPlan.items) \in Nat
  BY <1>3, PlanTyped DEF IsListOf
<1>5. Registered(Len(animPlan.policies) + 1)
  <2>1. \A k \in DOMAIN animPlan.policies : k < step[1]
    BY <1>1, <1>3, <1>4
  <2> QED
    BY <1>3, <2>1 DEF Registered
<1>6. PolicyInv'
  BY <1>1, <1>5 DEF PolicyInv, Registered, Selector
<1>7. ItemsInv'
  BY <1>1, <1>3, <1>4 DEF ItemsInv
<1> QED
  BY <1>1, <1>2, <1>6, <1>7 DEF AnimInv, ClaimsInv, AssignInv

LEMMA ExpandKeeps ==
  ASSUME AnimInv, ExpandItem
  PROVE  AnimInv'
<1> DEFINE i == step[1]
<1>1. CASE ~Expands(animItems[i])
  BY <1>1, RefuseKeeps DEF ExpandItem
<1>2. CASE Expands(animItems[i])
  <2>1. /\ owning = "items" /\ i \in DOMAIN animItems
        /\ animItems' = [animItems EXCEPT ![i] = Expanded(animItems[i])]
        /\ step' = <<i + 1, 1>>
        /\ UNCHANGED <<owning, animPlan, draw, rules, itemOwner, roleOwner, assignments>>
    BY <1>2 DEF ExpandItem
  <2>2. AnimTyped'
    BY <2>1, StepTyped DEF AnimInv, AnimTyped
  <2>3. /\ animPlan \in AnimationPlans /\ i \in Nat /\ DOMAIN animItems = DOMAIN animPlan.items
        /\ Registered(Len(animPlan.policies) + 1)
        /\ \A k \in DOMAIN animPlan.items :
             IF k < i THEN Treated(animItems[k], animPlan.items[k]) ELSE animItems[k] = animPlan.items[k]
    BY <2>1, StepTyped DEF AnimInv, AnimTyped, PolicyInv, ItemsInv
  <2>4. Treated(animItems'[i], animPlan.items[i])
    <3>1. animItems[i] = animPlan.items[i] /\ IsItem(animPlan.items[i]) /\ IsListOf(animPlan.policies)
      BY <2>1, <2>3, PlanTyped
    <3>2. Treated(Expanded(animPlan.items[i]), animPlan.items[i])
      BY <1>2, <2>3, <3>1, ExpandedIsTreated
    <3> QED
      BY <2>1, <3>1, <3>2
  <2>5. ASSUME NEW k \in DOMAIN animPlan.items
        PROVE  IF k < i + 1 THEN Treated(animItems'[k], animPlan.items[k]) ELSE animItems'[k] = animPlan.items[k]
    <3>1. k \in Nat
      BY <2>3, PlanTyped DEF IsListOf
    <3>2. CASE k = i
      BY <2>3, <2>4, <3>2
    <3>3. CASE k # i
      <4>1. animItems'[k] = animItems[k] /\ (k < i + 1 <=> k < i)
        BY <2>1, <2>3, <3>1, <3>3
      <4> QED
        BY <2>3, <4>1
    <3> QED
      BY <3>2, <3>3
  <2>6. ItemsInv'
    BY <2>1, <2>5 DEF ItemsInv, Treated, Framed, Untimed, Decided
  <2>7. PolicyInv'
    BY <2>1, <2>3 DEF PolicyInv, Registered, Selector
  <2> QED
    BY <2>1, <2>2, <2>6, <2>7 DEF AnimInv, ClaimsInv, AssignInv
<1> QED
  BY <1>1, <1>2

-----------------------------------------------------------------------------
(* The groups *)

\* Nothing that is said of a plan alone changes with the items.
LEMMA SamePlan ==
  ASSUME animPlan' = animPlan
  PROVE  /\ \A id : ItemOf(id)' = ItemOf(id) /\ (Exists(id)' <=> Exists(id))
         /\ \A n : ValidGroup(n)' <=> ValidGroup(n)
         /\ \A x : Unowned(x)' <=> Unowned(x)
         /\ \A g, k : (InGroupWindow(g, k)' <=> InGroupWindow(g, k)) /\ OffsetMS(g, k)' = OffsetMS(g, k)
         /\ \A n : MembersOf(n)' = MembersOf(n)
         /\ \A u : MemberAt(u)' = MemberAt(u)
         /\ Places' = Places /\ Everywhere' = Everywhere
<1>1. \A id : ItemOf(id)' = ItemOf(id) /\ (Exists(id)' <=> Exists(id))
  BY DEF ItemOf, Exists
<1>2. \A n : ValidGroup(n)' <=> ValidGroup(n)
  BY DEF ValidGroup
<1>3. \A x : Unowned(x)' <=> Unowned(x)
  BY DEF Unowned, Governs
<1>4. \A g, k : (InGroupWindow(g, k)' <=> InGroupWindow(g, k)) /\ OffsetMS(g, k)' = OffsetMS(g, k)
  BY DEF InGroupWindow, OffsetMS, EndOffsetMS, StaggerMS
<1>5. \A n : MembersOf(n)' = MembersOf(n)
  BY DEF MembersOf
<1>6. \A u : MemberAt(u)' = MemberAt(u)
  BY DEF MemberAt
<1>7. Places' = Places /\ Everywhere' = Everywhere
  BY DEF Places, Everywhere, MembersOf
<1> QED
  BY <1>1, <1>2, <1>3, <1>4, <1>5, <1>6, <1>7

LEMMA PlaceTyped ==
  ASSUME animPlan \in AnimationPlans
  PROVE  /\ \A u \in Places : /\ u = <<u[1], u[2]>> /\ u[1] \in DOMAIN animPlan.groups /\ u[1] \in Nat \ {0}
                              /\ u[2] \in 1 .. Len(animPlan.groups[u[1]].members) /\ u[2] \in Nat \ {0}
                              /\ Len(animPlan.groups[u[1]].members) \in Nat
         /\ \A n \in DOMAIN animPlan.groups : \A k \in MembersOf(n) : <<n, k>> \in Places
         /\ DOMAIN animPlan.groups = 1 .. Len(animPlan.groups) /\ Len(animPlan.groups) \in Nat
         /\ \A n \in DOMAIN animPlan.groups :
              MembersOf(n) = 1 .. Len(animPlan.groups[n].members) /\ Len(animPlan.groups[n].members) \in Nat
<1>1. DOMAIN animPlan.groups = 1 .. Len(animPlan.groups) /\ Len(animPlan.groups) \in Nat
  BY PlanTyped DEF IsListOf
<1>2. \A n \in DOMAIN animPlan.groups :
        MembersOf(n) = 1 .. Len(animPlan.groups[n].members) /\ Len(animPlan.groups[n].members) \in Nat
  BY PlanTyped DEF IsGroup, IsListOf, MembersOf
<1>3. \A n \in DOMAIN animPlan.groups : \A k \in MembersOf(n) : <<n, k>> \in Places
  BY DEF Places
<1>4. ASSUME NEW u \in Places
      PROVE  /\ u = <<u[1], u[2]>> /\ u[1] \in DOMAIN animPlan.groups /\ u[1] \in Nat \ {0}
             /\ u[2] \in 1 .. Len(animPlan.groups[u[1]].members) /\ u[2] \in Nat \ {0}
             /\ Len(animPlan.groups[u[1]].members) \in Nat
  <2>1. PICK n \in DOMAIN animPlan.groups : u \in {<<n, k>> : k \in MembersOf(n)}
    BY DEF Places
  <2>2. PICK k \in MembersOf(n) : u = <<n, k>>
    BY <2>1
  <2>3. n \in 1 .. Len(animPlan.groups) /\ k \in 1 .. Len(animPlan.groups[n].members) /\ u[1] = n /\ u[2] = k
    BY <1>1, <1>2, <2>2
  <2> QED
    BY <1>1, <1>2, <2>2, <2>3
<1> QED
  BY <1>1, <1>2, <1>3, <1>4

\* After the place of a member comes the next one, or the first of the next group.
LEMMA NextPlace ==
  ASSUME animPlan \in AnimationPlans, NEW at \in Places, NEW next,
         next = IF at[2] = Len(animPlan.groups[at[1]].members) THEN <<at[1] + 1, 1>> ELSE <<at[1], at[2] + 1>>
  PROVE  \A u \in Places : Earlier(u, next) <=> (Earlier(u, at) \/ u = at)
<1> TAKE u \in Places
<1> DEFINE len == Len(animPlan.groups[at[1]].members)
<1>1. /\ u = <<u[1], u[2]>> /\ u[1] \in Nat \ {0} /\ u[2] \in Nat \ {0}
      /\ at = <<at[1], at[2]>> /\ at[1] \in Nat \ {0} /\ at[2] \in 1 .. len /\ len \in Nat
      /\ u[1] = at[1] => u[2] \in 1 .. len
  BY PlaceTyped
<1> HIDE DEF len
<1>2. CASE at[2] = len
  <2>1. next[1] = at[1] + 1 /\ next[2] = 1
    BY <1>2 DEF len
  <2> QED
    BY <1>1, <1>2, <2>1 DEF Earlier
<1>3. CASE at[2] # len
  <2>1. next[1] = at[1] /\ next[2] = at[2] + 1
    BY <1>3 DEF len
  <2> QED
    BY <1>1, <1>3, <2>1 DEF Earlier
<1> QED
  BY <1>2, <1>3

LEMMA NothingEarlier ==
  ASSUME animPlan \in AnimationPlans
  PROVE  \A u \in Places : ~Earlier(u, <<1, 1>>)
<1> TAKE u \in Places
<1>1. u[1] \in Nat \ {0} /\ u[2] \in Nat \ {0}
  BY PlaceTyped
<1> QED
  BY <1>1 DEF Earlier

LEMMA ItemsExpandedKeeps ==
  ASSUME AnimInv, ItemsExpanded
  PROVE  AnimInv'
<1>1. /\ owning = "items" /\ step[1] \notin DOMAIN animItems /\ owning' = "groups" /\ step' = <<1, 1>>
      /\ UNCHANGED <<animPlan, draw, rules, animItems, itemOwner, roleOwner, assignments>>
  BY DEF ItemsExpanded, EndOf
<1>2. AnimTyped'
  BY <1>1, StepTyped DEF AnimInv, AnimTyped
<1>3. /\ animPlan \in AnimationPlans /\ DOMAIN animItems = DOMAIN animPlan.items /\ step[1] \in Nat \ {0}
      /\ assignments = <<>> /\ itemOwner = <<>>
      /\ \A k \in DOMAIN animPlan.items :
           IF k < step[1] THEN Treated(animItems[k], animPlan.items[k]) ELSE animItems[k] = animPlan.items[k]
  BY <1>1, StepTyped DEF AnimInv, AnimTyped, ItemsInv
<1>4. DOMAIN animPlan.items = 1 .. Len(animPlan.items) /\ Len(animPlan.items) \in Nat
  BY <1>3, PlanTyped DEF IsListOf
<1>5. \A k \in DOMAIN animPlan.items : Treated(animItems[k], animPlan.items[k])
  <2>1. \A k \in DOMAIN animPlan.items : k < step[1]
    BY <1>1, <1>3, <1>4
  <2> QED
    BY <1>3, <2>1
<1>6. ItemsInv'
  BY <1>1, <1>5 DEF ItemsInv, Treated, Framed, Untimed, Decided
<1>7. ClaimsTo(<<1, 1>>)'
  <2>1. Places' = Places /\ \A u \in Places : ~Earlier(u, <<1, 1>>)
    BY <1>1, <1>3, SamePlan, NothingEarlier
  <2>2. assignments' = <<>> /\ DOMAIN assignments' = {}
    BY <1>1, <1>3
  <2>3. assignments' \in Seq({AssignmentAt(u) : u \in Places})'
    BY <2>2, EmptySeq
  <2>4. <<>> \in [DOMAIN assignments -> Places]' /\ Follow(<<>>, <<1, 1>>)'
    BY <2>1, <2>2 DEF Follow
  <2> QED
    BY <2>1, <2>3, <2>4 DEF ClaimsTo
<1>8. ClaimsInv'
  BY <1>1, <1>7 DEF ClaimsInv
<1> QED
  BY <1>1, <1>2, <1>6, <1>8 DEF AnimInv, PolicyInv, AssignInv

LEMMA SameAssignments ==
  ASSUME animPlan' = animPlan, draw' = draw
  PROVE  \A u : AssignmentAt(u)' = AssignmentAt(u)
<1>1. \A g, role : DrawnFor(g, role)' = DrawnFor(g, role)
  BY DEF DrawnFor
<1>2. \A g, m : MemberMotion(g, m)' = MemberMotion(g, m)
  BY <1>1 DEF MemberMotion
<1>3. \A g, k : Assignment(g, k)' = Assignment(g, k)
  BY <1>2 DEF Assignment, OffsetMS, EndOffsetMS, StaggerMS
<1> QED
  BY <1>3 DEF AssignmentAt

\* The claims stand as long as the plan, the draw and what was claimed do.
LEMMA ClaimsStay ==
  ASSUME animPlan' = animPlan, draw' = draw, UNCHANGED <<itemOwner, assignments>>, NEW at, ClaimsTo(at)
  PROVE  ClaimsTo(at)'
<1>1. Places' = Places
  BY SamePlan
<1>2. \A u : AssignmentAt(u)' = AssignmentAt(u)
  BY SameAssignments
<1>3. \A u : Claimed(u)' <=> Claimed(u)
  BY SamePlan DEF Claimed, MotionOfMember
<1>4. assignments' \in Seq({AssignmentAt(u) : u \in Places})'
  <2>1. {AssignmentAt(u) : u \in Places}' = {AssignmentAt(u) : u \in Places}
    BY <1>1, <1>2
  <2> QED
    BY <2>1 DEF ClaimsTo
<1>5. \A f : Follow(f, at)' <=> Follow(f, at)
  BY <1>1, <1>2 DEF Follow
<1> QED
  BY <1>1, <1>3, <1>4, <1>5 DEF ClaimsTo

LEMMA AllClaimsStay ==
  ASSUME animPlan' = animPlan, draw' = draw, UNCHANGED <<itemOwner, assignments>>, ClaimsTo(Everywhere)
  PROVE  ClaimsTo(Everywhere)'
<1>1. PICK at : at = Everywhere
  OBVIOUS
<1>2. ClaimsTo(at)
  BY <1>1
<1>3. ClaimsTo(at)'
  BY <1>2, ClaimsStay
<1>4. Everywhere' = at
  BY <1>1, SamePlan
<1> QED
  BY <1>3, <1>4 DEF ClaimsTo, Follow

\* What a group asks of a member leaves its item without an owner.
LEMMA MemberUnowned ==
  ASSUME animPlan \in AnimationPlans, NEW i \in DOMAIN animPlan.items, NEW role \in Roles,
         Treated(animItems[i], animPlan.items[i]), RoleCompatible(animItems[i], role), HasNoOwner(animItems[i])
  PROVE  Unowned(animPlan.items[i])
<1> DEFINE it == animItems[i]
           source == animPlan.items[i]
<1>1. it.children = <<>> /\ it.motion = NoMotion /\ it.captionMotion = NoMotion
  BY DEF RoleCompatible, HasNoOwner, Roles
<1>2. DOMAIN source.children = {}
  BY <1>1 DEF Treated, Framed
<1>3. source.motion = NoMotion /\ source.captionMotion = NoMotion
  BY <1>1 DEF Treated, Decided
<1>4. \A k \in DOMAIN animPlan.policies : ~Governs(animPlan.policies[k], source)
  BY <1>1 DEF Treated, Decided, Governs
<1> QED
  BY <1>2, <1>3, <1>4 DEF Unowned

LEMMA ResolveKeeps ==
  ASSUME AnimInv, ResolveMember
  PROVE  AnimInv'
<1> DEFINE g == animPlan.groups[step[1]]
           k == step[2]
           m == g.members[k]
<1>0. owning = "groups" /\ step[1] \in DOMAIN animPlan.groups
  BY DEF ResolveMember
<1>1. CASE ~(ValidGroup(step[1]) /\ ValidMember(g, k))
  BY <1>0, <1>1, RefuseKeeps DEF ResolveMember
<1>2. CASE ValidGroup(step[1]) /\ ValidMember(g, k)
  <2>1. /\ assignments' = Append(assignments, Assignment(g, k))
        /\ itemOwner' = [i \in DOMAIN itemOwner \cup {m.item} |-> IF i = m.item THEN g.id ELSE itemOwner[i]]
        /\ step' = IF k = Len(g.members) THEN <<step[1] + 1, 1>> ELSE <<step[1], k + 1>>
        /\ UNCHANGED <<owning, animPlan, draw, rules, animItems>>
    BY <1>2 DEF ResolveMember
  <2>2. AnimTyped'
    BY <1>0, <2>1, StepTyped DEF AnimInv, AnimTyped
  <2>3. /\ animPlan \in AnimationPlans /\ step \in (Nat \ {0}) \X (Nat \ {0})
        /\ \A i \in DOMAIN animPlan.items : Treated(animItems[i], animPlan.items[i])
        /\ ClaimsTo(step)
        /\ (k \in 1 .. Len(g.members) \/ k = 1)
    BY <1>0 DEF AnimInv, AnimTyped, ItemsInv, ClaimsInv
  <2>4. step \in Places /\ k \in 1 .. Len(g.members) /\ Len(g.members) \in Nat /\ step[1] \in Nat
        /\ step = <<step[1], step[2]>>
    <3>1. Len(g.members) \in MinimumMembers .. MaximumMembers
      BY <1>2 DEF ValidGroup
    <3>2. Len(g.members) \in Nat /\ k \in 1 .. Len(g.members) /\ step = <<step[1], step[2]>> /\ step[1] \in Nat
      <4>1. Len(g.members) \in 2 .. 8
        BY <3>1 DEF MinimumMembers, MaximumMembers
      <4>2. step = <<step[1], step[2]>> /\ step[1] \in Nat
        BY <2>3
      <4> DEFINE len == Len(g.members)
      <4> HIDE DEF len, k
      <4>3. len \in 2 .. 8 /\ (k \in 1 .. len \/ k = 1)
        BY <2>3, <4>1 DEF len
      <4>4. len \in Nat /\ k \in 1 .. len
        BY <4>3
      <4> QED
        BY <4>2, <4>4 DEF len
    <3>3. MembersOf(step[1]) = 1 .. Len(g.members)
      BY <1>0, <2>3, PlaceTyped
    <3>4. <<step[1], step[2]>> \in Places
      BY <1>0, <2>3, <3>2, <3>3, PlaceTyped
    <3> QED
      BY <3>2, <3>4
  <2>5. \A u \in Places : Earlier(u, step') <=> (Earlier(u, step) \/ u = step)
    BY <2>1, <2>3, <2>4, NextPlace
  <2>6. Places' = Places /\ \A u : AssignmentAt(u)' = AssignmentAt(u) /\ MemberAt(u)' = MemberAt(u)
    BY <2>1, SamePlan, SameAssignments
  <2> DEFINE All == {AssignmentAt(u) : u \in Places}
             len == Len(assignments)
  <2>7. assignments \in Seq(All) /\ Assignment(g, k) = AssignmentAt(step) /\ AssignmentAt(step) \in All
    BY <2>3, <2>4 DEF ClaimsTo, AssignmentAt
  <2>8. /\ assignments' \in Seq(All) /\ len \in Nat /\ DOMAIN assignments = 1 .. len /\ DOMAIN assignments' = 1 .. len + 1
        /\ \A p \in 1 .. len : assignments'[p] = assignments[p]
        /\ assignments'[len + 1] = AssignmentAt(step)
    <3> HIDE DEF All
    <3> QED
      BY <2>1, <2>7
  <2>9. PICK f \in [DOMAIN assignments -> Places] : Follow(f, step)
    BY <2>3 DEF ClaimsTo
  <2>10. PICK more \in [1 .. len + 1 -> Places] :
           more[len + 1] = step /\ \A p \in 1 .. len : more[p] = f[p] /\ f[p] \in Places
    <3> DEFINE longer == [p \in 1 .. len + 1 |-> IF p = len + 1 THEN step ELSE f[p]]
    <3>1. \A p \in 1 .. len : p \in 1 .. len + 1 /\ p # len + 1 /\ f[p] \in Places
      BY <2>8, <2>9
    <3>2. len + 1 \in 1 .. len + 1
      BY <2>8
    <3>3. longer \in [1 .. len + 1 -> Places]
      BY <2>4, <2>8, <2>9
    <3>4. longer[len + 1] = step /\ \A p \in 1 .. len : longer[p] = f[p] /\ f[p] \in Places
      BY <3>1, <3>2
    <3> HIDE DEF longer
    <3> QED
      BY <3>3, <3>4
  <2> HIDE DEF All, len
  <2>11. \A p \in 1 .. len + 1 : p \in 1 .. len \/ p = len + 1
    BY <2>8
  
  <2>12. \A p \in 1 .. len + 1 : assignments'[p] = AssignmentAt(more[p]) /\ Earlier(more[p], step')
    <3> TAKE p \in 1 .. len + 1
    <3>1. CASE p = len + 1
      BY <2>4, <2>5, <2>8, <2>10, <3>1
    <3>2. CASE p \in 1 .. len
      BY <2>5, <2>8, <2>9, <2>10, <3>2 DEF Follow
    <3> QED
      BY <2>11, <3>1, <3>2
  <2>13. \A p, q \in 1 .. len + 1 : p < q => Earlier(more[p], more[q])
    <3> SUFFICES ASSUME NEW p \in 1 .. len + 1, NEW q \in 1 .. len + 1, p < q
                 PROVE  Earlier(more[p], more[q])
      OBVIOUS
    <3>1. p \in 1 .. len
      BY <2>8
    <3>2. CASE q = len + 1
      BY <2>8, <2>9, <2>10, <3>1, <3>2 DEF Follow
    <3>3. CASE q \in 1 .. len
      BY <2>8, <2>9, <2>10, <3>1, <3>3 DEF Follow
    <3> QED
      BY <2>11, <3>2, <3>3
  <2>14. \A u \in Places : Earlier(u, step') => \E p \in 1 .. len + 1 : more[p] = u
    <3> SUFFICES ASSUME NEW u \in Places, Earlier(u, step')
                 PROVE  \E p \in 1 .. len + 1 : more[p] = u
      OBVIOUS
    <3>1. len + 1 \in 1 .. len + 1 /\ 1 .. len \subseteq 1 .. len + 1
      BY <2>8
    <3>2. CASE u = step
      BY <2>10, <3>1, <3>2
    <3>3. CASE Earlier(u, step)
      BY <2>8, <2>9, <2>10, <3>1, <3>3 DEF Follow
    <3> QED
      BY <2>5, <3>2, <3>3
  <2>15. Follow(more, step)'
    BY <2>6, <2>8, <2>10, <2>12, <2>13, <2>14 DEF Follow
  <2>16. \A u \in Places : Earlier(u, step) \/ u = step => Claimed(u)'
    <3> SUFFICES ASSUME NEW u \in Places, Earlier(u, step) \/ u = step
                 PROVE  Claimed(u)'
      OBVIOUS
    <3> DEFINE item == MemberAt(u).item
    <3>1. CanClaim(g, m)
      BY <1>2 DEF ValidMember
    <3>2. CASE Earlier(u, step)
      <4>1. Claimed(u)
        BY <2>3, <3>2 DEF ClaimsTo
      <4>2. item \in DOMAIN itemOwner /\ itemOwner[item] = animPlan.groups[u[1]].id
        BY <4>1 DEF Claimed
      <4>3. item \in DOMAIN itemOwner' /\ itemOwner'[item] = animPlan.groups[u[1]].id
        <5> HIDE DEF item, g, m
        <5> QED
          BY <2>1, <3>1, <4>2 DEF CanClaim
      <4> QED
        BY <2>1, <4>1, <4>3, SamePlan DEF Claimed, MotionOfMember
    <3>3. CASE u = step
      <4>1. MemberAt(u) = m /\ animPlan.groups[u[1]] = g
        BY <3>3 DEF MemberAt
      <4>2. m.item \in DOMAIN itemOwner' /\ itemOwner'[m.item] = g.id
        <5> HIDE DEF g, m
        <5> QED
          BY <2>1
      <4>3. m.role \in Roles /\ Exists(m.item) /\ MotionOfMember(m) /\ InGroupWindow(g, k)
        BY <1>2 DEF ValidMember
      <4>4. RoleCompatible(animItems[ItemOf(m.item)], m.role) /\ HasNoOwner(animItems[ItemOf(m.item)])
        BY <1>2 DEF ValidMember
      <4>5. Unowned(animPlan.items[ItemOf(m.item)])
        <5> HIDE DEF g, m
        <5>1. ItemOf(m.item) \in DOMAIN animPlan.items
          BY <2>3, <4>3, NamedItem
        <5> QED
          BY <2>3, <4>3, <4>4, <5>1, MemberUnowned
      <4> HIDE DEF g, m
      <4>6. u[1] = step[1] /\ u[2] = k
        BY <3>3
      <4> QED
        BY <1>2, <2>1, <4>1, <4>2, <4>3, <4>5, <4>6, SamePlan DEF Claimed, MotionOfMember
    <3> QED
      BY <3>2, <3>3
  <2>17. ClaimsTo(step)'
    <3>1. assignments' \in Seq({AssignmentAt(u) : u \in Places})'
      <4>1. {AssignmentAt(u) : u \in Places}' = All
        BY <2>6 DEF All
      <4> QED
        BY <2>8, <4>1
    <3>2. \A u \in Places : Earlier(u, step') => Claimed(u)'
      BY <2>5, <2>16
    <3> QED
      BY <2>6, <2>8, <2>10, <2>15, <3>1, <3>2 DEF ClaimsTo
  <2>18. step'[1] \in DOMAIN animPlan.groups => step'[2] \in 1 .. Len(animPlan.groups[step'[1]].members) \/ step'[2] = 1
    <3>1. CASE k = Len(g.members)
      BY <2>1, <3>1
    <3>2. CASE k # Len(g.members)
      <4>1. step'[1] = step[1] /\ step'[2] = k + 1
        BY <2>1, <3>2
      <4>2. k + 1 \in 1 .. Len(g.members)
        <5> DEFINE len2 == Len(g.members)
        <5>1. len2 \in Nat /\ k \in 1 .. len2 /\ k # len2
          BY <2>4, <3>2
        <5> HIDE DEF len2, k
        <5>2. k + 1 \in 1 .. len2
          BY <5>1
        <5> QED
          BY <5>2 DEF len2
      <4> QED
        BY <4>1, <4>2
    <3> QED
      BY <3>1, <3>2
  <2>19. ClaimsInv'
    BY <1>0, <2>1, <2>17, <2>18 DEF ClaimsInv
  <2>20. ItemsInv'
    <3>1. \A i \in DOMAIN animPlan.items : Treated(animItems[i], animPlan.items[i])
      BY <2>3
    <3>2. owning' = "groups" /\ animPlan' = animPlan /\ animItems' = animItems
      BY <1>0, <2>1
    <3> QED
      BY <3>1, <3>2 DEF ItemsInv, Treated, Framed, Untimed, Decided, Governs
  <2> QED
    BY <1>0, <2>1, <2>2, <2>19, <2>20 DEF AnimInv, PolicyInv, AssignInv
<1> QED
  BY <1>1, <1>2

\* Every member is before the end.
LEMMA AllEarlier ==
  ASSUME animPlan \in AnimationPlans
  PROVE  \A u \in Places : Earlier(u, Everywhere)
<1> TAKE u \in Places
<1>1. Len(animPlan.groups) \in Nat /\ u[1] \in 1 .. Len(animPlan.groups)
  BY PlaceTyped
<1>2. u[1] < Everywhere[1]
  BY <1>1 DEF Everywhere
<1> QED
  BY <1>2 DEF Earlier

\* Every assignment is that of a member that was claimed, and names an item.
LEMMA AssignmentNames ==
  ASSUME animPlan \in AnimationPlans, ClaimsTo(Everywhere), NEW u \in Places
  PROVE  /\ Claimed(u) /\ AssignmentAt(u).item = MemberAt(u).item
         /\ ItemOf(MemberAt(u).item) \in DOMAIN animPlan.items
         /\ animPlan.items[ItemOf(MemberAt(u).item)].id = MemberAt(u).item
         /\ Unowned(animPlan.items[ItemOf(MemberAt(u).item)])
<1>1. Claimed(u)
  BY AllEarlier DEF ClaimsTo
<1>2. AssignmentAt(u).item = MemberAt(u).item
  BY DEF AssignmentAt, Assignment, MemberAt
<1>3. Exists(MemberAt(u).item) /\ Unowned(animPlan.items[ItemOf(MemberAt(u).item)])
  BY <1>1 DEF Claimed
<1> QED
  BY <1>1, <1>2, <1>3, NamedItem

LEMMA AssignmentsTyped ==
  ASSUME animPlan \in AnimationPlans, ClaimsTo(Everywhere)
  PROVE  /\ Len(assignments) \in Nat /\ DOMAIN assignments = 1 .. Len(assignments)
         /\ \A p \in 1 .. Len(assignments) : \E u \in Places : assignments[p] = AssignmentAt(u)
<1> DEFINE All == {AssignmentAt(u) : u \in Places}
<1>1. assignments \in Seq(All)
  BY DEF ClaimsTo
<1>2. \A p \in 1 .. Len(assignments) : assignments[p] \in All
  <2> HIDE DEF All
  <2> QED
    BY <1>1
<1>3. Len(assignments) \in Nat /\ DOMAIN assignments = 1 .. Len(assignments)
  <2> HIDE DEF All
  <2> QED
    BY <1>1
<1> QED
  BY <1>2, <1>3

LEMMA GroupsResolvedKeeps ==
  ASSUME AnimInv, GroupsResolved
  PROVE  AnimInv'
<1>1. /\ owning = "groups" /\ step[1] \notin DOMAIN animPlan.groups /\ owning' = "assign" /\ step' = <<1, 1>>
      /\ UNCHANGED <<animPlan, draw, rules, animItems, itemOwner, roleOwner, assignments>>
  BY DEF GroupsResolved, EndOf
<1>2. AnimTyped'
  BY <1>1, StepTyped DEF AnimInv, AnimTyped
<1>3. /\ animPlan \in AnimationPlans /\ step[1] \in Nat \ {0} /\ ClaimsTo(step)
      /\ \A i \in DOMAIN animPlan.items : Treated(animItems[i], animPlan.items[i])
  BY <1>1, StepTyped DEF AnimInv, AnimTyped, ItemsInv, ClaimsInv
<1>4. \A u \in Places : Earlier(u, step) /\ Earlier(u, Everywhere)
  <2> TAKE u \in Places
  <2>1. /\ DOMAIN animPlan.groups = 1 .. Len(animPlan.groups) /\ Len(animPlan.groups) \in Nat
        /\ u[1] \in 1 .. Len(animPlan.groups)
    BY <1>3, PlaceTyped
  <2>2. u[1] < step[1]
    BY <1>1, <1>3, <2>1
  <2> QED
    BY <1>3, <2>2, AllEarlier DEF Earlier
<1>5. ClaimsTo(Everywhere)
  <2>1. PICK f \in [DOMAIN assignments -> Places] : Follow(f, step)
    BY <1>3 DEF ClaimsTo
  <2>2. Follow(f, Everywhere)
    <3>1. \A p \in DOMAIN assignments : Earlier(f[p], Everywhere)
      BY <1>4, <2>1
    <3> QED
      BY <1>4, <2>1, <3>1 DEF Follow
  <2> QED
    BY <1>3, <1>4, <2>1, <2>2 DEF ClaimsTo
<1>6. ClaimsTo(Everywhere)'
  BY <1>1, <1>5, AllClaimsStay
<1>7. Len(assignments) \in Nat
  BY <1>3 DEF ClaimsTo
<1>8. Applied(0)
  BY <1>3 DEF Applied, Treated
<1>9. Applied(0)' /\ step'[1] - 1 = 0
  BY <1>1, <1>8 DEF Applied, Framed, Untimed, Decided, Governs, ItemOf
<1>10. AssignInv'
  BY <1>1, <1>7, <1>9 DEF AssignInv
<1> QED
  BY <1>1, <1>2, <1>6, <1>10 DEF AnimInv, PolicyInv, ItemsInv, ClaimsInv

\* What an assignment does to an item.
LEMMA AssignmentApplied ==
  ASSUME NEW it, DOMAIN it = ItemFields, NEW a, NEW new, new = ApplyAssignment(it, a)
  PROVE  /\ new.start = a.start /\ new.end = a.end /\ new.durUS = Unset /\ DOMAIN new = ItemFields
         /\ \A f \in ItemFields \ {"start", "end", "startUS", "durUS", "motion", "captionMotion"} : new[f] = it[f]
         /\ new.motion = (IF OfCaption(a) THEN it.motion ELSE a.motion)
         /\ new.captionMotion = (IF OfCaption(a) THEN a.motion ELSE it.captionMotion)
<1> DEFINE timed == [it EXCEPT !.start = a.start, !.end = a.end, !.startUS = Unset, !.durUS = Unset]
<1>1. /\ timed.start = a.start /\ timed.end = a.end /\ timed.durUS = Unset /\ DOMAIN timed = ItemFields
      /\ \A f \in ItemFields \ {"start", "end", "startUS", "durUS"} : timed[f] = it[f]
  BY DEF ItemFields
<1>2. timed.motion = it.motion /\ timed.captionMotion = it.captionMotion
  BY <1>1 DEF ItemFields
<1>3. CASE OfCaption(a)
  <2>1. new = [timed EXCEPT !.captionMotion = a.motion]
    BY <1>3 DEF ApplyAssignment, OfCaption
  <2> HIDE DEF timed
  <2>2. DOMAIN new = ItemFields /\ new.captionMotion = a.motion /\ \A f \in ItemFields \ {"captionMotion"} : new[f] = timed[f]
    BY <1>1, <2>1 DEF ItemFields
  <2>3. new.start = timed.start /\ new.end = timed.end /\ new.durUS = timed.durUS /\ new.motion = timed.motion
    BY <2>2 DEF ItemFields
  <2> QED
    BY <1>1, <1>2, <1>3, <2>2, <2>3
<1>4. CASE ~OfCaption(a)
  <2>1. new = [timed EXCEPT !.motion = a.motion]
    BY <1>4 DEF ApplyAssignment, OfCaption
  <2> HIDE DEF timed
  <2>2. DOMAIN new = ItemFields /\ new.motion = a.motion /\ \A f \in ItemFields \ {"motion"} : new[f] = timed[f]
    BY <1>1, <2>1 DEF ItemFields
  <2>3. new.start = timed.start /\ new.end = timed.end /\ new.durUS = timed.durUS /\ new.captionMotion = timed.captionMotion
    BY <2>2 DEF ItemFields
  <2> QED
    BY <1>1, <1>2, <1>4, <2>2, <2>3
<1> QED
  BY <1>3, <1>4

LEMMA AssignKeeps ==
  ASSUME AnimInv, AssignMember
  PROVE  AnimInv'
<1> DEFINE s == step[1]
           d == step[1] - 1
           a == assignments[s]
           i == ItemOf(a.item)
<1>1. /\ owning = "assign" /\ s \in DOMAIN assignments
      /\ animItems' = [animItems EXCEPT ![i] = ApplyAssignment(animItems[i], a)]
      /\ step' = <<s + 1, 1>>
      /\ UNCHANGED <<owning, animPlan, draw, rules, itemOwner, roleOwner, assignments>>
  BY DEF AssignMember
<1>2. AnimTyped'
  BY <1>1, StepTyped DEF AnimInv, AnimTyped
<1>3. /\ animPlan \in AnimationPlans /\ DOMAIN animItems = DOMAIN animPlan.items /\ s \in Nat \ {0}
      /\ ClaimsTo(Everywhere) /\ Applied(d)
  BY <1>1, StepTyped DEF AnimInv, AnimTyped, ClaimsInv, AssignInv
<1>4. Len(assignments) \in Nat /\ s \in 1 .. Len(assignments) /\ s \in Nat /\ d \in Nat /\ d + 1 = s /\ DOMAIN assignments = 1 .. Len(assignments)
  BY <1>1, <1>3, AssignmentsTyped
<1>5. \A p \in 1 .. Len(assignments) : ItemOf(assignments[p].item) \in DOMAIN animPlan.items
        /\ animPlan.items[ItemOf(assignments[p].item)].id = assignments[p].item
        /\ Unowned(animPlan.items[ItemOf(assignments[p].item)])
  <2> TAKE p \in 1 .. Len(assignments)
  <2>1. PICK u \in Places : assignments[p] = AssignmentAt(u)
    BY <1>3, AssignmentsTyped
  <2>2. assignments[p].item = MemberAt(u).item
    BY <1>3, <2>1, AssignmentNames
  <2> QED
    BY <1>3, <2>2, AssignmentNames
<1>6. i \in DOMAIN animPlan.items /\ Unowned(animPlan.items[i])
  BY <1>4, <1>5
<1> HIDE DEF s, d, a, i
<1>7. Framed(animItems[i], animPlan.items[i]) /\ DOMAIN animItems[i] = ItemFields
  BY <1>3, <1>6 DEF Applied, Framed
<1>8. animItems'[i] = ApplyAssignment(animItems[i], a) /\ \A j \in DOMAIN animPlan.items : j # i => animItems'[j] = animItems[j]
  BY <1>1, <1>3, <1>6
<1> DEFINE new == animItems'[i]
<1>9. /\ new.start = a.start /\ new.end = a.end /\ new.durUS = Unset /\ DOMAIN new = ItemFields
      /\ \A f \in ItemFields \ {"start", "end", "startUS", "durUS", "motion", "captionMotion"} : new[f] = animItems[i][f]
      /\ new.motion = (IF OfCaption(a) THEN animItems[i].motion ELSE a.motion)
      /\ new.captionMotion = (IF OfCaption(a) THEN a.motion ELSE animItems[i].captionMotion)
  BY <1>7, <1>8, AssignmentApplied
<1> HIDE DEF new
<1>10. Framed(new, animPlan.items[i])
  BY <1>7, <1>9 DEF Framed, ItemFields
<1>11. Decided(new, animPlan.items[i])
  BY <1>6, <1>10 DEF Decided, Unowned, Framed
<1>12. \A j \in DOMAIN animPlan.items :
         /\ Framed(animItems'[j], animPlan.items[j]) /\ Decided(animItems'[j], animPlan.items[j])
         /\ (\A p \in 1 .. s : ItemOf(assignments[p].item) # j) => Untimed(animItems'[j], animPlan.items[j])
  <2> TAKE j \in DOMAIN animPlan.items
  <2>1. CASE j = i
    <3>1. s \in 1 .. s /\ ItemOf(assignments[s].item) = i
      BY <1>3 DEF i, a
    <3> QED
      BY <1>10, <1>11, <2>1, <3>1 DEF new
  <2>2. CASE j # i
    <3>1. 1 .. d \subseteq 1 .. s
      BY <1>4
    <3> QED
      BY <1>3, <1>8, <2>2, <3>1 DEF Applied
  <2> QED
    BY <2>1, <2>2
<1>13. \A p \in 1 .. s : p \in 1 .. Len(assignments) /\ (p \in 1 .. d \/ p = s) /\ s \in p .. s /\ p .. d \subseteq p .. s
  BY <1>4
<1>14. \A p \in 1 .. s : ItemOf(assignments[p].item) = i <=> assignments[p].item = a.item
  <2> TAKE p \in 1 .. s
  <2>1. ItemOf(assignments[p].item) = i => assignments[p].item = a.item
    BY <1>4, <1>5, <1>13 DEF a, i
  <2> QED
    BY <2>1 DEF i
<1>15. \A p \in 1 .. s : \E q \in p .. s :
         LET it == animItems'[ItemOf(assignments[p].item)] IN
           /\ assignments[q].item = assignments[p].item
           /\ it.start = assignments[q].start /\ it.end = assignments[q].end /\ it.durUS = Unset
  <2> TAKE p \in 1 .. s
  <2>1. CASE ItemOf(assignments[p].item) = i
    <3>1. s \in p .. s
      BY <1>13
    <3>2. LET it == animItems'[ItemOf(assignments[p].item)] IN
            /\ assignments[s].item = assignments[p].item
            /\ it.start = assignments[s].start /\ it.end = assignments[s].end /\ it.durUS = Unset
      BY <1>9, <1>14, <2>1 DEF new, a
    <3> QED
      BY <3>1, <3>2
  <2>2. CASE ItemOf(assignments[p].item) # i
    <3>1. p \in 1 .. d /\ animItems'[ItemOf(assignments[p].item)] = animItems[ItemOf(assignments[p].item)]
      BY <1>5, <1>8, <1>13, <2>2 DEF i, a
    <3>2. PICK q \in p .. d :
            LET it == animItems[ItemOf(assignments[p].item)] IN
              /\ assignments[q].item = assignments[p].item
              /\ it.start = assignments[q].start /\ it.end = assignments[q].end /\ it.durUS = Unset
      BY <1>3, <3>1 DEF Applied
    <3> QED
      BY <1>13, <3>1, <3>2
  <2> QED
    BY <2>1, <2>2
<1>16. \A p \in 1 .. s : \E q \in p .. s :
         /\ assignments[q].item = assignments[p].item /\ (OfCaption(assignments[q]) <=> OfCaption(assignments[p]))
         /\ MotionOf(animItems'[ItemOf(assignments[p].item)], assignments[p]) = assignments[q].motion
  <2> TAKE p \in 1 .. s
  <2>1. CASE ItemOf(assignments[p].item) = i /\ (OfCaption(a) <=> OfCaption(assignments[p]))
    <3>1. s \in p .. s
      BY <1>13
    <3>2. MotionOf(new, assignments[p]) = a.motion
      BY <1>9, <2>1 DEF MotionOf
    <3>3. assignments[s].item = assignments[p].item /\ (OfCaption(assignments[s]) <=> OfCaption(assignments[p]))
      BY <1>14, <2>1 DEF a
    <3>4. MotionOf(animItems'[ItemOf(assignments[p].item)], assignments[p]) = assignments[s].motion
      BY <2>1, <3>2 DEF new, a
    <3> QED
      BY <3>1, <3>3, <3>4
  <2>2. CASE ~(ItemOf(assignments[p].item) = i /\ (OfCaption(a) <=> OfCaption(assignments[p])))
    <3>1. p \in 1 .. d
      BY <1>13, <2>2 DEF i, a
    <3>2. MotionOf(animItems'[ItemOf(assignments[p].item)], assignments[p]) = MotionOf(animItems[ItemOf(assignments[p].item)], assignments[p])
      <4>1. CASE ItemOf(assignments[p].item) = i
        BY <1>9, <2>2, <4>1 DEF MotionOf, new
      <4>2. CASE ItemOf(assignments[p].item) # i
        BY <1>5, <1>8, <1>13, <4>2
      <4> QED
        BY <4>1, <4>2
    <3>3. PICK q \in p .. d :
            /\ assignments[q].item = assignments[p].item /\ (OfCaption(assignments[q]) <=> OfCaption(assignments[p]))
            /\ MotionOf(animItems[ItemOf(assignments[p].item)], assignments[p]) = assignments[q].motion
      BY <1>3, <3>1 DEF Applied
    <3> QED
      BY <1>13, <3>2, <3>3
  <2> QED
    BY <2>1, <2>2
<1>17. Applied(step[1] - 1)'
  <2>1. step'[1] - 1 = s
    BY <1>1, <1>3
  <2>2. \A id : ItemOf(id)' = ItemOf(id)
    BY <1>1, SamePlan
  <2> QED
    BY <1>1, <1>12, <1>15, <1>16, <2>1, <2>2 DEF Applied, Framed, Untimed, Decided, Governs, MotionOf, OfCaption
<1>18. AssignInv'
  <2>1. step'[1] - 1 <= Len(assignments)
    BY <1>1, <1>4
  <2> QED
    BY <1>1, <1>17, <2>1 DEF AssignInv
<1>19. ClaimsTo(Everywhere)'
  BY <1>1, <1>3, AllClaimsStay
<1> QED
  BY <1>1, <1>2, <1>18, <1>19 DEF AnimInv, PolicyInv, ItemsInv, ClaimsInv

\* What was assigned stays as long as the plan, the items and the assignments do.
LEMMA AppliedStays ==
  ASSUME UNCHANGED <<animPlan, animItems, assignments>>
  PROVE  \A d : Applied(d) <=> Applied(d)'
<1>1. \A id : ItemOf(id)' = ItemOf(id)
  BY SamePlan
<1> QED
  BY <1>1 DEF Applied, Framed, Untimed, Decided, Governs, MotionOf, OfCaption

LEMMA AllAppliedStays ==
  ASSUME UNCHANGED <<animPlan, animItems, assignments>>, Applied(Len(assignments))
  PROVE  Applied(Len(assignments))'
<1>1. PICK d : d = Len(assignments)
  OBVIOUS
<1>2. Applied(d)'
  BY <1>1, AppliedStays
<1>3. Len(assignments)' = d
  BY <1>1
<1> QED
  BY <1>2, <1>3 DEF Applied

LEMMA MembersAssignedKeeps ==
  ASSUME AnimInv, MembersAssigned
  PROVE  AnimInv'
<1>1. /\ owning = "assign" /\ step[1] \notin DOMAIN assignments /\ owning' = "retirement" /\ step' = <<1, 1>>
      /\ UNCHANGED <<animPlan, draw, rules, animItems, itemOwner, roleOwner, assignments>>
  BY DEF MembersAssigned, EndOf
<1>2. AnimTyped'
  BY <1>1, StepTyped DEF AnimInv, AnimTyped
<1>3. /\ animPlan \in AnimationPlans /\ ClaimsTo(Everywhere) /\ Applied(step[1] - 1) /\ step[1] \in Nat \ {0}
      /\ step[1] - 1 <= Len(assignments)
  BY <1>1, StepTyped DEF AnimInv, AnimTyped, ClaimsInv, AssignInv
<1>4. Len(assignments) \in Nat /\ step[1] - 1 = Len(assignments)
  BY <1>1, <1>3, AssignmentsTyped
<1>5. Applied(Len(assignments))
  BY <1>3, <1>4
<1>6. Applied(Len(assignments))'
  BY <1>1, <1>5, AllAppliedStays
<1>7. ClaimsTo(Everywhere)'
  BY <1>1, <1>3, AllClaimsStay
<1> QED
  BY <1>1, <1>2, <1>6, <1>7 DEF AnimInv, PolicyInv, ItemsInv, ClaimsInv, AssignInv

LEMMA RetirementKeeps ==
  ASSUME AnimInv, CheckRetirement
  PROVE  AnimInv'
<1>1. /\ owning = "retirement" /\ owning' \in {"refused", "owned"}
      /\ owning' = "owned" => ~NamesRetired(animPlan, animItems)
      /\ UNCHANGED <<animPlan, draw, rules, animItems, itemOwner, roleOwner, assignments, step>>
  BY DEF CheckRetirement
<1>2. AnimTyped'
  BY <1>1 DEF AnimInv, AnimTyped
<1>3. ClaimsTo(Everywhere) /\ Applied(Len(assignments))
  BY <1>1 DEF AnimInv, ClaimsInv, AssignInv
<1>4. Applied(Len(assignments))'
  BY <1>1, <1>3, AllAppliedStays
<1>5. ClaimsTo(Everywhere)'
  BY <1>1, <1>3, AllClaimsStay
<1>6. owning' = "owned" => ~NamesRetired(animPlan, animItems)'
  BY <1>1 DEF NamesRetired
<1> QED
  BY <1>1, <1>2, <1>4, <1>5, <1>6 DEF AnimInv, PolicyInv, ItemsInv, ClaimsInv, AssignInv

LEMMA StutterKeeps ==
  ASSUME AnimInv, UNCHANGED animVars
  PROVE  AnimInv'
<1>1. UNCHANGED <<owning, animPlan, draw, rules, animItems, itemOwner, roleOwner, assignments, step>>
  BY DEF animVars
<1>2. AnimTyped'
  BY <1>1 DEF AnimInv, AnimTyped
<1>3. PolicyInv'
  BY <1>1 DEF AnimInv, PolicyInv, Registered, Selector
<1>4. ItemsInv'
  BY <1>1 DEF AnimInv, ItemsInv, Treated, Framed, Untimed, Decided, Governs
<1>5. ClaimsInv'
  <2>1. owning = "groups" => ClaimsTo(step)'
    <3>1. PICK at : at = step
      OBVIOUS
    <3>2. ClaimsTo(at) => ClaimsTo(at)'
      BY <1>1, ClaimsStay
    <3>3. ClaimsTo(at)' => ClaimsTo(step)'
      BY <1>1, <3>1 DEF ClaimsTo, Follow
    <3> QED
      BY <3>1, <3>2, <3>3 DEF AnimInv, ClaimsInv
  <2>2. ClaimsTo(Everywhere) => ClaimsTo(Everywhere)'
    BY <1>1, AllClaimsStay
  <2> QED
    BY <1>1, <2>1, <2>2 DEF AnimInv, ClaimsInv
<1>6. AssignInv'
  <2>2. \A d : Applied(d) <=> Applied(d)'
    BY <1>1, AppliedStays
  <2>3. NamesRetired(animPlan, animItems)' <=> NamesRetired(animPlan, animItems)
    BY <1>1 DEF NamesRetired
  <2>4. Applied(Len(assignments)) => Applied(Len(assignments))'
    BY <1>1, AllAppliedStays
  <2>5. Applied(step[1] - 1) => Applied(step[1] - 1)'
    <3>1. PICK d : d = step[1] - 1
      OBVIOUS
    <3>2. Applied(d)' => Applied(step[1] - 1)'
      <4>1. (step[1] - 1)' = d
        BY <1>1, <3>1
      <4> QED
        BY <4>1 DEF Applied
    <3> QED
      BY <2>2, <3>1, <3>2
  <2> QED
    BY <1>1, <2>3, <2>4, <2>5 DEF AnimInv, AssignInv
<1> QED
  BY <1>2, <1>3, <1>4, <1>5, <1>6 DEF AnimInv

LEMMA AnimInvNext == AnimInv /\ [AnimNext]_animVars => AnimInv'
<1> SUFFICES ASSUME AnimInv, [AnimNext]_animVars
             PROVE  AnimInv'
  OBVIOUS
<1>1. CASE ReadDocument
  BY <1>1, ReadKeeps
<1>2. CASE RegisterPolicy
  BY <1>2, RegisterKeeps
<1>3. CASE PoliciesRegistered
  BY <1>3, PoliciesRegisteredKeeps
<1>4. CASE ExpandItem
  BY <1>4, ExpandKeeps
<1>5. CASE ItemsExpanded
  BY <1>5, ItemsExpandedKeeps
<1>6. CASE ResolveMember
  BY <1>6, ResolveKeeps
<1>7. CASE GroupsResolved
  BY <1>7, GroupsResolvedKeeps
<1>8. CASE AssignMember
  BY <1>8, AssignKeeps
<1>9. CASE MembersAssigned
  BY <1>9, MembersAssignedKeeps
<1>10. CASE CheckRetirement
  BY <1>10, RetirementKeeps
<1>11. CASE UNCHANGED animVars
  BY <1>11, StutterKeeps
<1> QED
  BY <1>1, <1>2, <1>3, <1>4, <1>5, <1>6, <1>7, <1>8, <1>9, <1>10, <1>11 DEF AnimNext

-----------------------------------------------------------------------------
(* What the invariant says of an accepted plan *)

\* Two members of one item are in one group.
LEMMA OneGroup ==
  ASSUME animPlan \in AnimationPlans, NEW u \in Places, NEW v \in Places, Claimed(u), Claimed(v),
         MemberAt(u).item = MemberAt(v).item
  PROVE  u[1] = v[1]
<1>1. animPlan.groups[u[1]].id = animPlan.groups[v[1]].id
  BY DEF Claimed
<1>2. u[1] \in Nat \ {0} /\ v[1] \in Nat \ {0}
  BY PlaceTyped
<1>3. ASSUME u[1] < v[1] PROVE FALSE
  <2>1. u[1] \in 1 .. v[1] - 1
    BY <1>2, <1>3
  <2> QED
    BY <1>1, <2>1 DEF Claimed, ValidGroup
<1>4. ASSUME v[1] < u[1] PROVE FALSE
  <2>1. v[1] \in 1 .. u[1] - 1
    BY <1>2, <1>4
  <2> QED
    BY <1>1, <2>1 DEF Claimed, ValidGroup
<1> QED
  BY <1>2, <1>3, <1>4

\* The last member of an item, and of its motion, that is assigned decides.
LEMMA LastDecides ==
  ASSUME animPlan \in AnimationPlans, ClaimsTo(Everywhere), Applied(Len(assignments)), NEW u \in Places
  PROVE  LET it == animItems[ItemOf(MemberAt(u).item)] IN
           /\ \E v \in Places :
                /\ MemberAt(v).item = MemberAt(u).item /\ v[1] = u[1] /\ (v = u \/ u[2] < v[2])
                /\ it.start = AssignmentAt(v).start /\ it.end = AssignmentAt(v).end /\ it.durUS = Unset
           /\ \E v \in Places :
                /\ SameMotion(MemberAt(v), MemberAt(u)) /\ v[1] = u[1] /\ (v = u \/ u[2] < v[2])
                /\ MotionFor(MemberAt(u)) = MemberMotion(animPlan.groups[u[1]], MemberAt(v))
<1> DEFINE len == Len(assignments)
           it == animItems[ItemOf(MemberAt(u).item)]
<1>1. len \in Nat /\ DOMAIN assignments = 1 .. len
  BY AssignmentsTyped
<1>2. PICK f \in [1 .. len -> Places] : Follow(f, Everywhere)
  BY <1>1 DEF ClaimsTo
<1>3. PICK p \in 1 .. len : f[p] = u
  BY <1>1, <1>2, AllEarlier DEF Follow
<1>4. \A q \in 1 .. len : f[q] \in Places /\ assignments[q] = AssignmentAt(f[q]) /\ assignments[q].item = MemberAt(f[q]).item
        /\ assignments[q].role = MemberAt(f[q]).role /\ assignments[q].motion = MemberMotion(animPlan.groups[f[q][1]], MemberAt(f[q]))
  <2>1. ASSUME NEW q \in 1 .. len PROVE f[q] \in Places /\ assignments[q] = AssignmentAt(f[q])
    BY <1>1, <1>2, <2>1 DEF Follow
  <2>2. ASSUME NEW w \in Places
        PROVE  /\ AssignmentAt(w).item = MemberAt(w).item /\ AssignmentAt(w).role = MemberAt(w).role
               /\ AssignmentAt(w).motion = MemberMotion(animPlan.groups[w[1]], MemberAt(w))
    BY DEF AssignmentAt, Assignment, MemberAt
  <2> QED
    BY <2>1, <2>2
<1>5. \A q \in p .. len : q \in 1 .. len /\ (q = p \/ p < q)
  BY <1>1, <1>3
<1>6. ASSUME NEW q \in p .. len, assignments[q].item = assignments[p].item
      PROVE  /\ f[q] \in Places /\ MemberAt(f[q]).item = MemberAt(u).item
             /\ f[q][1] = u[1] /\ (f[q] = u \/ u[2] < f[q][2])
  <2>1. q \in 1 .. len /\ MemberAt(f[q]).item = MemberAt(u).item
    BY <1>3, <1>4, <1>5, <1>6
  <2>2. f[q][1] = u[1]
    BY <1>4, <2>1, OneGroup, AssignmentNames
  <2>3. f[q] = u \/ u[2] < f[q][2]
    <3>1. CASE q = p
      BY <1>3, <3>1
    <3>2. CASE p < q
      <4>1. Earlier(u, f[q])
        BY <1>1, <1>2, <1>3, <2>1, <3>2 DEF Follow
      <4>2. u[1] \in Nat
        BY PlaceTyped
      <4> QED
        BY <2>2, <4>1, <4>2 DEF Earlier
    <3> QED
      BY <1>5, <3>1, <3>2
  <2> QED
    BY <1>4, <2>1, <2>2, <2>3
<1>7. \E v \in Places :
        /\ MemberAt(v).item = MemberAt(u).item /\ v[1] = u[1] /\ (v = u \/ u[2] < v[2])
        /\ it.start = AssignmentAt(v).start /\ it.end = AssignmentAt(v).end /\ it.durUS = Unset
  <2>1. PICK q \in p .. len :
          LET jt == animItems[ItemOf(assignments[p].item)] IN
            /\ assignments[q].item = assignments[p].item
            /\ jt.start = assignments[q].start /\ jt.end = assignments[q].end /\ jt.durUS = Unset
    BY <1>3 DEF Applied
  <2>2. assignments[p].item = MemberAt(u).item /\ assignments[q] = AssignmentAt(f[q])
    BY <1>3, <1>4, <1>5
  <2> QED
    BY <1>6, <2>1, <2>2
<1>8. \E v \in Places :
        /\ SameMotion(MemberAt(v), MemberAt(u)) /\ v[1] = u[1] /\ (v = u \/ u[2] < v[2])
        /\ MotionFor(MemberAt(u)) = MemberMotion(animPlan.groups[u[1]], MemberAt(v))
  <2>1. PICK q \in p .. len :
          /\ assignments[q].item = assignments[p].item /\ (OfCaption(assignments[q]) <=> OfCaption(assignments[p]))
          /\ MotionOf(animItems[ItemOf(assignments[p].item)], assignments[p]) = assignments[q].motion
    BY <1>3 DEF Applied
  <2>2. assignments[p].item = MemberAt(u).item /\ assignments[p].role = MemberAt(u).role
        /\ assignments[q].role = MemberAt(f[q]).role /\ assignments[q].motion = MemberMotion(animPlan.groups[f[q][1]], MemberAt(f[q]))
    BY <1>3, <1>4, <1>5
  <2>3. MotionFor(MemberAt(u)) = MemberMotion(animPlan.groups[f[q][1]], MemberAt(f[q]))
    BY <2>1, <2>2 DEF MotionFor, MotionOf, OfCaption
  <2>4. SameMotion(MemberAt(f[q]), MemberAt(u))
    BY <1>6, <2>1, <2>2 DEF SameMotion, OfCaption
  <2> QED
    BY <1>6, <2>1, <2>3, <2>4
<1> QED
  BY <1>7, <1>8

\* A claimed member gives its item a motion that rests and is not retired.
LEMMA MotionRests ==
  ASSUME animPlan \in AnimationPlans, draw \in Hashes, NEW u \in Places, Claimed(u),
         NEW id, id = MemberMotion(animPlan.groups[u[1]], MemberAt(u))
  PROVE  id \in DOMAIN Motions /\ Motions[id].rests /\ ~Motions[id].retired
<1> DEFINE m == MemberAt(u)
           g == animPlan.groups[u[1]]
<1>1. MotionOfMember(m) /\ m.role \in Roles
  BY DEF Claimed
<1>2. MotionAdmitsTarget(id, m.role) /\ Restful(id)
  <2>0. draw[<<g.id, m.role>>] \in Nat
    BY <1>1, PlaceTyped, AnimationAssumption
  <2> HIDE DEF m, g
  <2>1. CASE m.motion # NoMotion
    BY <1>1, <2>1 DEF m, g, MemberMotion, MotionOfMember
  <2>2. CASE m.motion = NoMotion
    <3>1. RolePool(m.role) # {} /\ id = DrawnFor(g, m.role)
      BY <1>1, <2>2 DEF m, g, MemberMotion, MotionOfMember
    <3>2. PICK i \in RolePool(m.role) : id = Defaults[m.role][i]
      BY <1>1, <2>0, <3>1, DrawnInPool
    <3> QED
      BY <3>2 DEF RolePool
  <2> QED
    BY <2>1, <2>2
<1> QED
  BY <1>2 DEF MotionAdmitsTarget, Restful, Resolvable, Retired

\* A claimed member shows when its group said, inside its window.
LEMMA WindowFits ==
  ASSUME animPlan \in AnimationPlans, NEW u \in Places, Claimed(u)
  PROVE  LET g == animPlan.groups[u[1]]
             m == MemberAt(u)
             a == AssignmentAt(u) IN
           /\ g.start <= a.start /\ a.start < a.end /\ a.end <= g.end
           /\ a.start - g.start =
                IF m.offset # Unset THEN m.offset
                ELSE (u[2] - 1) * ((2000 * g.stagger * animPlan.den + animPlan.num) \div (2 * animPlan.num))
<1> DEFINE g == animPlan.groups[u[1]]
           m == MemberAt(u)
           off == OffsetMS(g, u[2])
           till == EndOffsetMS(g, u[2])
           st == StaggerMS(g)
<1>1. /\ g.start \in Int /\ g.end \in Int /\ g.stagger \in Int /\ m.offset \in Int /\ m.endOffset \in Int
      /\ u[2] \in Nat /\ m = g.members[u[2]] /\ animPlan.num \in Int /\ animPlan.den \in Int
  <2>1. u[1] \in DOMAIN animPlan.groups /\ u[2] \in MembersOf(u[1]) /\ u[2] \in Nat
    BY PlaceTyped
  <2> QED
    BY <2>1, PlanTyped DEF IsGroup, MemberAt, MembersOf
<1>2. 0 < animPlan.num
  BY DEF Claimed, ValidGroup
<1>3. st \in Int /\ st = (2000 * g.stagger * animPlan.den + animPlan.num) \div (2 * animPlan.num)
  <2>1. 2 * g.stagger * 1000 = 2000 * g.stagger /\ 2000 * g.stagger \in Int
    BY <1>1
  <2>2. st = (2000 * g.stagger * animPlan.den + animPlan.num) \div (2 * animPlan.num)
    BY <2>1 DEF StaggerMS
  <2>3. 2000 * g.stagger * animPlan.den \in Int /\ 2 * animPlan.num \in Nat \ {0}
    BY <1>1, <1>2, <2>1
  <2>4. ASSUME NEW x \in Int, NEW y \in Int, NEW z \in Nat \ {0} PROVE (x + y) \div z \in Int
    OBVIOUS
  <2> QED
    BY <1>1, <2>2, <2>3, <2>4
<1>4. off = IF m.offset # Unset THEN m.offset ELSE (u[2] - 1) * st
  BY <1>1 DEF OffsetMS
<1>5. off \in Int
  <2> HIDE DEF st, off
  <2>1. (u[2] - 1) * st \in Int
    BY <1>1, <1>3
  <2> QED
    BY <1>1, <1>4, <2>1
<1>6. till \in Int
  BY <1>1 DEF EndOffsetMS
<1>7. 0 <= off /\ off < g.end - g.start /\ off < till /\ till <= g.end - g.start
  BY DEF Claimed, InGroupWindow
<1>8. AssignmentAt(u).start = g.start + off /\ AssignmentAt(u).end = g.start + till
  BY DEF AssignmentAt, Assignment
<1> HIDE DEF off, till, st, g, m
<1>9. g.start <= g.start + off /\ g.start + off < g.start + till /\ g.start + till <= g.end /\ g.start + off - g.start = off
  BY <1>1, <1>5, <1>6, <1>7
<1>10. off = IF m.offset # Unset THEN m.offset
             ELSE (u[2] - 1) * ((2000 * g.stagger * animPlan.den + animPlan.num) \div (2 * animPlan.num))
  BY <1>3, <1>4
<1>11. AssignmentAt(u).start - g.start = off
  BY <1>1, <1>5, <1>8
<1>12. /\ g.start <= AssignmentAt(u).start /\ AssignmentAt(u).start < AssignmentAt(u).end
       /\ AssignmentAt(u).end <= g.end
  BY <1>8, <1>9
<1> QED
  BY <1>10, <1>11, <1>12 DEF g, m

LEMMA GroupsOwn ==
  ASSUME AnimInv, owning = "owned"
  PROVE  GroupOwnsMembers
<1>1. /\ animPlan \in AnimationPlans /\ draw \in Hashes /\ ClaimsTo(Everywhere) /\ Applied(Len(assignments))
      /\ DOMAIN animItems = DOMAIN animPlan.items
  BY DEF AnimInv, AnimTyped, ClaimsInv, AssignInv
<1>2. \A u \in Places : Claimed(u)
  BY <1>1, AllEarlier DEF ClaimsTo
<1>3. ASSUME NEW n \in DOMAIN animPlan.groups, NEW k \in MembersOf(n)
      PROVE  LET g == animPlan.groups[n]
                 m == g.members[k]
                 w == WindowMS(animItems[ItemOf(m.item)]) IN
               /\ MotionFor(m) \in DOMAIN Motions /\ Motions[MotionFor(m)].rests /\ ~Motions[MotionFor(m)].retired
               /\ DecidesMotion(g, k) => MotionFor(m) = MemberMotion(g, m)
               /\ g.start <= w[1] /\ w[1] < w[2] /\ w[2] <= g.end
               /\ DecidesWindow(g, k)
                    => w[1] - g.start = IF m.offset # Unset THEN m.offset
                                        ELSE (k - 1) * ((2000 * g.stagger * animPlan.den + animPlan.num) \div (2 * animPlan.num))
  <2> DEFINE g == animPlan.groups[n]
             m == g.members[k]
             it == animItems[ItemOf(m.item)]
             w == WindowMS(it)
  <2>1. PICK u \in Places : MemberAt(u) = m /\ u[1] = n /\ u[2] = k
    <3>1. <<n, k>> \in Places /\ MemberAt(<<n, k>>) = m
      BY <1>1, <1>3, PlaceTyped DEF MemberAt
    <3> QED
      BY <3>1
  <2> HIDE DEF m
  <2>2. PICK v \in Places :
          /\ MemberAt(v).item = m.item /\ v[1] = n /\ (v = u \/ k < v[2])
          /\ it.start = AssignmentAt(v).start /\ it.end = AssignmentAt(v).end /\ it.durUS = Unset
    BY <1>1, <2>1, LastDecides
  <2>3. PICK o \in Places :
          /\ SameMotion(MemberAt(o), m) /\ o[1] = n /\ (o = u \/ k < o[2])
          /\ MotionFor(m) = MemberMotion(g, MemberAt(o))
    BY <1>1, <2>1, LastDecides
  <2> USE DEF m
  <2>4. \A x \in Places : x[1] = n => MemberAt(x) = g.members[x[2]] /\ x[2] \in DOMAIN g.members /\ x[2] \in Nat
    BY <1>1, PlaceTyped DEF MemberAt, MembersOf
  <2>5. MotionFor(m) \in DOMAIN Motions /\ Motions[MotionFor(m)].rests /\ ~Motions[MotionFor(m)].retired
    BY <1>1, <1>2, <2>3, MotionRests
  <2>6. ASSUME DecidesMotion(g, k) PROVE MotionFor(m) = MemberMotion(g, m)
    <3>1. o[2] <= k /\ o[2] \in Nat /\ k \in Nat
      BY <2>1, <2>3, <2>4, <2>6 DEF DecidesMotion
    <3>2. o = u
      BY <2>3, <3>1
    <3> QED
      BY <2>1, <2>3, <3>2
  <2>7. w = <<AssignmentAt(v).start, AssignmentAt(v).end>>
    BY <2>2 DEF WindowMS
  <2>8. g.start <= w[1] /\ w[1] < w[2] /\ w[2] <= g.end
    <3>1. Claimed(v) /\ g = animPlan.groups[v[1]]
      BY <1>2, <2>2
    <3>2. /\ animPlan.groups[v[1]].start <= AssignmentAt(v).start /\ AssignmentAt(v).start < AssignmentAt(v).end
          /\ AssignmentAt(v).end <= animPlan.groups[v[1]].end
      BY <1>1, <3>1, WindowFits
    <3> QED
      BY <2>7, <3>1, <3>2
  <2>9. ASSUME DecidesWindow(g, k)
        PROVE  w[1] - g.start = IF m.offset # Unset THEN m.offset
                                ELSE (k - 1) * ((2000 * g.stagger * animPlan.den + animPlan.num) \div (2 * animPlan.num))
    <3>1. v[2] <= k /\ v[2] \in Nat /\ k \in Nat
      BY <2>1, <2>2, <2>4, <2>9 DEF DecidesWindow
    <3>2. v = u
      BY <2>2, <3>1
    <3>3. w[1] = AssignmentAt(u).start
      BY <2>7, <3>2
    <3> QED
      BY <1>1, <1>2, <2>1, <3>3, WindowFits
  <2> QED
    BY <2>5, <2>6, <2>8, <2>9
<1>4. ASSUME NEW n \in DOMAIN animPlan.groups, NEW k \in MembersOf(n), NEW j \in MembersOf(n)
      PROVE  LET g == animPlan.groups[n]
                 m == g.members[k] IN
               g.members[j].role = m.role /\ g.members[j].motion = NoMotion /\ m.motion = NoMotion
                 /\ DecidesMotion(g, j) /\ DecidesMotion(g, k)
               => MotionFor(g.members[j]) = MotionFor(m)
  <2> DEFINE g == animPlan.groups[n]
             m == g.members[k]
             o == g.members[j]
  <2>1. DecidesMotion(g, k) => MotionFor(m) = MemberMotion(g, m)
    BY <1>3, <1>4
  <2>2. DecidesMotion(g, j) => MotionFor(o) = MemberMotion(g, o)
    BY <1>3, <1>4
  <2>3. o.role = m.role /\ o.motion = NoMotion /\ m.motion = NoMotion => MemberMotion(g, o) = MemberMotion(g, m)
    BY DEF MemberMotion
  <2> QED
    BY <2>1, <2>2, <2>3
<1>5. ASSUME NEW i \in DOMAIN animItems, ~InSomeGroup(i)
      PROVE  WindowMS(animItems[i]) = WindowMS(animPlan.items[i])
  <2>1. \A p \in 1 .. Len(assignments) : ItemOf(assignments[p].item) # i
    <3> TAKE p \in 1 .. Len(assignments)
    <3>1. PICK u \in Places : assignments[p] = AssignmentAt(u)
      BY <1>1, AssignmentsTyped
    <3>2. u[1] \in DOMAIN animPlan.groups /\ u[2] \in MembersOf(u[1])
      BY <1>1, PlaceTyped
    <3>3. assignments[p].item = animPlan.groups[u[1]].members[u[2]].item
      BY <1>1, <3>1, AssignmentNames DEF MemberAt
    <3> QED
      BY <1>5, <3>2, <3>3 DEF InSomeGroup
  <2>2. Untimed(animItems[i], animPlan.items[i])
    BY <1>1, <2>1 DEF Applied
  <2> QED
    BY <2>2 DEF Untimed, WindowMS
<1>6. ASSUME NEW n \in DOMAIN animPlan.groups, NEW k \in MembersOf(n)
      PROVE  LET g == animPlan.groups[n]
                 m == g.members[k] IN
               m.motion # NoMotion /\ DecidesMotion(g, k) => MotionFor(m) = m.motion
  <2> DEFINE g == animPlan.groups[n]
             m == g.members[k]
  <2>1. DecidesMotion(g, k) => MotionFor(m) = MemberMotion(g, m)
    BY <1>3, <1>6
  <2>2. m.motion # NoMotion => MemberMotion(g, m) = m.motion
    BY DEF MemberMotion
  <2> QED
    BY <2>1, <2>2
<1> QED
  BY <1>3, <1>4, <1>5, <1>6 DEF GroupOwnsMembers

LEMMA ProducerAndSubgroups ==
  ASSUME AnimInv, owning = "owned"
  PROVE  ProducerDecides /\ SubgroupDecides
<1>1. /\ animPlan \in AnimationPlans /\ ClaimsTo(Everywhere) /\ Applied(Len(assignments))
      /\ DOMAIN animItems = DOMAIN animPlan.items
  BY DEF AnimInv, AnimTyped, ClaimsInv, AssignInv
<1>2. \A i \in DOMAIN animItems : Framed(animItems[i], animPlan.items[i]) /\ Decided(animItems[i], animPlan.items[i])
  BY <1>1 DEF Applied
<1>3. ASSUME NEW n \in DOMAIN animPlan.groups, NEW o \in DOMAIN animPlan.groups, NEW k \in MembersOf(n), NEW j \in MembersOf(o),
             animPlan.groups[n].members[k].item = animPlan.groups[o].members[j].item
      PROVE  n = o
  <2>1. <<n, k>> \in Places /\ <<o, j>> \in Places
    BY <1>1, PlaceTyped
  <2>2. Claimed(<<n, k>>) /\ Claimed(<<o, j>>)
    BY <1>1, <2>1, AllEarlier DEF ClaimsTo
  <2>3. MemberAt(<<n, k>>).item = MemberAt(<<o, j>>).item
    BY <1>3 DEF MemberAt
  <2>4. <<n, k>>[1] = <<o, j>>[1]
    BY <1>1, <2>1, <2>2, <2>3, OneGroup
  <2> QED
    BY <2>4
<1>4. ProducerDecides
  BY <1>2, <1>3 DEF ProducerDecides, Decided
<1>5. SubgroupDecides
  <2> SUFFICES ASSUME NEW i \in DOMAIN animItems
               PROVE  LET it == animItems[i] IN
                        /\ \A k \in DOMAIN animPlan.policies :
                             LET p == animPlan.policies[k] IN
                               p.target = "image" /\ p.motion # NoMotion /\ ~UsesStack(p.motion) /\ it.asset /\ it.children = <<>> /\ it.behavior = "image"
                                 /\ it.group = p.group /\ it.subgroup = p.subgroup /\ animPlan.items[i].motion = NoMotion
                               => it.motion = p.motion
                        /\ UsesStack(it.motion) => \A k \in DOMAIN it.children : it.children[k].motion = animPlan.items[i].children[k].motion
    BY DEF SubgroupDecides
  <2> DEFINE it == animItems[i]
             source == animPlan.items[i]
  <2>1. Framed(it, source) /\ Decided(it, source)
    BY <1>2
  <2>2. it.children = <<>> => DOMAIN source.children = {}
    BY <2>1 DEF Framed
  <2>3. ASSUME NEW k \in DOMAIN animPlan.policies, animPlan.policies[k].target = "image", animPlan.policies[k].motion # NoMotion,
               ~UsesStack(animPlan.policies[k].motion), it.asset, it.children = <<>>, it.behavior = "image",
               it.group = animPlan.policies[k].group, it.subgroup = animPlan.policies[k].subgroup, source.motion = NoMotion
        PROVE  it.motion = animPlan.policies[k].motion
    <3>1. Governs(animPlan.policies[k], source)
      BY <2>1, <2>2, <2>3 DEF Governs, Framed
    <3> QED
      BY <2>1, <3>1 DEF Decided
  <2>4. UsesStack(it.motion) => \A k \in DOMAIN it.children : it.children[k].motion = source.children[k].motion
    BY <2>1 DEF Decided
  <2> QED
    BY <2>3, <2>4
<1> QED
  BY <1>4, <1>5

\* Whatever the producer, the policies and the groups of a plan ask for, in an accepted
\* plan every motion has one owner and none is retired, and a group's members show inside
\* its window when it said (resolveAnimationPolicies, resolveAnimationGroups and
\* validateDeprecatedMotions, which compileSemanticDecoded calls one after the other).
THEOREM OwnerCorrect == AnimSpec => []AnimationHasOneOwner
<1>1. AnimInit => AnimInv
  BY AnimInvInit
<1>2. AnimInv /\ [AnimNext]_animVars => AnimInv'
  BY AnimInvNext
<1>3. AnimInv => AnimationHasOneOwner
  <2> SUFFICES ASSUME AnimInv, owning = "owned"
               PROVE  /\ GroupOwnsMembers /\ ProducerDecides /\ SubgroupDecides
                      /\ \A i \in DOMAIN animItems : \A id \in ItemMotionIDs(animItems[i]) : ~Retired(id)
    BY DEF AnimationHasOneOwner
  <2>1. ~NamesRetired(animPlan, animItems)
    BY DEF AnimInv, AssignInv
  <2>2. \A i \in DOMAIN animItems : \A id \in ItemMotionIDs(animItems[i]) : ~Retired(id)
    BY <2>1 DEF NamesRetired
  <2> QED
    BY <2>2, GroupsOwn, ProducerAndSubgroups
<1> QED
  BY <1>1, <1>2, <1>3, PTL DEF AnimSpec
=============================================================================
