------------------------ MODULE LayerHierarchyProofs ------------------------
(***************************************************************************)
(* What a client reads of a layer in LayerHierarchy, for all trees of      *)
(* names and all that the layers may have.                                 *)
(***************************************************************************)
EXTENDS LayerHierarchy, OperatorLemmas

(* What the code holds to be declared is declared. *)
Honest(inh) ==
    /\ \A k \in KindsRead : Agrees(inh.keys[k], inh.declared[k])
    /\ Agrees(inh.crs, inh.declaredCrs)

Shape ==
    /\ layers \in [Names -> Attributes \cup {Absent}]
    /\ leaves \subseteq Visible

IsNode(node) ==
    /\ node.name \in Seq(STRING)
    /\ node.run \in Nat \cup {NoRun}
    /\ node.run # NoRun => layout = "recursivetimes" /\ IsLayer(node.name)

(* The projections declared so far are those of all leaves below. *)
Shared(node, inh) == \A x \in LeavesOf(node) : Agrees(inh.declaredCrs, Projections(x))

PendingInv ==
    \A x \in pending :
        /\ IsNode(x.node)
        /\ Honest(x.inh) /\ Shared(x.node, x.inh)

Inv == Shape /\ PendingInv /\ ReadAsItIs /\ NoForeignProjection

-----------------------------------------------------------------------------

LEMMA OverHides == ASSUME NEW f, NEW g PROVE Agrees(f, Over(f, g))
BY DEF Agrees, Over

LEMMA OverNothing == ASSUME NEW f, NEW g, Agrees(f, g) PROVE Agrees(f, Over(Nothing, g))
BY DEF Agrees, Over, Nothing

LEMMA NothingAgrees == ASSUME NEW g PROVE Agrees(Nothing, g)
BY DEF Agrees, Nothing

LEMMA ProjectionsHonest ==
    ASSUME NEW inh, NEW pm, Agrees(inh.crs, inh.declaredCrs)
    PROVE  Agrees(Over(pm, inh.crs), Over(NewProjections(pm, inh), inh.declaredCrs))
BY DEF Agrees, Over, NewProjections, OnlyAt

(* Keys that are taken note of only if they have been written *)
LEMMA DeclareHonest ==
    ASSUME NEW inh, Honest(inh), NEW keys, NEW infos, NEW pm,
           \A k \in KindsRead : \/ infos[k] = Nothing /\ keys[k] = inh.keys[k]
                                \/ infos[k] = keys[k]
    PROVE  Honest(Declare(inh, keys, infos, pm))
<1> DEFINE after == Declare(inh, keys, infos, pm)
<1>1. /\ after.keys = keys /\ after.crs = Over(pm, inh.crs)
      /\ after.declared = [k \in Kinds |-> Over(infos[k], inh.declared[k])]
      /\ after.declaredCrs = Over(NewProjections(pm, inh), inh.declaredCrs)
  BY DEF Declare, Inherited
<1>2. Agrees(after.crs, after.declaredCrs)
  BY <1>1, ProjectionsHonest DEF Honest
<1>3. ASSUME NEW k \in KindsRead PROVE Agrees(after.keys[k], after.declared[k])
  <2>1. k \in Kinds
    BY DEF KindsRead
  <2>2. after.declared[k] = Over(infos[k], inh.declared[k])
    BY <1>1, <2>1
  <2>3. CASE infos[k] = Nothing /\ keys[k] = inh.keys[k]
    BY <1>1, <2>2, <2>3, OverNothing DEF Honest
  <2>4. CASE infos[k] = keys[k]
    BY <1>1, <2>2, <2>4, OverHides
  <2>5. QED
    BY <2>3, <2>4
<1>4. QED
  BY <1>2, <1>3 DEF Honest

-----------------------------------------------------------------------------
(* The keys are what is written, but for the times of chosen runs *)

LEMMA InfoIsKey ==
    ASSUME NEW k \in KindsRead, NEW node, IsNode(node) PROVE Info(k, node) = Key(k, node)
<1>1. CASE k # "time"
  BY <1>1 DEF Info
<1>2. CASE k = "time"
  <2>1. NewestRuns
    BY <1>2 DEF KindsRead
  <2>2. RunShown(node) = NoRun
    BY <2>1 DEF NewestRuns, RunShown, IsNode
  <2>3. QED
    BY <1>2, <2>2 DEF Info, TimeInfo, Key
<1>3. QED
  BY <1>1, <1>2

LEMMA NotExpanded ==
    ASSUME "time" \in KindsRead, NEW name PROVE ~Expanded(name)
BY DEF KindsRead, Expanded, NewestRuns

LEMMA EmitIsKey ==
    ASSUME NEW k \in KindsRead, NEW node, IsNode(node), NEW inh
    PROVE  Emit(k, node, inh) = IF Key(k, node) # Nothing /\ Key(k, node) = inh.keys[k]
                                THEN Nothing ELSE Key(k, node)
BY InfoIsKey, NotExpanded DEF Emit

LEMMA WrittenHonest ==
    ASSUME NEW node, IsNode(node), NEW inh, Honest(inh) PROVE Honest(Written(node, inh))
<1>1. CASE ~IsLayer(node.name)
  BY <1>1 DEF Written
<1>2. CASE IsLayer(node.name)
  <2> DEFINE keys == [k \in Kinds |-> IF Key(k, node) # Nothing THEN Key(k, node)
                                      ELSE inh.keys[k]]
             infos == [k \in Kinds |-> Emit(k, node, inh)]
  <2>1. ASSUME NEW k \in KindsRead
        PROVE  \/ infos[k] = Nothing /\ keys[k] = inh.keys[k]
               \/ infos[k] = keys[k]
    <3>1. k \in Kinds
      BY DEF KindsRead
    <3>2. QED
      BY <3>1, EmitIsKey
  <2> HIDE DEF keys, infos
  <2>2. Honest(Declare(inh, keys, infos, Projections(node)))
    BY <2>1, DeclareHonest
  <2>3. QED
    BY <1>2, <2>2 DEF Written, keys, infos
<1>3. QED
  BY <1>1, <1>2

(* A layer is read as it is. *)
LEMMA WrittenAsItIs ==
    ASSUME NEW node, IsNode(node), IsLayer(node.name), NEW inh, Honest(inh), NEW k \in KindsRead
    PROVE  Agrees(Info(k, node), Written(node, inh).declared[k])
<1>1. k \in Kinds
  BY DEF KindsRead
<1>2. Written(node, inh).declared[k] = Over(Emit(k, node, inh), inh.declared[k])
  BY <1>1 DEF Written, Declare, Inherited
<1>3. CASE Key(k, node) # Nothing /\ Key(k, node) = inh.keys[k]
  <2>1. Emit(k, node, inh) = Nothing
    BY <1>3, EmitIsKey
  <2>2. Agrees(Key(k, node), inh.declared[k])
    BY <1>3 DEF Honest
  <2>3. QED
    BY <1>2, <2>1, <2>2, OverNothing, InfoIsKey
<1>4. CASE ~(Key(k, node) # Nothing /\ Key(k, node) = inh.keys[k])
  <2>1. Emit(k, node, inh) = Key(k, node)
    BY <1>4, EmitIsKey
  <2>2. QED
    BY <1>2, <2>1, OverHides, InfoIsKey
<1>5. QED
  BY <1>3, <1>4

-----------------------------------------------------------------------------
(* The tree *)

LEMMA LeafName ==
    ASSUME Shape, NEW n \in leaves PROVE n \in Names /\ n \in Seq(STRING) /\ n # <<>>
BY NamesAssumption DEF Shape, Visible

LEMMA PrefixIsSequence ==
    ASSUME NEW n \in Seq(STRING), NEW p \in Prefixes(n) PROVE p \in Seq(STRING)
BY DEF Prefixes

LEMMA RunsAreNodes ==
    ASSUME Shape, NEW name \in leaves, Expanded(name), NEW x \in RunsOf(name)
    PROVE  IsNode(x) /\ x.name = name
<1>1. layers[name] \in Attributes
  BY DEF Shape, Visible
<1>2. IsAttributes(layers[name])
  BY <1>1, AttributesAssumption
<1>3. PICK r \in DOMAIN layers[name].runs : x = Node(name, r)
  BY DEF RunsOf
<1>4. r \in Nat \cup {NoRun}
  BY <1>2 DEF IsAttributes
<1>5. QED
  BY <1>3, <1>4, LeafName DEF IsNode, Node, Expanded, IsLayer

LEMMA LeafNodesAreNodes ==
    ASSUME Shape, NEW name \in leaves, NEW x \in LeafNodes(name)
    PROVE  IsNode(x) /\ x.name = name
BY RunsAreNodes, LeafName DEF LeafNodes, IsNode, Node

LEMMA LeavesAreNodes ==
    ASSUME Shape, NEW node, IsNode(node), NEW x \in LeavesOf(node)
    PROVE  IsNode(x) /\ x.name \in leaves
<1>1. CASE node.run # NoRun
  BY <1>1 DEF LeavesOf, IsNode, IsLayer
<1>2. CASE node.run = NoRun
  <2>1. PICK name \in leaves : x \in LeafNodes(name)
    BY <1>2 DEF LeavesOf, IsLayer
  <2>2. QED
    BY <2>1, LeafNodesAreNodes
<1>3. QED
  BY <1>1, <1>2

LEMMA SublayersAreNodes ==
    ASSUME Shape, NEW node, IsNode(node), NEW x \in Sublayers(node)
    PROVE  IsNode(x)
<1>1. CASE IsLayer(node.name)
  BY <1>1, RunsAreNodes DEF Sublayers, IsLayer
<1>2. CASE ~IsLayer(node.name)
  <2>1. PICK n \in NextNames(node.name) : x = Node(n, NoRun)
    BY <1>2 DEF Sublayers
  <2>2. n \in Seq(STRING)
    BY <2>1, LeafName, PrefixIsSequence DEF NextNames
  <2>3. QED
    BY <2>1, <2>2 DEF IsNode, Node
<1>3. QED
  BY <1>1, <1>2

(* There is a first leaf: positions are natural numbers, and so are runs. *)
LEMMA FirstIsOne ==
    ASSUME NEW S, S # {},
           \A x \in S : x.name \in Names /\ x.run \in Nat \cup {NoRun}
    PROVE  First(S) \in S
<1> DEFINE positions == {Position[x.name] : x \in S}
<1>1. positions \in SUBSET Nat /\ positions # {}
  BY PositionAssumption
<1> HIDE DEF positions
<1>2. PICK p \in positions : \A q \in positions : p <= q
  BY <1>1, LeastNatural
<1> USE DEF positions
<1>3. PICK lowest \in S : Position[lowest.name] = p
  OBVIOUS
<1> DEFINE same == {x \in S : x.name = lowest.name}
           runs == {x.run + 1 : x \in same}
<1>4. runs \in SUBSET Nat /\ runs # {}
  BY DEF NoRun
<1> HIDE DEF runs
<1>5. PICK r \in runs : \A q \in runs : r <= q
  BY <1>4, LeastNatural
<1> USE DEF runs
<1>6. PICK least \in same : least.run + 1 = r
  OBVIOUS
<1>7. ASSUME NEW y \in S PROVE Before(least, y)
  <2>1. CASE y.name = lowest.name
    <3>1. r <= y.run + 1
      BY <1>5, <2>1
    <3>2. QED
      BY <1>6, <2>1, <3>1 DEF Before, NoRun
  <2>2. CASE y.name # lowest.name
    <3>1. p <= Position[y.name] /\ p # Position[y.name]
      BY <1>2, <1>3, <2>2, PositionAssumption
    <3>2. p \in Nat /\ Position[y.name] \in Nat
      BY <1>3, PositionAssumption
    <3>3. QED
      BY <1>3, <1>6, <3>1, <3>2 DEF Before
  <2>3. QED
    BY <2>1, <2>2
<1>8. QED
  BY <1>6, <1>7 DEF First

-----------------------------------------------------------------------------
(* What a group declares is what its members are taken to have *)

LEMMA SourceIsNode ==
    ASSUME Shape, NEW group, \A m \in group : IsNode(m), NEW k,
           Representatives(k, group) # {}
    PROVE  IsNode(Source(k, group))
<1>1. ASSUME NEW x \in Representatives(k, group) PROVE IsNode(x) /\ x.name \in leaves
  <2>1. PICK m \in group : x \in LeavesOf(m)
    BY DEF Representatives
  <2>2. QED
    BY <2>1, LeavesAreNodes
<1>2. Source(k, group) \in Representatives(k, group)
  BY <1>1, FirstIsOne DEF Source, IsNode, Shape, Visible
<1>3. QED
  BY <1>1, <1>2

LEMMA GroupHeaderHonest ==
    ASSUME Shape, NEW group, \A m \in group : IsNode(m), NEW inh, Honest(inh)
    PROVE  Honest(GroupHeader(group, inh))
<1>1. CASE ~NeedVirtualNode(group)
  BY <1>1 DEF GroupHeader
<1>2. CASE NeedVirtualNode(group)
  <2> DEFINE infos == [k \in Kinds |-> Hoist(k, group, inh)]
             keys == [k \in Kinds |-> IF infos[k] # Nothing THEN Key(k, Source(k, group))
                                      ELSE inh.keys[k]]
  <2>1. ASSUME NEW k \in KindsRead
        PROVE  \/ infos[k] = Nothing /\ keys[k] = inh.keys[k]
               \/ infos[k] = keys[k]
    <3>1. k \in Kinds
      BY DEF KindsRead
    <3>2. CASE infos[k] = Nothing
      BY <3>1, <3>2
    <3>3. CASE infos[k] # Nothing
      <4>1. Representatives(k, group) # {} /\ infos[k] = Info(k, Source(k, group))
        BY <3>1, <3>3 DEF Hoist
      <4>2. infos[k] = Key(k, Source(k, group))
        BY <4>1, SourceIsNode, InfoIsKey
      <4>3. QED
        BY <3>1, <3>3, <4>2
    <3>4. QED
      BY <3>2, <3>3
  <2>2. GroupHeader(group, inh) = Declare(inh, keys, infos, SharedProjections(group))
    BY <1>2 DEF GroupHeader
  <2> HIDE DEF keys, infos
  <2>3. QED
    BY <2>1, <2>2, DeclareHonest
<1>3. QED
  BY <1>1, <1>2

-----------------------------------------------------------------------------
(* A sublayer has no leaves that its namespace has not. *)

LEMMA PrefixElements ==
    ASSUME NEW s \in Seq(STRING), NEW t \in Seq(STRING)
    PROVE  IsPrefix(s, t) <=> Len(s) <= Len(t) /\ \A i \in 1..Len(s) : s[i] = t[i]
BY DEF IsPrefix

LEMMA BelowTransitive ==
    ASSUME NEW s \in Seq(STRING), NEW t \in Seq(STRING), NEW u \in Seq(STRING),
           Below(s, t), Below(t, u)
    PROVE  Below(s, u)
BY PrefixElements DEF Below, IsStrictPrefix

LEMMA RunLeaves ==
    ASSUME Shape, NEW name \in leaves, Expanded(name), NEW child \in RunsOf(name)
    PROVE  LeavesOf(child) = {child}
<1>1. layers[name] \in Attributes
  BY DEF Shape, Visible
<1>2. DOMAIN layers[name].runs \subseteq Nat \/ DOMAIN layers[name].runs = {NoRun}
  BY <1>1, AttributesAssumption DEF IsAttributes
<1>3. DOMAIN layers[name].runs # {NoRun}
  BY FS_Singleton DEF Expanded
<1>4. child.run # NoRun
  BY <1>2, <1>3 DEF RunsOf, Node, NoRun
<1>5. QED
  BY <1>4 DEF LeavesOf

LEMMA LeavesBelow ==
    ASSUME Shape, NEW node, IsNode(node),
           NEW child \in Sublayers(node)
    PROVE  LeavesOf(child) \subseteq LeavesOf(node)
<1>1. node.run = NoRun
  BY DEF Sublayers
<1>2. CASE IsLayer(node.name)
  <2>1. Expanded(node.name) /\ child \in RunsOf(node.name)
    BY <1>1, <1>2 DEF Sublayers
  <2>2. LeavesOf(child) = {child}
    BY <1>2, <2>1, RunLeaves DEF IsLayer
  <2>3. QED
    BY <1>1, <1>2, <2>1, <2>2 DEF LeavesOf, LeafNodes
<1>3. CASE ~IsLayer(node.name)
  <2>1. PICK p \in NextNames(node.name) : child = Node(p, NoRun)
    BY <1>1, <1>3 DEF Sublayers
  <2>2. Below(node.name, p) /\ p \in Seq(STRING)
    BY <2>1, LeafName, PrefixIsSequence DEF NextNames
  <2>3. child.name = p /\ child.run = NoRun
    BY <2>1 DEF Node
  <2>4. ASSUME NEW x \in LeavesOf(child)
        PROVE  \E m \in leaves : Below(node.name, m) /\ x \in LeafNodes(m)
    <3>1. CASE IsLayer(p)
      BY <2>2, <2>3, <2>4, <3>1 DEF LeavesOf, IsLayer
    <3>2. CASE ~IsLayer(p)
      <4>1. PICK m \in leaves : Below(p, m) /\ x \in LeafNodes(m)
        BY <2>3, <2>4, <3>2 DEF LeavesOf
      <4>2. Below(node.name, m)
        BY <2>2, <4>1, LeafName, BelowTransitive DEF IsNode
      <4>3. QED
        BY <4>1, <4>2
    <3>3. QED
      BY <3>1, <3>2
  <2>5. QED
    BY <1>1, <1>3, <2>4 DEF LeavesOf
<1>4. QED
  BY <1>2, <1>3

-----------------------------------------------------------------------------
(* Projections declared for a group are those of its leaves *)

LEMMA DeclaredShared ==
    ASSUME NEW inh, NEW keys, NEW infos, NEW pm, NEW own,
           Agrees(inh.declaredCrs, own), Agrees(pm, own)
    PROVE  Agrees(Declare(inh, keys, infos, pm).declaredCrs, own)
BY DEF Agrees, Declare, Inherited, Over, NewProjections, OnlyAt

LEMMA GroupShared ==
    ASSUME NEW group, NEW m \in group, NEW inh, Shared(m, inh)
    PROVE  Shared(m, GroupHeader(group, inh))
<1>1. ASSUME NEW x \in LeavesOf(m) PROVE Agrees(SharedProjections(group), Projections(x))
  BY DEF Agrees, SharedProjections, OnlyAt
<1>2. QED
  BY <1>1, DeclaredShared DEF Shared, GroupHeader

LEMMA LeafOfLayer ==
    ASSUME Shape, NEW node, IsNode(node), IsLayer(node.name), NEW x \in LeavesOf(node)
    PROVE  Projections(x) = Projections(node)
BY LeafNodesAreNodes DEF LeavesOf, IsLayer, Projections

LEMMA WrittenShared ==
    ASSUME Shape, NEW node, IsNode(node), NEW inh, Shared(node, inh)
    PROVE  Shared(node, Written(node, inh))
<1>1. CASE ~IsLayer(node.name)
  BY <1>1 DEF Written
<1>2. CASE IsLayer(node.name)
  <2>1. ASSUME NEW x \in LeavesOf(node) PROVE Agrees(Projections(node), Projections(x))
    BY <1>2, LeafOfLayer DEF Agrees
  <2>2. QED
    BY <1>2, <2>1, DeclaredShared DEF Shared, Written
<1>3. QED
  BY <1>1, <1>2

-----------------------------------------------------------------------------
(* The invariant *)

LEMMA RootIsNode == IsNode(Root)
BY DEF IsNode, Root, Node

LEMMA NothingIsHonest == Honest(NothingInherited)
<1>1. ASSUME NEW k \in KindsRead PROVE NothingInherited.keys[k] = Nothing
  BY DEF NothingInherited, Inherited, KindsRead
<1>2. NothingInherited.crs = Nothing
  BY DEF NothingInherited, Inherited
<1>3. QED
  BY <1>1, <1>2, NothingAgrees DEF Honest

LEMMA NothingIsShared == ASSUME NEW node PROVE Shared(node, NothingInherited)
BY NothingAgrees DEF Shared, NothingInherited, Inherited

LEMMA InitInv == Init => Inv
<1> SUFFICES ASSUME Init PROVE Inv
  OBVIOUS
<1>1. Shape
  BY DEF Init, Shape, Leaves
<1>2. PendingInv
  BY RootIsNode, NothingIsHonest, NothingIsShared DEF Init, PendingInv
<1>3. ReadAsItIs /\ NoForeignProjection
  BY DEF Init, ReadAsItIs, NoForeignProjection
<1>4. QED
  BY <1>1, <1>2, <1>3 DEF Inv

(* Leaves are tree leaves of their own. *)
LEMMA LeafHasItself ==
    ASSUME Shape, NEW node, IsNode(node), IsLayer(node.name), Sublayers(node) = {}
    PROVE  \E x \in LeavesOf(node) : Projections(x) = Projections(node)
<1>1. CASE node.run # NoRun
  BY <1>1 DEF LeavesOf
<1>2. CASE node.run = NoRun
  <2>1. ~Expanded(node.name)
    <3>1. SUFFICES ASSUME Expanded(node.name) PROVE FALSE
      OBVIOUS
    <3>2. RunsOf(node.name) = {}
      BY <1>2, <3>1 DEF Sublayers
    <3>3. DOMAIN layers[node.name].runs = {}
      BY <3>2 DEF RunsOf
    <3>4. QED
      BY <3>1, <3>3, FS_EmptySet DEF Expanded
  <2>2. LeavesOf(node) = {Node(node.name, NoRun)}
    BY <1>2, <2>1 DEF LeavesOf, LeafNodes
  <2>3. QED
    BY <2>2 DEF Projections, Node
<1>3. QED
  BY <1>1, <1>2

LEMMA WrittenProjections ==
    ASSUME NEW node, IsNode(node), IsLayer(node.name), NEW inh, Honest(inh)
    PROVE  Agrees(Projections(node), Written(node, inh).declaredCrs)
<1>1. Agrees(Projections(node), Written(node, inh).crs)
  BY OverHides DEF Written, Declare, Inherited
<1>2. Agrees(Written(node, inh).crs, Written(node, inh).declaredCrs)
  BY WrittenHonest DEF Honest
<1>3. QED
  BY <1>1, <1>2 DEF Agrees

LEMMA NextNodeIsPending == ASSUME pending # {} PROVE NextNode \in pending
BY DEF NextNode

(* What is known of a node depends on what no step changes. *)
Same == UNCHANGED <<layers, layout, reference, leaves>>

LEMMA KeySame ==
    ASSUME Same, NEW k, NEW node
    PROVE  Key(k, node)' = Key(k, node) /\ Projections(node)' = Projections(node)
BY DEF Same, Key, Projections

LEMMA InfoSame == ASSUME Same, NEW k, NEW node PROVE Info(k, node)' = Info(k, node)
<1>1. RunShown(node)' = RunShown(node)
  BY DEF Same, RunShown
<1>2. TimeInfo(node)' = TimeInfo(node)
  BY <1>1 DEF Same, TimeInfo
<1>3. QED
  BY <1>2, KeySame DEF Info

LEMMA KindsSame == ASSUME Same PROVE KindsRead' = KindsRead
BY DEF Same, KindsRead, NewestRuns

LEMMA HonestSame == ASSUME Same, NEW inh PROVE Honest(inh)' <=> Honest(inh)
BY KindsSame DEF Honest

LEMMA IsNodeSame == ASSUME Same, NEW node PROVE IsNode(node)' <=> IsNode(node)
BY DEF Same, IsNode, IsLayer

LEMMA LeafNodesSame == ASSUME Same, NEW name PROVE LeafNodes(name)' = LeafNodes(name)
BY DEF Same, LeafNodes, Expanded, RunsOf, IsLayer

LEMMA LeavesSame == ASSUME Same, NEW node PROVE LeavesOf(node)' = LeavesOf(node)
<1>1. leaves' = leaves
  BY DEF Same
<1>2. \A n : LeafNodes(n)' = LeafNodes(n)
  BY LeafNodesSame
<1>3. QED
  BY <1>1, <1>2 DEF LeavesOf, IsLayer

LEMMA SharedSame == ASSUME Same, NEW node, NEW inh PROVE Shared(node, inh)' <=> Shared(node, inh)
<1>1. \A x : Projections(x)' = Projections(x)
  BY KeySame
<1>2. QED
  BY <1>1, LeavesSame DEF Shared

NodeInv(x) ==
    /\ IsNode(x.node)
    /\ Honest(x.inh) /\ Shared(x.node, x.inh)

LeafInv(x) ==
    /\ \A k \in KindsRead : Agrees(Own(k, x), Read(k, x))
    /\ Agrees(Projections(x.node), x.inh.declaredCrs)
    /\ Agrees(x.inh.declaredCrs, Projections(x.node))

LEMMA NodeInvSame == ASSUME Same, NEW x PROVE NodeInv(x)' <=> NodeInv(x)
<1>1. Honest(x.inh)' <=> Honest(x.inh)
  BY HonestSame
<1>2. Shared(x.node, x.inh)' <=> Shared(x.node, x.inh)
  BY SharedSame
<1>3. IsNode(x.node)' <=> IsNode(x.node)
  BY IsNodeSame
<1>4. QED
  BY <1>1, <1>2, <1>3 DEF NodeInv, Same, IsLayer

LEMMA LeafInvSame == ASSUME Same, NEW x PROVE LeafInv(x)' <=> LeafInv(x)
<1>1. \A k : Info(k, x.node)' = Info(k, x.node)
  BY InfoSame
<1>2. Projections(x.node)' = Projections(x.node)
  BY KeySame
<1>3. QED
  BY <1>1, <1>2, KindsSame DEF LeafInv, Own, Read

LEMMA InvParts ==
    Inv <=> Shape /\ (\A x \in pending : NodeInv(x)) /\ (\A x \in listed : LeafInv(x))
BY DEF Inv, PendingInv, NodeInv, ReadAsItIs, NoForeignProjection, LeafInv

LEMMA ShapeSame == ASSUME Same, Shape PROVE Shape'
BY DEF Same, Shape, Visible

(* A step keeps the invariant if it does so for what it adds. *)
LEMMA StepInv ==
    ASSUME Inv, Same,
           \A x \in pending' : x \in pending \/ NodeInv(x),
           \A x \in listed' : x \in listed \/ LeafInv(x)
    PROVE  Inv'
<1>1. \A x \in pending' : NodeInv(x)'
  BY InvParts, NodeInvSame
<1>2. \A x \in listed' : LeafInv(x)'
  BY InvParts, LeafInvSame
<1>3. Shape'
  BY InvParts, ShapeSame
<1>4. QED
  BY <1>1, <1>2, <1>3 DEF Inv, PendingInv, NodeInv, ReadAsItIs, NoForeignProjection, LeafInv

LEMMA LeafStep == ASSUME Inv, NEW x \in pending, Leaf(x) PROVE Inv'
<1>1. Same /\ pending' = pending \ {x}
  BY DEF Leaf, Same
<1>2. Shape /\ IsNode(x.node) /\ Honest(x.inh) /\ Shared(x.node, x.inh)
  BY DEF Inv, PendingInv
<1>3. ASSUME NEW y \in listed', y \notin listed PROVE LeafInv(y)
  <2>1. IsLayer(x.node.name) /\ y = [node |-> x.node, inh |-> Written(x.node, x.inh)]
    BY <1>3 DEF Leaf
  <2>2. ASSUME NEW k \in KindsRead PROVE Agrees(Own(k, y), Read(k, y))
    BY <1>2, <2>1, WrittenAsItIs DEF Own, Read
  <2>3. Agrees(Projections(y.node), y.inh.declaredCrs)
    BY <1>2, <2>1, WrittenProjections
  <2>4. Agrees(y.inh.declaredCrs, Projections(y.node))
    <3>1. Shared(x.node, Written(x.node, x.inh))
      BY <1>2, WrittenShared
    <3>2. PICK z \in LeavesOf(x.node) : Projections(z) = Projections(x.node)
      BY <1>2, <2>1, LeafHasItself DEF Leaf
    <3>3. QED
      BY <2>1, <3>1, <3>2 DEF Shared
  <2>5. QED
    BY <2>2, <2>3, <2>4 DEF LeafInv
<1>4. QED
  BY <1>1, <1>3, StepInv

LEMMA BranchStep == ASSUME Inv, NEW x \in pending, Branch(x) PROVE Inv'
<1> DEFINE inh == Written(x.node, x.inh)
           added == UNION {{[node |-> m, inh |-> GroupHeader(g, inh)] : m \in g} :
                              g \in Groups(Sublayers(x.node))}
<1>1. Shape /\ NodeInv(x)
  BY InvParts
<1>2. Honest(inh) /\ Shared(x.node, inh)
  BY <1>1, WrittenHonest, WrittenShared DEF NodeInv
<1>3. ASSUME NEW y \in added PROVE NodeInv(y)
  <2>1. PICK g \in Groups(Sublayers(x.node)) :
           \E m \in g : y = [node |-> m, inh |-> GroupHeader(g, inh)]
    BY <1>3
  <2>2. PICK m \in g : y = [node |-> m, inh |-> GroupHeader(g, inh)]
    BY <2>1
  <2>3. g \subseteq Sublayers(x.node)
    BY DEF Groups
  <2>4. \A n \in g : IsNode(n)
    BY <1>1, <2>3, SublayersAreNodes DEF NodeInv
  <2>5. Honest(y.inh)
    BY <1>1, <1>2, <2>2, <2>4, GroupHeaderHonest
  <2>6. Shared(m, inh)
    BY <1>1, <1>2, <2>3, LeavesBelow DEF Shared, NodeInv
  <2>7. Shared(y.node, y.inh)
    BY <2>2, <2>6, GroupShared
  <2>8. QED
    BY <2>2, <2>4, <2>5, <2>7 DEF NodeInv
<1> HIDE DEF inh, added
<1>4. Same /\ pending' = (pending \ {x}) \cup added /\ listed' = listed
  BY DEF Branch, Same, inh, added
<1>5. QED
  BY <1>3, <1>4, StepInv

LEMMA Unchanged == ASSUME Inv, UNCHANGED vars PROVE Inv'
BY StepInv DEF vars, Same

(* Inv holds in every state: of every node the code knows no more than has *)
(* been declared above it, and it declares what all leaves below it have.  *)
THEOREM Invariant == Spec => []Inv
<1>1. Inv /\ [Next]_vars => Inv'
  BY LeafStep, BranchStep, Unchanged, NextNodeIsPending DEF Next
<1>2. QED
  BY InitInv, <1>1, PTL DEF Spec

(* Whatever add_layer_info and emit_group leave out of a layer can be read *)
(* above it, and says what the layer itself would have said.               *)
THEOREM LayersReadAsTheyAre == Spec => []ReadAsItIs
<1>1. Inv => ReadAsItIs
  BY DEF Inv
<1>2. QED
  BY Invariant, <1>1, PTL

(* A projection that emit_group declares for a group is one that each of   *)
(* its layers has, with the same bounding box.                             *)
THEOREM ProjectionsAreOwn == Spec => []NoForeignProjection
<1>1. Inv => NoForeignProjection
  BY DEF Inv
<1>2. QED
  BY Invariant, <1>1, PTL

-----------------------------------------------------------------------------
(* Every leaf of the tree is below one node that is still to be written,   *)
(* or it is listed.                                                        *)

AllLeaves == UNION {LeafNodes(n) : n \in leaves}

Apart(x, y) == LeavesOf(x.node) \cap LeavesOf(y.node) = {}

TreeInv ==
    /\ leaves = Leaves(Visible)
    /\ layout \in Layouts /\ reference \in References
    /\ \A x \in pending : x.node = Root \/ LeavesOf(x.node) # {}
    /\ \A x \in listed : IsLayer(x.node.name) /\ x.node.run \in Nat \cup {NoRun}
    /\ \A y \in AllLeaves : \E x \in pending \cup listed : y \in LeavesOf(x.node)
    /\ \A x, y \in pending : x # y => Apart(x, y)
    /\ \A x \in pending, y \in listed : Apart(x, y)
    /\ \A x, y \in listed : x # y => Apart(x, y)

LEMMA LeafNodesNotEmpty ==
    ASSUME NEW name PROVE LeafNodes(name) # {}
<1>1. CASE Expanded(name)
  <2>1. DOMAIN layers[name].runs # {}
    BY <1>1, FS_EmptySet DEF Expanded
  <2>2. QED
    BY <1>1, <2>1 DEF LeafNodes, RunsOf
<1>2. CASE ~Expanded(name)
  BY <1>2 DEF LeafNodes
<1>3. QED
  BY <1>1, <1>2

(* A name is below a namespace, or its prefix of the same length. *)
LEMMA PrefixOfLength ==
    ASSUME NEW n \in Seq(STRING), NEW p \in Prefixes(n)
    PROVE  /\ p \in Seq(STRING) /\ Len(p) \in 0..Len(n)
           /\ p = SubSeq(n, 1, Len(p))
           /\ p = n \/ Below(p, n)
<1>1. PICK k \in 0..Len(n) : p = SubSeq(n, 1, k)
  BY DEF Prefixes
<1>2. Len(n) \in Nat
  BY LenProperties
<1>3. p \in Seq(STRING) /\ Len(p) = k /\ \A i \in 1..k : p[i] = n[i]
  BY <1>1, <1>2, SubSeqProperties
<1>4. IsPrefix(p, n)
  BY <1>2, <1>3, PrefixElements
<1>5. QED
  BY <1>1, <1>2, <1>3, <1>4 DEF Below, IsStrictPrefix

LEMMA NextNameIs ==
    ASSUME Shape, NEW name \in Seq(STRING), NEW p \in NextNames(name)
    PROVE  \E n \in leaves : /\ p \in Prefixes(n) /\ p \in Seq(STRING) /\ n \in Seq(STRING)
                             /\ Below(name, p) /\ Len(p) = Len(name) + 1
                             /\ p = n \/ Below(p, n)
<1>1. PICK n \in leaves : p \in Prefixes(n)
  BY DEF NextNames
<1>2. n \in Seq(STRING)
  BY LeafName
<1>3. QED
  BY <1>1, <1>2, PrefixOfLength DEF NextNames

(* The namespace or layer right below on the way to a name *)
LEMMA NextNameExists ==
    ASSUME Shape, NEW name \in Seq(STRING), NEW n \in leaves, Below(name, n)
    PROVE  \E p \in NextNames(name) : p = n \/ Below(p, n)
<1> DEFINE k == Len(name) + 1
           p == SubSeq(n, 1, k)
<1>1. n \in Seq(STRING)
  BY LeafName
<1>2. /\ Len(name) \in Nat /\ Len(n) \in Nat /\ Len(name) <= Len(n)
      /\ \A i \in 1..Len(name) : name[i] = n[i]
  BY <1>1, LenProperties, PrefixElements DEF Below, IsStrictPrefix
<1>3. Len(name) # Len(n)
  <2>1. SUFFICES ASSUME Len(name) = Len(n) PROVE name = n
    BY DEF Below, IsStrictPrefix
  <2>2. QED
    BY <1>1, <1>2, <2>1, SeqEqual
<1>4. k \in 0..Len(n)
  BY <1>2, <1>3
<1>5. p \in Prefixes(n)
  BY <1>4 DEF Prefixes
<1>6. p \in Seq(STRING) /\ Len(p) = k /\ \A i \in 1..k : p[i] = n[i]
  BY <1>1, <1>2, <1>4, SubSeqProperties
<1> HIDE DEF p
<1>7. IsPrefix(name, p) /\ name # p
  BY <1>2, <1>6, PrefixElements
<1>8. p \in NextNames(name)
  BY <1>5, <1>6, <1>7 DEF NextNames, Below, IsStrictPrefix
<1>9. QED
  BY <1>1, <1>5, <1>8, PrefixOfLength

(* Names of layers are not namespaces. *)
LEMMA NoneBelowLayer ==
    ASSUME Shape, leaves = Leaves(Visible), NEW n \in leaves, NEW m \in leaves
    PROVE  ~Below(n, m)
BY DEF Leaves, Shape

(* The leaves of the nodes right below a name *)
LEMMA NextLeaves ==
    ASSUME Shape, leaves = Leaves(Visible), NEW name \in Seq(STRING), NEW p \in NextNames(name)
    PROVE  /\ LeavesOf(Node(p, NoRun)) # {}
           /\ \A n \in leaves : p = n \/ Below(p, n) => LeafNodes(n) \subseteq LeavesOf(Node(p, NoRun))
           /\ \A x \in LeavesOf(Node(p, NoRun)) : x.name \in leaves /\ (p = x.name \/ Below(p, x.name))
<1>1. Node(p, NoRun).run = NoRun /\ Node(p, NoRun).name = p
  BY DEF Node
<1>2. PICK n \in leaves : p = n \/ Below(p, n)
  BY NextNameIs
<1>3. CASE p \in leaves
  <2>1. LeavesOf(Node(p, NoRun)) = LeafNodes(p)
    BY <1>1, <1>3 DEF LeavesOf, IsLayer
  <2>2. QED
    BY <1>3, <2>1, LeafNodesNotEmpty, LeafNodesAreNodes, NoneBelowLayer
<1>4. CASE p \notin leaves
  <2>1. LeavesOf(Node(p, NoRun)) = UNION {LeafNodes(m) : m \in {k \in leaves : Below(p, k)}}
    BY <1>1, <1>4 DEF LeavesOf, IsLayer
  <2>2. Below(p, n)
    BY <1>2, <1>4
  <2>3. LeavesOf(Node(p, NoRun)) # {}
    BY <2>1, <2>2, LeafNodesNotEmpty
  <2>4. QED
    BY <1>4, <2>1, <2>3, LeafNodesAreNodes
<1>5. QED
  BY <1>3, <1>4

(* Two prefixes of a name that are of the same length are one. *)
LEMMA SamePrefix ==
    ASSUME NEW p \in Seq(STRING), NEW q \in Seq(STRING), NEW n \in Seq(STRING), Len(p) = Len(q),
           p = n \/ Below(p, n), q = n \/ Below(q, n)
    PROVE  p = q
<1>1. IsPrefix(p, n) /\ IsPrefix(q, n)
  BY PrefixElements, LenProperties DEF Below, IsStrictPrefix
<1>2. \A i \in 1..Len(p) : p[i] = q[i]
  BY <1>1, PrefixElements
<1>3. QED
  BY <1>2, SeqEqual

(* The leaves of a node are divided among the nodes right below it. *)
LEMMA SublayersPartition ==
    ASSUME Shape, leaves = Leaves(Visible), NEW node, IsNode(node), Sublayers(node) # {}
    PROVE  /\ \A m \in Sublayers(node) : LeavesOf(m) # {} /\ LeavesOf(m) \subseteq LeavesOf(node)
           /\ \A y \in LeavesOf(node) : \E m \in Sublayers(node) : y \in LeavesOf(m)
           /\ \A m, o \in Sublayers(node) : m # o => LeavesOf(m) \cap LeavesOf(o) = {}
<1>1. node.run = NoRun /\ node.name \in Seq(STRING)
  BY DEF Sublayers, IsNode
<1>2. \A m \in Sublayers(node) : LeavesOf(m) \subseteq LeavesOf(node)
  BY LeavesBelow
<1>3. CASE IsLayer(node.name)
  <2>1. /\ Expanded(node.name) /\ Sublayers(node) = RunsOf(node.name)
        /\ LeavesOf(node) = RunsOf(node.name)
    BY <1>1, <1>3 DEF Sublayers, LeavesOf, LeafNodes
  <2>2. \A m \in RunsOf(node.name) : LeavesOf(m) = {m}
    BY <1>3, <2>1, RunLeaves DEF IsLayer
  <2>3. QED
    BY <1>2, <2>1, <2>2
<1>4. CASE ~IsLayer(node.name)
  <2>1. /\ Sublayers(node) = {Node(p, NoRun) : p \in NextNames(node.name)}
        /\ LeavesOf(node) = UNION {LeafNodes(n) : n \in {k \in leaves : Below(node.name, k)}}
    BY <1>1, <1>4 DEF Sublayers, LeavesOf
  <2>2. \A m \in Sublayers(node) : LeavesOf(m) # {}
    BY <1>1, <2>1, NextLeaves
  <2>3. ASSUME NEW y \in LeavesOf(node) PROVE \E m \in Sublayers(node) : y \in LeavesOf(m)
    <3>1. PICK n \in leaves : Below(node.name, n) /\ y \in LeafNodes(n)
      BY <2>1
    <3>2. PICK p \in NextNames(node.name) : p = n \/ Below(p, n)
      BY <1>1, <3>1, NextNameExists
    <3>3. LeafNodes(n) \subseteq LeavesOf(Node(p, NoRun))
      BY <1>1, <3>2, NextLeaves
    <3>4. QED
      BY <2>1, <3>1, <3>2, <3>3
  <2>4. ASSUME NEW m \in Sublayers(node), NEW o \in Sublayers(node), NEW y \in LeavesOf(m) \cap LeavesOf(o)
        PROVE  m = o
    <3>1. PICK p \in NextNames(node.name) : m = Node(p, NoRun)
      BY <2>1
    <3>2. PICK q \in NextNames(node.name) : o = Node(q, NoRun)
      BY <2>1
    <3>3. /\ y.name \in leaves /\ (p = y.name \/ Below(p, y.name)) /\ (q = y.name \/ Below(q, y.name))
      BY <1>1, <2>4, <3>1, <3>2, NextLeaves
    <3>4. /\ p \in Seq(STRING) /\ q \in Seq(STRING) /\ y.name \in Seq(STRING)
          /\ Len(p) = Len(q)
      BY <1>1, <3>3, NextNameIs, LeafName
    <3>5. p = q
      BY <3>3, <3>4, SamePrefix
    <3>6. QED
      BY <3>1, <3>2, <3>5
  <2>5. QED
    BY <1>2, <2>2, <2>3, <2>4
<1>5. QED
  BY <1>3, <1>4

LEMMA NamespaceWithoutLeaves ==
    ASSUME Shape, NEW node, IsNode(node), Sublayers(node) = {}, ~IsLayer(node.name)
    PROVE  LeavesOf(node) = {}
<1>1. node.run = NoRun /\ node.name \in Seq(STRING)
  BY DEF IsNode
<1>2. NextNames(node.name) = {}
  BY <1>1 DEF Sublayers
<1>3. \A n \in leaves : ~Below(node.name, n)
  BY <1>1, <1>2, NextNameExists
<1>4. QED
  BY <1>1, <1>3 DEF LeavesOf

(* A sublayer is in one group only. *)
LEMMA GroupsPartition ==
    ASSUME NEW siblings
    PROVE  /\ \A g \in Groups(siblings) : g \subseteq siblings
           /\ \A m \in siblings : \E g \in Groups(siblings) : m \in g
           /\ \A g, h \in Groups(siblings) : \A m : m \in g /\ m \in h => g = h
<1> DEFINE With(key) == {s \in siblings : GroupKeys(s) = key}
<1>1. \A g \in Groups(siblings) : \E s \in siblings : g = With(GroupKeys(s))
  BY Zenon DEF Groups
<1>2. \A s \in siblings : With(GroupKeys(s)) \in Groups(siblings)
  BY Zenon DEF Groups
<1>3. \A s, m \in siblings : m \in With(GroupKeys(s)) <=> GroupKeys(m) = GroupKeys(s)
  OBVIOUS
<1>4. \A s \in siblings : With(GroupKeys(s)) \subseteq siblings
  OBVIOUS
<1>5. \A s, m \in siblings : GroupKeys(m) = GroupKeys(s) => With(GroupKeys(s)) = With(GroupKeys(m))
  OBVIOUS
<1> HIDE DEF With
<1>6. QED
  BY <1>1, <1>2, <1>3, <1>4, <1>5

LEMMA LayerNodeIs ==
    ASSUME Shape, NEW node, IsNode(node), IsLayer(node.name), NEW y \in LeavesOf(node)
    PROVE  y.name = node.name
BY LeafNodesAreNodes DEF LeavesOf, IsLayer

-----------------------------------------------------------------------------

LEMMA InitTree == Init => TreeInv
<1> SUFFICES ASSUME Init PROVE TreeInv
  OBVIOUS
<1>1. Shape /\ leaves = Leaves(Visible)
  BY DEF Init, Shape, Leaves
<1>2. Root.name = <<>> /\ Root.run = NoRun
  BY DEF Root, Node
<1>3. \A n \in leaves : Below(<<>>, n)
  <2>1. \A n \in leaves : n \in Seq(STRING) /\ n # <<>>
    BY <1>1, LeafName
  <2>2. \A n \in Seq(STRING) : IsPrefix(<<>>, n)
    <3>1. <<>> \in Seq(STRING) /\ Len(<<>>) = 0
      OBVIOUS
    <3>2. ASSUME NEW n \in Seq(STRING)
          PROVE  Len(<<>>) <= Len(n) /\ \A i \in 1..Len(<<>>) : <<>>[i] = n[i]
      BY <3>1, LenProperties
    <3>3. QED
      BY <3>1, <3>2, PrefixElements
  <2>3. QED
    BY <2>1, <2>2 DEF Below, IsStrictPrefix
<1>4. LeavesOf(Root) = AllLeaves
  <2>1. ~IsLayer(<<>>)
    BY <1>1, LeafName DEF IsLayer
  <2>2. {m \in leaves : Below(<<>>, m)} = leaves
    BY <1>3
  <2>3. QED
    BY <1>2, <2>1, <2>2 DEF LeavesOf, AllLeaves
<1>5. QED
  BY <1>1, <1>4 DEF Init, TreeInv

LEMMA TreeSame ==
    ASSUME Same, TreeInv,
           \A x \in pending' : x \in pending \/ LeavesOf(x.node) # {},
           \A x \in listed' : x \in listed \/ (IsLayer(x.node.name) /\ x.node.run \in Nat \cup {NoRun}),
           \A y \in AllLeaves : \E x \in pending' \cup listed' : y \in LeavesOf(x.node),
           \A x, y \in pending' : x # y => Apart(x, y),
           \A x \in pending', y \in listed' : Apart(x, y),
           \A x, y \in listed' : x # y => Apart(x, y)
    PROVE  TreeInv'
<1>1. \A node : LeavesOf(node)' = LeavesOf(node)
  BY LeavesSame
<1>2. \A x, y : Apart(x, y)' <=> Apart(x, y)
  BY <1>1 DEF Apart
<1>3. AllLeaves' = AllLeaves
  BY LeafNodesSame DEF AllLeaves, Same
<1>4. UNCHANGED <<layers, layout, reference, leaves>>
  BY DEF Same
<1>5. leaves' = Leaves(Visible)'
  BY <1>4 DEF TreeInv, Leaves, Visible
<1>6. \A x \in pending' : x.node = Root \/ LeavesOf(x.node)' # {}
  BY <1>1 DEF TreeInv
<1>7. \A x \in listed' : x.node.name \in leaves' /\ x.node.run \in Nat \cup {NoRun}
  BY <1>4 DEF TreeInv, IsLayer
<1>8. QED
  BY <1>1, <1>2, <1>3, <1>4, <1>5, <1>6, <1>7 DEF TreeInv, IsLayer

LEMMA LeafTree == ASSUME Inv, TreeInv, NEW x \in pending, Leaf(x) PROVE TreeInv'
<1>1. Same /\ pending' = pending \ {x} /\ Sublayers(x.node) = {}
  BY DEF Leaf, Same
<1>2. Shape /\ IsNode(x.node)
  BY DEF Inv, PendingInv
<1>3. CASE ~IsLayer(x.node.name)
  <2>1. listed' = listed /\ LeavesOf(x.node) = {}
    BY <1>1, <1>2, <1>3, NamespaceWithoutLeaves DEF Leaf
  <2>2. \A y \in AllLeaves : \E z \in pending' \cup listed' : y \in LeavesOf(z.node)
    BY <1>1, <2>1 DEF TreeInv
  <2>3. QED
    BY <1>1, <2>1, <2>2, TreeSame DEF TreeInv
<1>4. CASE IsLayer(x.node.name)
  <2> DEFINE z == [node |-> x.node, inh |-> Written(x.node, x.inh)]
  <2>1. listed' = listed \cup {z}
    BY <1>4 DEF Leaf
  <2>2. LeavesOf(z.node) = LeavesOf(x.node) /\ IsLayer(z.node.name) /\ z.node.run \in Nat \cup {NoRun}
    BY <1>2, <1>4 DEF IsNode
  <2> HIDE DEF z
  <2>3. \A y : Apart(x, y) => Apart(z, y) /\ Apart(y, z)
    BY <2>2 DEF Apart
  <2>4. \A y \in AllLeaves : \E v \in pending' \cup listed' : y \in LeavesOf(v.node)
    BY <1>1, <2>1, <2>2 DEF TreeInv
  <2>5. \A v, y \in pending' : v # y => Apart(v, y)
    BY <1>1 DEF TreeInv
  <2>6. \A v \in pending', y \in listed' : Apart(v, y)
    BY <1>1, <2>1, <2>3 DEF TreeInv
  <2>7. \A v, y \in listed' : v # y => Apart(v, y)
    BY <2>1, <2>3 DEF TreeInv
  <2>8. QED
    BY <1>1, <2>1, <2>2, <2>4, <2>5, <2>6, <2>7, TreeSame
<1>5. QED
  BY <1>3, <1>4

LEMMA BranchTree == ASSUME Inv, TreeInv, NEW x \in pending, Branch(x) PROVE TreeInv'
<1> DEFINE inh == Written(x.node, x.inh)
           under == Sublayers(x.node)
           added == UNION {{[node |-> m, inh |-> GroupHeader(g, inh)] : m \in g} : g \in Groups(under)}
<1>1. Same /\ pending' = (pending \ {x}) \cup added /\ listed' = listed /\ under # {}
  BY DEF Branch, Same
<1>2. Shape /\ IsNode(x.node) /\ leaves = Leaves(Visible)
  BY DEF Inv, PendingInv, TreeInv
<1>3. /\ \A m \in under : LeavesOf(m) # {} /\ LeavesOf(m) \subseteq LeavesOf(x.node)
      /\ \A y \in LeavesOf(x.node) : \E m \in under : y \in LeavesOf(m)
      /\ \A m, o \in under : m # o => LeavesOf(m) \cap LeavesOf(o) = {}
  BY <1>1, <1>2, SublayersPartition
<1>4. \A y \in added : \E g \in Groups(under) : \E m \in g : y = [node |-> m, inh |-> GroupHeader(g, inh)]
  OBVIOUS
<1>5. ASSUME NEW m \in under PROVE \E y \in added : y.node = m
  <2>1. PICK g \in Groups(under) : m \in g
    BY GroupsPartition
  <2>2. [node |-> m, inh |-> GroupHeader(g, inh)] \in added
    BY <2>1
  <2>3. QED
    BY <2>2
<1> HIDE DEF under, added, inh
<1>6. \A y \in added : y.node \in under
  BY <1>4, GroupsPartition
<1>7. \A y, z \in added : y.node = z.node => y = z
  BY <1>4, GroupsPartition
<1>8. \A y, z \in added : y # z => Apart(y, z)
  BY <1>3, <1>6, <1>7 DEF Apart
<1>9. \A y \in added : \A z : Apart(x, z) => Apart(y, z) /\ Apart(z, y)
  BY <1>3, <1>6 DEF Apart
<1>10. \A y \in AllLeaves : \E z \in pending' \cup listed' : y \in LeavesOf(z.node)
  <2>1. SUFFICES ASSUME NEW y \in LeavesOf(x.node) PROVE \E z \in added : y \in LeavesOf(z.node)
    BY <1>1 DEF TreeInv
  <2>2. QED
    BY <1>3, <1>5
<1>11. \A y, z \in pending' : y # z => Apart(y, z)
  BY <1>1, <1>8, <1>9 DEF TreeInv
<1>12. \A y \in pending', z \in listed' : Apart(y, z)
  BY <1>1, <1>9 DEF TreeInv
<1>13. \A y \in pending' : y \in pending \/ LeavesOf(y.node) # {}
  BY <1>1, <1>3, <1>6
<1>14. QED
  BY <1>1, <1>10, <1>11, <1>12, <1>13, TreeSame DEF TreeInv

THEOREM TreeInvariant == Spec => [](Inv /\ TreeInv)
<1>1. ASSUME Inv, TreeInv, UNCHANGED vars PROVE TreeInv'
  BY <1>1, TreeSame DEF vars, Same, TreeInv
<1>2. Inv /\ TreeInv /\ [Next]_vars => (Inv /\ TreeInv)'
  BY <1>1, LeafStep, BranchStep, Unchanged, LeafTree, BranchTree, NextNodeIsPending DEF Next
<1>3. QED
  BY InitInv, InitTree, <1>2, PTL DEF Spec

(* The recursion only reaches nodes of the tree that have leaves below     *)
(* them, but for the root of an empty tree, and writes no others than      *)
(* layers.                                                                 *)
THEOREM HierarchyTyped == Spec => []TypeOK
<1>1. Inv /\ TreeInv => TypeOK
  BY DEF Inv, Shape, TreeInv, TypeOK, IsLayer
<1>2. QED
  BY <1>1, TreeInvariant, PTL

(* However the names nest and whatever groups share: no layer is lost in   *)
(* the recursion and none is written twice.                                *)
THEOREM ListedOnce == Spec => []EachListedOnce
<1>1. ASSUME Inv, TreeInv PROVE EachListedOnce
  <2>1. ASSUME NEW n \in leaves
        PROVE  \E x \in pending \cup listed : n \in {y.name : y \in LeavesOf(x.node)}
    <3>1. PICK y \in LeafNodes(n) : TRUE
      BY LeafNodesNotEmpty
    <3>2. y \in AllLeaves /\ y.name = n
      BY <1>1, <3>1, LeafNodesAreNodes DEF AllLeaves, Inv
    <3>3. PICK x \in pending \cup listed : y \in LeavesOf(x.node)
      BY <1>1, <3>2 DEF TreeInv
    <3>4. QED
      BY <3>2, <3>3
  <2>2. \A x, y \in pending \cup listed : x # y => LeavesOf(x.node) \cap LeavesOf(y.node) = {}
    BY <1>1 DEF TreeInv, Apart
  <2>3. QED
    BY <2>1, <2>2 DEF EachListedOnce
<1>2. QED
  BY <1>1, TreeInvariant, PTL

-----------------------------------------------------------------------------
(* What is declared above a layer that does not have it *)

DeclaredKinds == {"time", "elevation"} \cap KindsRead

MostHave(k, name) ==
    LET with == {y \in LayersBelow(name) : Key(k, y) # Nothing}
    IN Cardinality(LayersBelow(name) \ with) < Cardinality(with)

Foreseen(k, n) == \E name \in Prefixes(n) \ {<<>>} : MostHave(k, name)

NotForeign(k, y, f) == DOMAIN f \subseteq DOMAIN Key(k, y) \/ Foreseen(k, y.name)

ForeignInv ==
    /\ \A x \in pending, k \in DeclaredKinds : \A y \in LeavesOf(x.node) :
          NotForeign(k, y, x.inh.declared[k])
    /\ \A x \in listed, k \in DeclaredKinds :
          IsNode(x.node) /\ NotForeign(k, x.node, x.inh.declared[k])

LEMMA KeyOfName ==
    ASSUME NEW k, NEW x, NEW y, x.name = y.name PROVE Key(k, x) = Key(k, y)
BY DEF Key

LEMMA NotForeignByName ==
    ASSUME NEW k, NEW x, NEW y, x.name = y.name, NEW f, NotForeign(k, x, f)
    PROVE  NotForeign(k, y, f)
BY KeyOfName DEF NotForeign

LEMMA NothingForeign == ASSUME NEW k, NEW y PROVE NotForeign(k, y, Nothing)
BY DEF NotForeign, Nothing

LEMMA OverNotForeign ==
    ASSUME NEW k, NEW y, NEW f, NEW g, NotForeign(k, y, f), NotForeign(k, y, g)
    PROVE  NotForeign(k, y, Over(f, g))
BY DEF NotForeign, Over

LEMMA DeclareNotForeign ==
    ASSUME NEW k \in DeclaredKinds, NEW y, NEW inh, NEW keys, NEW infos, NEW pm,
           NotForeign(k, y, inh.declared[k]), NotForeign(k, y, infos[k])
    PROVE  NotForeign(k, y, Declare(inh, keys, infos, pm).declared[k])
<1>1. Declare(inh, keys, infos, pm).declared[k] = Over(infos[k], inh.declared[k])
  BY DEF Declare, Inherited, DeclaredKinds, KindsRead
<1>2. QED
  BY <1>1, OverNotForeign

(* A layer writes only what it has. *)
LEMMA WrittenNotForeign ==
    ASSUME Shape, NEW node, IsNode(node), NEW inh, NEW k \in DeclaredKinds, NEW y,
           IsLayer(node.name) => y.name = node.name, NotForeign(k, y, inh.declared[k])
    PROVE  NotForeign(k, y, Written(node, inh).declared[k])
<1>1. CASE ~IsLayer(node.name)
  BY <1>1 DEF Written
<1>2. CASE IsLayer(node.name)
  <2> DEFINE infos == [q \in Kinds |-> Emit(q, node, inh)]
             keys == [q \in Kinds |-> IF Key(q, node) # Nothing THEN Key(q, node) ELSE inh.keys[q]]
  <2>1. k \in KindsRead /\ k \in Kinds
    BY DEF DeclaredKinds, KindsRead
  <2>2. infos[k] = Nothing \/ infos[k] = Key(k, node)
    BY <2>1, EmitIsKey
  <2>3. NotForeign(k, y, Key(k, node))
    BY <1>2, KeyOfName DEF NotForeign
  <2>4. NotForeign(k, y, infos[k])
    BY <2>2, <2>3, NothingForeign
  <2>5. Written(node, inh) = Declare(inh, keys, infos, Projections(node))
    BY <1>2 DEF Written
  <2> HIDE DEF infos, keys
  <2>6. QED
    BY <2>4, <2>5, DeclareNotForeign
<1>3. QED
  BY <1>1, <1>2

-----------------------------------------------------------------------------
(* The most common key of a node *)

LEMMA LeafNodesFinite ==
    ASSUME Shape, NEW n \in leaves PROVE IsFiniteSet(LeafNodes(n))
<1> DEFINE runs == DOMAIN layers[n].runs
           f == [r \in runs |-> Node(n, r)]
<1>1. layers[n] \in Attributes
  BY DEF Shape, Visible
<1>2. IsFiniteSet(runs)
  BY <1>1, AttributesAssumption DEF IsAttributes
<1>3. RunsOf(n) = {f[r] : r \in runs}
  BY DEF RunsOf
<1>4. f = [r \in runs |-> f[r]]
  OBVIOUS
<1> HIDE DEF runs, f
<1>5. IsFiniteSet(RunsOf(n))
  BY <1>2, <1>3, <1>4, FiniteImage
<1>6. QED
  BY <1>5, FS_Singleton DEF LeafNodes

LEMMA LeavesFinite ==
    ASSUME Shape, NEW node, IsNode(node) PROVE IsFiniteSet(LeavesOf(node))
<1>1. CASE node.run # NoRun
  BY <1>1, FS_Singleton DEF LeavesOf
<1>2. CASE node.run = NoRun /\ IsLayer(node.name)
  BY <1>2, LeafNodesFinite DEF LeavesOf, IsLayer
<1>3. CASE node.run = NoRun /\ ~IsLayer(node.name)
  <2> DEFINE below == {m \in leaves : Below(node.name, m)}
             f == [n \in below |-> LeafNodes(n)]
  <2>1. LeavesOf(node) = UNION {f[n] : n \in below}
    BY <1>3 DEF LeavesOf
  <2>2. IsFiniteSet(below)
    <3>1. below \in SUBSET Names
      BY LeafName
    <3>2. QED
      BY <3>1, NamesAssumption, FS_Subset
  <2>3. \A n \in below : IsFiniteSet(f[n])
    BY LeafNodesFinite
  <2>4. f = [n \in below |-> f[n]]
    OBVIOUS
  <2> HIDE DEF below, f
  <2>5. IsFiniteSet({f[n] : n \in below})
    BY <2>2, <2>4, FiniteImage
  <2>6. \A S \in {f[n] : n \in below} : IsFiniteSet(S)
    BY <2>3
  <2>7. QED
    BY <2>1, <2>5, <2>6, FS_UNION
<1>4. QED
  BY <1>1, <1>2, <1>3

LEMMA VotesAreNatural ==
    ASSUME Shape, NEW node, IsNode(node), NEW k, NEW key
    PROVE  /\ IsFiniteSet({x \in LeavesOf(node) : Key(k, x) = key})
           /\ Votes(k, node, key) \in Nat
<1>1. {x \in LeavesOf(node) : Key(k, x) = key} \in SUBSET LeavesOf(node)
  OBVIOUS
<1>2. IsFiniteSet({x \in LeavesOf(node) : Key(k, x) = key})
  BY <1>1, LeavesFinite, FS_Subset
<1>3. QED
  BY <1>2, FS_CardinalityType DEF Votes

(* Most leaves have a key when the most common key is one, and one of them *)
(* has that.                                                               *)
LEMMA MostCommonIs ==
    ASSUME Shape, NEW node, IsNode(node), LeavesOf(node) # {}, NEW k, MostCommon(k, node) # Nothing
    PROVE  /\ \E x \in LeavesOf(node) : Key(k, x) = MostCommon(k, node)
           /\ Votes(k, node, Nothing) < Votes(k, node, MostCommon(k, node))
<1> DEFINE keyOf == [x \in LeavesOf(node) |-> Key(k, x)]
           keys == {Key(k, x) : x \in LeavesOf(node)}
           votesOf == [key \in keys |-> Votes(k, node, key)]
           votes == {votesOf[key] : key \in keys}
           best == {key \in keys : \A other \in keys : Votes(k, node, other) <= Votes(k, node, key)}
<1>1. IsFiniteSet(keys) /\ keys # {}
  <2>1. keys = {keyOf[x] : x \in LeavesOf(node)} /\ keyOf = [x \in LeavesOf(node) |-> keyOf[x]]
    OBVIOUS
  <2> HIDE DEF keyOf, keys
  <2>2. IsFiniteSet(keys)
    BY <2>1, LeavesFinite, FiniteImage
  <2> USE DEF keys
  <2>3. QED
    BY <2>2
<1>2. MostCommon(k, node) = IF Nothing \in best THEN Nothing ELSE CHOOSE key \in best : TRUE
  BY DEF MostCommon
<1>3. \A key : Votes(k, node, key) \in Nat
  BY VotesAreNatural
<1>4. IsFiniteSet(votes) /\ votes \in SUBSET Nat /\ votes # {}
  <2>1. votesOf = [key \in keys |-> votesOf[key]]
    OBVIOUS
  <2>2. votes \in SUBSET Nat /\ votes # {}
    BY <1>1, <1>3
  <2> HIDE DEF keys, votesOf
  <2>3. IsFiniteSet(votes)
    BY <1>1, <2>1, FiniteImage
  <2>4. QED
    BY <2>2, <2>3
<1>5. PICK most \in votes : \A v \in votes : most >= v
  <2> HIDE DEF votes
  <2>1. QED
    BY <1>4, GreatestNatural
<1>6. PICK winner \in keys : Votes(k, node, winner) = most
  BY DEF votes
<1> HIDE DEF keys
<1>7. winner \in best
  <2>1. \A other \in keys : Votes(k, node, other) \in votes
    OBVIOUS
  <2> HIDE DEF votes
  <2>2. \A other \in keys : Votes(k, node, other) <= Votes(k, node, winner)
    BY <1>3, <1>5, <1>6, <2>1
  <2>3. QED
    BY <2>2
<1> HIDE DEF votes, votesOf
<1>8. MostCommon(k, node) \in best /\ Nothing \notin best
  BY <1>2, <1>7
<1>9. Votes(k, node, Nothing) < Votes(k, node, MostCommon(k, node))
  <2>1. CASE Nothing \in keys
    <3>1. PICK other \in keys : ~(Votes(k, node, other) <= Votes(k, node, Nothing))
      BY <1>8, <2>1
    <3>2. Votes(k, node, other) <= Votes(k, node, MostCommon(k, node))
      BY <1>8
    <3>3. QED
      BY <1>3, <3>1, <3>2
  <2>2. CASE Nothing \notin keys
    <3>1. {x \in LeavesOf(node) : Key(k, x) = Nothing} = {}
      BY <2>2 DEF keys
    <3>2. Votes(k, node, Nothing) = 0
      BY <3>1, FS_EmptySet DEF Votes
    <3>3. {x \in LeavesOf(node) : Key(k, x) = MostCommon(k, node)} # {}
      BY <1>8 DEF keys
    <3>4. Votes(k, node, MostCommon(k, node)) # 0
      BY <3>3, VotesAreNatural, FS_EmptySet DEF Votes
    <3>5. QED
      BY <1>3, <3>2, <3>4
  <2>3. QED
    BY <2>1, <2>2
<1>10. \E x \in LeavesOf(node) : Key(k, x) = MostCommon(k, node)
  BY <1>8 DEF keys
<1>11. QED
  BY <1>9, <1>10

-----------------------------------------------------------------------------
(* What a group declares: of its members, a layer has it, and a namespace  *)
(* has it in most of its layers.                                           *)

LEMMA NamespaceLeaves ==
    ASSUME Shape, NEW node, IsNode(node), ~IsLayer(node.name)
    PROVE  LeavesOf(node) = LayersBelow(node.name)
<1>1. node.run = NoRun
  BY DEF IsNode
<1>2. LeavesOf(node) = UNION {LeafNodes(n) : n \in {m \in leaves : Below(node.name, m)}}
  BY <1>1 DEF LeavesOf
<1>3. \A n \in leaves : \A x \in LeafNodes(n) : x.name = n
  BY LeafNodesAreNodes
<1>4. QED
  BY <1>2, <1>3 DEF LayersBelow

LEMMA MostLayersHave ==
    ASSUME Shape, NEW node, IsNode(node), ~IsLayer(node.name), LeavesOf(node) # {},
           NEW k, MostCommon(k, node) # Nothing
    PROVE  MostHave(k, node.name)
<1> DEFINE below == LeavesOf(node)
           with == {y \in below : Key(k, y) # Nothing}
           common == {y \in below : Key(k, y) = MostCommon(k, node)}
<1>1. /\ Votes(k, node, Nothing) < Votes(k, node, MostCommon(k, node))
      /\ Votes(k, node, Nothing) \in Nat /\ Votes(k, node, MostCommon(k, node)) \in Nat
  BY MostCommonIs, VotesAreNatural
<1>2. below \ with = {x \in LeavesOf(node) : Key(k, x) = Nothing}
  OBVIOUS
<1>3. Cardinality(below \ with) = Votes(k, node, Nothing)
  BY <1>2 DEF Votes
<1>4. Cardinality(common) = Votes(k, node, MostCommon(k, node))
  BY DEF Votes
<1>5. IsFiniteSet(with) /\ common \in SUBSET with
  <2>1. IsFiniteSet(below) /\ with \in SUBSET below
    BY LeavesFinite
  <2>2. IsFiniteSet(with)
    BY <2>1, FS_Subset
  <2>3. QED
    BY <2>2
<1>6. Cardinality(common) <= Cardinality(with) /\ Cardinality(with) \in Nat
  BY <1>5, FS_Subset, FS_CardinalityType
<1>7. Cardinality(below \ with) < Cardinality(with)
  BY <1>1, <1>3, <1>4, <1>6
<1>8. below = LayersBelow(node.name)
  BY NamespaceLeaves
<1>9. QED
  BY <1>7, <1>8 DEF MostHave

LEMMA BelowIsPrefix ==
    ASSUME NEW p \in Seq(STRING), NEW n \in Seq(STRING), Below(p, n) PROVE p \in Prefixes(n)
<1>1. Len(p) <= Len(n) /\ SubSeq(p, 1, Len(p)) = SubSeq(n, 1, Len(p)) /\ Len(p) \in 0..Len(n)
  BY LenProperties DEF Below, IsStrictPrefix, IsPrefix
<1>2. SubSeq(p, 1, Len(p)) = p
  BY SubSeqFull
<1>3. QED
  BY <1>1, <1>2 DEF Prefixes

LEMMA MemberHasIt ==
    ASSUME Shape, NEW group, NEW m \in group, \A n \in group : IsNode(n) /\ LeavesOf(n) # {},
           IsLayer(m.name) \/ m.name # <<>>,
           \A n, o \in group : GroupKeys(n) = GroupKeys(o),
           NEW k \in DeclaredKinds, Representatives(k, group) # {}, NEW y \in LeavesOf(m)
    PROVE  NotForeign(k, y, Key(k, Source(k, group)))
<1> DEFINE key == MostCommon(k, m)
<1>1. k \in GroupKinds /\ k # "geo"
  BY DEF DeclaredKinds, GroupKinds, Kinds
<1>2. \A n \in group : ChildKey(k, n) = key
  <2>1. \A n \in group : GroupKeys(n)[k] = ChildKey(k, n)
    BY <1>1 DEF GroupKeys
  <2>2. \A n \in group : ChildKey(k, n) = ChildKey(k, m)
    BY <2>1
  <2>3. QED
    BY <1>1, <2>2 DEF ChildKey
<1>3. \A x \in Representatives(k, group) :
         x.name \in Names /\ x.run \in Nat \cup {NoRun} /\ Key(k, x) = key /\ key # Nothing
  <2>1. ASSUME NEW n \in group, NEW x \in LeavesOf(n) PROVE x.name \in Names /\ x.run \in Nat \cup {NoRun}
    BY LeavesAreNodes, LeafName DEF IsNode
  <2>2. QED
    BY <1>2, <2>1 DEF Representatives
<1>4. Key(k, Source(k, group)) = key /\ key # Nothing
  BY <1>3, FirstIsOne DEF Source
<1>5. CASE IsLayer(m.name)
  <2>1. PICK x \in LeavesOf(m) : Key(k, x) = key
    BY <1>4, MostCommonIs
  <2>2. x.name = m.name /\ y.name = m.name
    BY <1>5, LayerNodeIs
  <2>3. Key(k, y) = key
    BY <2>1, <2>2, KeyOfName
  <2>4. QED
    BY <1>4, <2>3 DEF NotForeign
<1>6. CASE ~IsLayer(m.name)
  <2>1. MostHave(k, m.name)
    BY <1>4, <1>6, MostLayersHave
  <2>2. y.name \in leaves /\ Below(m.name, y.name)
    BY <1>6, NamespaceLeaves, LeavesAreNodes DEF LayersBelow
  <2>3. m.name \in Prefixes(y.name)
    BY <2>2, LeafName, BelowIsPrefix DEF IsNode
  <2>4. QED
    BY <1>6, <2>1, <2>3 DEF NotForeign, Foreseen
<1>7. QED
  BY <1>5, <1>6

LEMMA HeaderNotForeign ==
    ASSUME Shape, NEW group, NEW m \in group, \A n \in group : IsNode(n) /\ LeavesOf(n) # {},
           IsLayer(m.name) \/ m.name # <<>>,
           \A n, o \in group : GroupKeys(n) = GroupKeys(o),
           NEW k \in DeclaredKinds, NEW y \in LeavesOf(m), NEW inh,
           NotForeign(k, y, inh.declared[k])
    PROVE  NotForeign(k, y, GroupHeader(group, inh).declared[k])
<1>1. CASE ~NeedVirtualNode(group)
  BY <1>1 DEF GroupHeader
<1>2. CASE NeedVirtualNode(group)
  <2> DEFINE infos == [q \in Kinds |-> Hoist(q, group, inh)]
             keys == [q \in Kinds |-> IF infos[q] # Nothing THEN Key(q, Source(q, group)) ELSE inh.keys[q]]
  <2>1. k \in KindsRead /\ k \in Kinds
    BY DEF DeclaredKinds, KindsRead
  <2>2. \/ infos[k] = Nothing
        \/ Representatives(k, group) # {} /\ infos[k] = Info(k, Source(k, group))
    BY <2>1 DEF Hoist
  <2>3. infos[k] = Nothing => NotForeign(k, y, infos[k])
    BY NothingForeign
  <2>4. ASSUME Representatives(k, group) # {}, infos[k] = Info(k, Source(k, group))
        PROVE  NotForeign(k, y, infos[k])
    <3>1. infos[k] = Key(k, Source(k, group))
      BY <2>1, <2>4, SourceIsNode, InfoIsKey
    <3>2. QED
      BY <2>4, <3>1, MemberHasIt
  <2>5. GroupHeader(group, inh) = Declare(inh, keys, infos, SharedProjections(group))
    BY <1>2 DEF GroupHeader
  <2> HIDE DEF infos, keys
  <2>6. QED
    BY <2>2, <2>3, <2>4, <2>5, DeclareNotForeign
<1>3. QED
  BY <1>1, <1>2

LEMMA SublayerIsNamed ==
    ASSUME Shape, NEW node, IsNode(node), NEW m \in Sublayers(node)
    PROVE  IsLayer(m.name) \/ m.name # <<>>
<1>1. CASE IsLayer(node.name)
  BY <1>1, RunsAreNodes DEF Sublayers, IsLayer
<1>2. CASE ~IsLayer(node.name)
  <2>1. PICK p \in NextNames(node.name) : m = Node(p, NoRun)
    BY <1>2 DEF Sublayers
  <2>2. Len(p) = Len(node.name) + 1 /\ Len(node.name) \in Nat
    BY <2>1, LenProperties DEF NextNames, IsNode
  <2>3. m.name = p /\ Len(<<>>) = 0
    BY <2>1 DEF Node
  <2>4. QED
    BY <2>2, <2>3
<1>3. QED
  BY <1>1, <1>2

-----------------------------------------------------------------------------

LEMMA ForeignSame ==
    ASSUME Same, NEW k, NEW y, NEW f PROVE NotForeign(k, y, f)' <=> NotForeign(k, y, f)
<1>1. \A x : Key(k, x)' = Key(k, x)
  BY KeySame
<1>2. \A name : LayersBelow(name)' = LayersBelow(name)
  BY LeafNodesSame DEF LayersBelow, Same
<1>3. \A name : MostHave(k, name)' <=> MostHave(k, name)
  BY <1>1, <1>2 DEF MostHave
<1>4. QED
  BY <1>1, <1>3 DEF NotForeign, Foreseen

LEMMA StepForeign ==
    ASSUME ForeignInv, Same,
           \A x \in pending', k \in DeclaredKinds :
              x \in pending \/ \A y \in LeavesOf(x.node) : NotForeign(k, y, x.inh.declared[k]),
           \A x \in listed', k \in DeclaredKinds :
              x \in listed \/ (IsNode(x.node) /\ NotForeign(k, x.node, x.inh.declared[k]))
    PROVE  ForeignInv'
<1>1. DeclaredKinds' = DeclaredKinds
  BY KindsSame DEF DeclaredKinds
<1>2. \A x \in pending', k \in DeclaredKinds : \A y \in LeavesOf(x.node)' :
         NotForeign(k, y, x.inh.declared[k])'
  BY LeavesSame, ForeignSame DEF ForeignInv
<1>3. \A x \in listed', k \in DeclaredKinds :
         IsNode(x.node)' /\ NotForeign(k, x.node, x.inh.declared[k])'
  BY IsNodeSame, ForeignSame DEF ForeignInv
<1>4. QED
  BY <1>1, <1>2, <1>3 DEF ForeignInv

LEMMA InitForeign == Init => ForeignInv
<1>1. \A k \in DeclaredKinds : NothingInherited.declared[k] = Nothing
  BY DEF NothingInherited, Inherited, DeclaredKinds, KindsRead
<1>2. QED
  BY <1>1, NothingForeign DEF Init, ForeignInv

LEMMA LeafForeign ==
    ASSUME Inv, TreeInv, ForeignInv, NEW x \in pending, Leaf(x) PROVE ForeignInv'
<1>1. Same /\ pending' = pending \ {x} /\ Shape /\ IsNode(x.node)
  BY DEF Leaf, Same, Inv, PendingInv
<1>2. ASSUME NEW z \in listed', z \notin listed, NEW k \in DeclaredKinds
      PROVE  IsNode(z.node) /\ NotForeign(k, z.node, z.inh.declared[k])
  <2>1. IsLayer(x.node.name) /\ z = [node |-> x.node, inh |-> Written(x.node, x.inh)]
    BY <1>2 DEF Leaf
  <2>2. PICK y \in LeavesOf(x.node) : TRUE
    BY <1>1, <2>1, LeafHasItself DEF Leaf
  <2>3. y.name = x.node.name
    BY <1>1, <2>1, LayerNodeIs
  <2>4. NotForeign(k, x.node, x.inh.declared[k])
    BY <2>3, NotForeignByName DEF ForeignInv
  <2>5. QED
    BY <1>1, <2>1, <2>4, WrittenNotForeign
<1>3. QED
  BY <1>1, <1>2, StepForeign

LEMMA BranchForeign ==
    ASSUME Inv, TreeInv, ForeignInv, NEW x \in pending, Branch(x) PROVE ForeignInv'
<1> DEFINE inh == Written(x.node, x.inh)
           under == Sublayers(x.node)
           added == UNION {{[node |-> m, inh |-> GroupHeader(g, inh)] : m \in g} : g \in Groups(under)}
<1>1. Same /\ pending' = (pending \ {x}) \cup added /\ listed' = listed /\ under # {}
  BY DEF Branch, Same
<1>2. Shape /\ IsNode(x.node) /\ leaves = Leaves(Visible)
  BY DEF Inv, PendingInv, TreeInv
<1>3. \A m \in under : /\ IsNode(m) /\ LeavesOf(m) # {} /\ LeavesOf(m) \subseteq LeavesOf(x.node)
                       /\ IsLayer(m.name) \/ m.name # <<>>
  BY <1>1, <1>2, SublayersPartition, SublayersAreNodes, SublayerIsNamed
<1>4. ASSUME NEW y \in LeavesOf(x.node), NEW k \in DeclaredKinds
      PROVE  NotForeign(k, y, inh.declared[k])
  <2>1. IsLayer(x.node.name) => y.name = x.node.name
    BY <1>2, LayerNodeIs
  <2>2. NotForeign(k, y, x.inh.declared[k])
    BY DEF ForeignInv
  <2>3. QED
    BY <1>2, <2>1, <2>2, WrittenNotForeign
<1>5. \A z \in added : \E g \in Groups(under) : \E m \in g : z = [node |-> m, inh |-> GroupHeader(g, inh)]
  OBVIOUS
<1> HIDE DEF under, added, inh
<1>6. ASSUME NEW z \in added, NEW k \in DeclaredKinds, NEW y \in LeavesOf(z.node)
      PROVE  NotForeign(k, y, z.inh.declared[k])
  <2>1. PICK g \in Groups(under) : \E m \in g : z = [node |-> m, inh |-> GroupHeader(g, inh)]
    BY <1>5
  <2>2. PICK m \in g : z = [node |-> m, inh |-> GroupHeader(g, inh)]
    BY <2>1
  <2>3. g \subseteq under /\ z.node = m /\ z.inh = GroupHeader(g, inh)
    BY <2>2, GroupsPartition
  <2>4. \A n, o \in g : GroupKeys(n) = GroupKeys(o)
    BY DEF Groups
  <2>5. NotForeign(k, y, inh.declared[k]) /\ y \in LeavesOf(m)
    BY <1>3, <1>4, <2>3
  <2>6. NotForeign(k, y, GroupHeader(g, inh).declared[k])
    BY <1>2, <1>3, <2>3, <2>4, <2>5, HeaderNotForeign
  <2>7. QED
    BY <2>3, <2>6
<1>7. QED
  BY <1>1, <1>6, StepForeign

(* The times or levels declared for a group are those of its layers, and   *)
(* of most layers of each namespace in it: only the exceptions of such a   *)
(* namespace, at some level above them, are read to have what they have    *)
(* not.                                                                    *)
THEOREM OthersOnlyByMajority == Spec => []ForeignOnlyByMajority
<1>1. ASSUME Inv, TreeInv, ForeignInv, UNCHANGED vars PROVE ForeignInv'
  BY <1>1, StepForeign DEF vars, Same
<1>2. Inv /\ TreeInv /\ ForeignInv /\ [Next]_vars => ForeignInv'
  BY <1>1, LeafForeign, BranchForeign, NextNodeIsPending DEF Next
<1>3. ASSUME ForeignInv, NEW x \in listed, NEW k \in DeclaredKinds,
             ~(DOMAIN Read(k, x) \subseteq DOMAIN Own(k, x))
      PROVE  \E name \in Prefixes(x.node.name) \ {<<>>} : MostHave(k, name)
  <2>1. IsNode(x.node) /\ NotForeign(k, x.node, Read(k, x)) /\ k \in KindsRead
    BY <1>3 DEF ForeignInv, Read, DeclaredKinds
  <2>2. Own(k, x) = Key(k, x.node)
    BY <2>1, InfoIsKey DEF Own
  <2>3. QED
    BY <1>3, <2>1, <2>2 DEF NotForeign, Foreseen
<1>4. ForeignInv => ForeignOnlyByMajority
  BY <1>3 DEF ForeignOnlyByMajority, DeclaredKinds, MostHave
<1>5. QED
  BY InitForeign, <1>2, <1>4, TreeInvariant, PTL DEF Spec

=============================================================================
