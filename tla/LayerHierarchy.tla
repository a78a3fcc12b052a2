--------------------------- MODULE LayerHierarchy ---------------------------
(***************************************************************************)
(* The layers of a capabilities document: LayerHierarchy of ogc/.          *)
(*                                                                         *)
(* A document lists the layers as the tree of their names (recursive), or  *)
(* with a sublayer for each origin time too (recursivetimes).  What the    *)
(* layers of a group share is declared once, above them, and a layer       *)
(* leaves out what has been declared.  A client reads the document as WMS  *)
(* says: a layer has what it declares, and all else that is declared above *)
(* it.  A flat document is not made here: Config::getCapabilities lists    *)
(* each layer with all that it has.                                        *)
(*                                                                         *)
(* The recursion of add_layer_info is the set pending: of each node still  *)
(* to be written, what the code holds to be declared above it, and what    *)
(* has been declared there.                                                *)
(***************************************************************************)
EXTENDS Integers, FiniteSetsExt, SequencesExt

CONSTANTS
    Names,            \* of layers: the parts that ':' separates
    Position,         \* in which order the leaves of the tree come
    Attributes,       \* what a layer may have, see IsAttributes
    Absent,           \* no layer of that name, or one that is left out
    Layouts,          \* the layouts asked for
    References        \* the reference times asked for, NoRun for none

NoRun == -1

Nothing == <<>>       \* a function that is defined nowhere

(* What a layer and the nodes above it declare, piece by piece *)
Kinds == {"geo", "time", "interval", "elevation"}

(* All are functions, of the names of what is declared.  runs are the time *)
(* dimensions, as far as capabilities show them: the steps of each origin  *)
(* time, NoRun alone if the data has none.                                 *)
IsAttributes(a) ==
    /\ DOMAIN a.geo \subseteq {"geo"}
    /\ DOMAIN a.interval \subseteq {"interval_start", "interval_end"}
    /\ DOMAIN a.elevation \subseteq {"elevation"}
    /\ DOMAIN a.runs \subseteq Nat \/ DOMAIN a.runs = {NoRun}
    /\ IsFiniteSet(DOMAIN a.runs)
    /\ IsFiniteSet(DOMAIN a.crs)

ASSUME NamesAssumption == Names \subseteq Seq(STRING) \ {<<>>} /\ IsFiniteSet(Names)

ASSUME PositionAssumption ==
    /\ \A n \in Names : Position[n] \in Nat
    /\ \A m, n \in Names : Position[m] = Position[n] => m = n

ASSUME AttributesAssumption == Absent \notin Attributes /\ \A a \in Attributes : IsAttributes(a)

ASSUME LayoutsAssumption == Layouts \subseteq {"recursive", "recursivetimes"}

ASSUME ReferencesAssumption == References \subseteq Nat \cup {NoRun}

VARIABLES
    layers,        \* the map that is listed
    layout, reference,
    leaves,        \* the layers of the tree
    pending,       \* the calls of add_layer_info that are still to be made
    listed         \* the leaves written, and what a client reads of each

vars == <<layers, layout, reference, leaves, pending, listed>>

-----------------------------------------------------------------------------
(* The tree: processLayers, add_sublayers, expand_layer, get_leaf_layers *)

Node(name, run) == [name |-> name, run |-> run]

Root == Node(<<>>, NoRun)

Visible == {n \in Names : layers[n] # Absent}

Below(name, other) == IsStrictPrefix(name, other)

(* A name with others below it is a namespace only, even when it is a layer. *)
Leaves(visible) == {n \in visible : ~\E m \in visible : Below(n, m)}

IsLayer(name) == name \in leaves

Expanded(name) ==
    layout = "recursivetimes" /\ IsLayer(name) /\ Cardinality(DOMAIN layers[name].runs) > 1

RunsOf(name) == {Node(name, r) : r \in DOMAIN layers[name].runs}

LeafNodes(name) == IF Expanded(name) THEN RunsOf(name) ELSE {Node(name, NoRun)}

LeavesOf(node) ==
    IF node.run # NoRun THEN {node}
    ELSE IF IsLayer(node.name) THEN LeafNodes(node.name)
    ELSE UNION {LeafNodes(n) : n \in {m \in leaves : Below(node.name, m)}}

(* The names that are one part longer than that of a namespace *)
NextNames(name) ==
    {p \in UNION {Prefixes(n) : n \in leaves} : Below(name, p) /\ Len(p) = Len(name) + 1}

Sublayers(node) ==
    IF node.run # NoRun THEN {}
    ELSE IF IsLayer(node.name) THEN IF Expanded(node.name) THEN RunsOf(node.name) ELSE {}
    ELSE {Node(n, NoRun) : n \in NextNames(node.name)}

Before(x, y) ==
    \/ Position[x.name] < Position[y.name]
    \/ x.name = y.name /\ x.run <= y.run

First(nodes) == CHOOSE x \in nodes : \A y \in nodes : Before(x, y)

-----------------------------------------------------------------------------
(* Keys: what add_layer_info compares; Info: what it writes *)

TimesOf(a, run) == [time |-> a.runs[run], reference_time |-> {run}]

(* getTimeDimensionInfo of the newest run, without the request's own limits *)
DefaultTimes(a) ==
    LET runs == DOMAIN a.runs IN
    IF runs = {} THEN Nothing
    ELSE IF a.runs[Max(runs)] = {} THEN Nothing
    ELSE IF runs = {NoRun} THEN [time |-> a.runs[NoRun]]
    ELSE [time |-> a.runs[Max(runs)], reference_time |-> runs]

Key(kind, node) ==
    LET a == layers[node.name] IN
    CASE kind = "geo" -> a.geo
      [] kind = "time" -> DefaultTimes(a)
      [] kind = "interval" -> a.interval
      [] kind = "elevation" -> a.elevation

(* The origin time of a sublayer, or else that of the request *)
RunShown(node) == IF node.run # NoRun THEN node.run ELSE reference

TimeInfo(node) ==
    LET a == layers[node.name]
        run == RunShown(node)
    IN IF run = NoRun THEN DefaultTimes(a)
       ELSE IF run \notin DOMAIN a.runs THEN Nothing
       ELSE IF a.runs[run] = {} THEN Nothing
       ELSE TimesOf(a, run)

Info(kind, node) == IF kind = "time" THEN TimeInfo(node) ELSE Key(kind, node)

Projections(node) == layers[node.name].crs

(* What is declared hides what has been declared above. *)
Over(f, g) == [x \in DOMAIN f \cup DOMAIN g |-> IF x \in DOMAIN f THEN f[x] ELSE g[x]]

OnlyAt(f, S) == [x \in DOMAIN f \cap S |-> f[x]]

(* InheritedState, and with it what has been declared *)
Inherited(keys, crs, declared, declaredCrs) ==
    [keys |-> keys, crs |-> crs, declared |-> declared, declaredCrs |-> declaredCrs]

NothingInherited ==
    Inherited([k \in Kinds |-> Nothing], Nothing, [k \in Kinds |-> Nothing], Nothing)

(* emit_proj_delta *)
NewProjections(pm, inh) ==
    OnlyAt(pm, {c \in DOMAIN pm : ~(c \in DOMAIN inh.crs /\ inh.crs[c] = pm[c])})

(* The tree below, when a node declares those infos, of which it takes     *)
(* note under those keys, and those projections                            *)
Declare(inh, keys, infos, pm) ==
    Inherited(keys, Over(pm, inh.crs), [k \in Kinds |-> Over(infos[k], inh.declared[k])],
              Over(NewProjections(pm, inh), inh.declaredCrs))

-----------------------------------------------------------------------------
(* One node: emit_geo, emit_time, emit_interval, emit_elev *)

(* Faulty: the interval is left out when the times are those declared. *)
EmitIntervalWithTime(kind, node, inh) ==
    LET compared == IF kind = "interval" THEN "time" ELSE kind IN
    IF Key(compared, node) # Nothing /\ Key(compared, node) = inh.keys[compared] THEN Nothing
    ELSE IF kind = "time" /\ Expanded(node.name) /\ node.run = NoRun
    THEN OnlyAt([reference_time |-> DOMAIN layers[node.name].runs],
                IF DOMAIN layers[node.name].runs = {NoRun} THEN {} ELSE {"reference_time"})
    ELSE Info(kind, node)

Emit(kind, node, inh) ==
    IF Key(kind, node) # Nothing /\ Key(kind, node) = inh.keys[kind] THEN Nothing
    ELSE IF kind = "time" /\ Expanded(node.name) /\ node.run = NoRun
    THEN OnlyAt([reference_time |-> DOMAIN layers[node.name].runs],
                IF DOMAIN layers[node.name].runs = {NoRun} THEN {} ELSE {"reference_time"})
    ELSE Info(kind, node)

(* A namespace declares nothing itself. *)
Written(node, inh) ==
    IF ~IsLayer(node.name) THEN inh
    ELSE Declare(inh,
                 [k \in Kinds |-> IF Key(k, node) # Nothing THEN Key(k, node) ELSE inh.keys[k]],
                 [k \in Kinds |-> Emit(k, node, inh)],
                 Projections(node))

-----------------------------------------------------------------------------
(* Groups of siblings: group_children and emit_group *)

Votes(kind, child, key) == Cardinality({x \in LeavesOf(child) : Key(kind, x) = key})

(* The most common key, Nothing if it is one of several *)
MostCommon(kind, child) ==
    LET keys == {Key(kind, x) : x \in LeavesOf(child)}
        best == {k \in keys : \A other \in keys : Votes(kind, child, other) <= Votes(kind, child, k)}
    IN IF Nothing \in best THEN Nothing ELSE CHOOSE k \in best : TRUE

(* The only key; leaves without one do not count before the first with one. *)
Unanimous(kind, child) ==
    LET some == {x \in LeavesOf(child) : Key(kind, x) # Nothing}
    IN IF some = {} THEN Nothing
       ELSE LET g == Key(kind, First(some))
            IN IF \A x \in LeavesOf(child) : Before(First(some), x) => Key(kind, x) = g THEN g
               ELSE Nothing

ChildKey(kind, child) ==
    IF kind = "geo" THEN Unanimous(kind, child) ELSE MostCommon(kind, child)

(* Members of a group have these in common, but not the interval. *)
GroupKinds == Kinds \ {"interval"}

(* Faulty: members of a group may have different levels. *)
GroupKeysWithoutElevation(child) == [k \in GroupKinds \ {"elevation"} |-> ChildKey(k, child)]

GroupKeys(child) == [k \in GroupKinds |-> ChildKey(k, child)]

(* Faulty: a sublayer that shares nothing with another is left out. *)
GroupsOfSeveral(siblings) ==
    LET keys == {GroupKeys(s) : s \in siblings}
    IN {g \in {{s \in siblings : GroupKeys(s) = key} : key \in keys} : Cardinality(g) > 1}

Groups(siblings) ==
    LET keys == {GroupKeys(s) : s \in siblings}
    IN {{s \in siblings : GroupKeys(s) = key} : key \in keys}

(* The leaves, and not the members, which may have no dimensions of their  *)
(* own, that stand for what is shared.  The first one is taken, also of    *)
(* the intervals, which the members need not have in common.               *)
Representatives(kind, group) ==
    UNION {{x \in LeavesOf(m) : ChildKey(kind, m) # Nothing /\ Key(kind, x) = ChildKey(kind, m)} :
              m \in group}

Source(kind, group) == First(Representatives(kind, group))

(* Faulty: the projections of one leaf are taken for those of all. *)
ProjectionsOfOne(group) == Projections(CHOOSE x \in UNION {LeavesOf(m) : m \in group} : TRUE)

SharedProjections(group) ==
    LET below == UNION {LeavesOf(m) : m \in group}
        pm == Projections(CHOOSE x \in below : TRUE)
    IN OnlyAt(pm, {c \in DOMAIN pm : \A x \in below :
                      c \in DOMAIN Projections(x) /\ Projections(x)[c] = pm[c]})

NeedVirtualNode(group) ==
    /\ Cardinality(group) > 1
    /\ \/ \E k \in GroupKinds : Representatives(k, group) # {}
       \/ SharedProjections(group) # Nothing

Hoist(kind, group, inh) ==
    IF Representatives(kind, group) = {} THEN Nothing
    ELSE IF Key(kind, Source(kind, group)) = inh.keys[kind] THEN Nothing
    ELSE Info(kind, Source(kind, group))

(* A key is inherited only if something has been written for it. *)
GroupHeader(group, inh) ==
    IF ~NeedVirtualNode(group) THEN inh
    ELSE LET infos == [k \in Kinds |-> Hoist(k, group, inh)]
         IN Declare(inh,
                    [k \in Kinds |-> IF infos[k] # Nothing THEN Key(k, Source(k, group))
                                     ELSE inh.keys[k]],
                    infos, SharedProjections(group))

-----------------------------------------------------------------------------

Init ==
    /\ layers \in [Names -> Attributes \cup {Absent}]
    /\ layout \in Layouts
    /\ reference \in References
    /\ leaves = Leaves(Visible)
    /\ pending = {[node |-> Root, inh |-> NothingInherited]}
    /\ listed = {}

(* Faulty: a root without sublayers is listed as a layer. *)
LeafOfAnyNode(x) ==
    /\ Sublayers(x.node) = {}
    /\ pending' = pending \ {x}
    /\ listed' = listed \cup {[node |-> x.node, inh |-> Written(x.node, x.inh)]}
    /\ UNCHANGED <<layers, layout, reference, leaves>>

Leaf(x) ==
    /\ Sublayers(x.node) = {}
    /\ pending' = pending \ {x}
    /\ listed' = listed \cup (IF IsLayer(x.node.name)
                              THEN {[node |-> x.node, inh |-> Written(x.node, x.inh)]} ELSE {})
    /\ UNCHANGED <<layers, layout, reference, leaves>>

Branch(x) ==
    /\ Sublayers(x.node) # {}
    /\ LET inh == Written(x.node, x.inh) IN
       pending' = (pending \ {x}) \cup
                     UNION {{[node |-> m, inh |-> GroupHeader(g, inh)] : m \in g} :
                               g \in Groups(Sublayers(x.node))}
    /\ UNCHANGED <<layers, layout, reference, leaves, listed>>

(* Nodes write to different parts of the document: it does not matter      *)
(* which of them is the next.                                              *)
NextNode == CHOOSE x \in pending : TRUE

Next == pending # {} /\ (Leaf(NextNode) \/ Branch(NextNode))

Spec == Init /\ [][Next]_vars

-----------------------------------------------------------------------------

(* What a layer has, and what a client reads of it *)
Own(kind, x) == Info(kind, x.node)

Read(kind, x) == x.inh.declared[kind]

TypeOK ==
    /\ layers \in [Names -> Attributes \cup {Absent}]
    /\ layout \in Layouts /\ reference \in References
    /\ \A x \in pending : x.node = Root \/ LeavesOf(x.node) # {}
    /\ \A x \in listed : x.node.name \in leaves /\ x.node.run \in Nat \cup {NoRun}

(* The times announced are those of the newest run for all layers. *)
NewestRuns == reference = NoRun /\ layout # "recursivetimes"

(* g says what f says. *)
Agrees(f, g) == \A d \in DOMAIN f : d \in DOMAIN g /\ g[d] = f[d]

KindsRead == Kinds \ (IF NewestRuns THEN {} ELSE {"time"})

(* What a layer has is what a client reads of it, whatever its neighbours  *)
(* have and the group above it declares: the intervals, times or extents   *)
(* of the most of them, or of the first, never stand in for its own.       *)
(* Where the code compares the newest run and writes another one, this is  *)
(* not so of the times.                                                    *)
ReadAsItIs ==
    \A x \in listed :
        /\ \A k \in KindsRead : Agrees(Own(k, x), Read(k, x))
        /\ Agrees(Projections(x.node), x.inh.declaredCrs)

(* A client reads of no projection that a layer has not, although a group  *)
(* declares projections for all of its members at once.                    *)
NoForeignProjection == \A x \in listed : Agrees(x.inh.declaredCrs, Projections(x.node))

LayersBelow(name) == {x \in UNION {LeafNodes(n) : n \in leaves} : Below(name, x.name)}

(* A client reads of a layer times or levels that it does not have only    *)
(* where most layers of one of its namespaces have them: what a group of   *)
(* namespaces and layers shares does not reach a layer that it is not      *)
(* true of, but for those that a namespace takes to be the exception.      *)
ForeignOnlyByMajority ==
    \A x \in listed, k \in {"time", "elevation"} \cap KindsRead :
        ~(DOMAIN Read(k, x) \subseteq DOMAIN Own(k, x)) =>
            \E name \in Prefixes(x.node.name) \ {<<>>} :
                LET with == {y \in LayersBelow(name) : Key(k, y) # Nothing}
                IN Cardinality(LayersBelow(name) \ with) < Cardinality(with)

(* No layer is lost or written twice on the way, except one whose name is  *)
(* a namespace.                                                            *)
EachListedOnce ==
    /\ \A n \in leaves : \E x \in pending \cup listed : n \in {y.name : y \in LeavesOf(x.node)}
    /\ \A x, y \in pending \cup listed :
          x # y => LeavesOf(x.node) \cap LeavesOf(y.node) = {}

=============================================================================
