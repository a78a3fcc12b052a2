--------------------------- MODULE LayerRequests ---------------------------
(***************************************************************************)
(* Requests for layers, from their first check to the product that is      *)
(* drawn: GetTile of WMTS and of OGC API Tiles, and GetMap of WMS, while   *)
(* the update thread publishes other layers (LayerRegistry).               *)
(*                                                                         *)
(* A request holds no map of its own.  Each function of WMS::Config that   *)
(* it calls loads the published map, most of them twice: isValidLayerImpl  *)
(* finds the layer in one map, and my_layers->at looks it up in another.   *)
(* The next action of a request is the head of its todo.                   *)
(*                                                                         *)
(* A WMTS client puts the values of dimensions in the path, in the order   *)
(* of a capabilities document it has read.  The handler pairs them with    *)
(* the names it found at the first such request and keeps for ever.        *)
(***************************************************************************)
EXTENDS Integers, FiniteSetsExt, SequencesExt

CONSTANTS
    Clients,          \* each reads capabilities or sends one request at a time
    Layers,           \* names of layers
    CustomerOf,       \* the customer in whose directory a layer's file is
    VersionsOf,       \* what may be published under each name
    Absent,           \* no layer of that name
    Requests,         \* what is asked, beside tiles with dimensions in the path
    MaxChanges        \* bound on publications and steps of the clock, together

NotADateTime == -1

Default == "default"

Dimensions == {"time", "reference_time", "elevation"}

Fronts == {"wmts", "tiles", "map"}

(* What of a layer the requests ask.  runs are the time dimensions: the    *)
(* steps of each reference time, which is NotADateTime alone when the data *)
(* has none, and no run at all is a layer without time.                    *)
IsVersion(m) ==
    /\ m.hidden \in BOOLEAN
    /\ DOMAIN m.runs \subseteq Nat \/ DOMAIN m.runs = {NotADateTime}
    /\ IsFiniteSet(DOMAIN m.runs)
    /\ \A r \in DOMAIN m.runs : m.runs[r] \in (SUBSET Nat) \ {{}} /\ IsFiniteSet(m.runs[r])
    /\ m.untilNow \in BOOLEAN       \* observations: valid until the wall clock time
    /\ m.shown \in Nat              \* capabilities_start: how far back they list times
    /\ m.levels \subseteq Nat       \* of the elevation dimension, none without it
    /\ m.levelTyped \in BOOLEAN     \* their type is not kFmiNoLevelType
    /\ Default \notin m.styles

(* time, reference and elevation are the parameters, -1 when not given. *)
IsRequest(r) ==
    /\ r.front \in Fronts
    /\ r.layers \in Seq(Layers) /\ r.layers # <<>>
    /\ r.front # "map" => Len(r.layers) = 1
    /\ r.path \in Seq(Dimensions)  \* what each value in the path is meant for
    /\ r.time \in Nat \cup {NotADateTime}
    /\ r.reference \in Nat \cup {NotADateTime}
    /\ r.elevation \in Nat \cup {-1}

ASSUME VersionsAssumption ==
    \A l \in Layers : Absent \notin VersionsOf[l] /\ \A m \in VersionsOf[l] : IsVersion(m)

ASSUME CustomersAssumption == \A l \in Layers : CustomerOf[l] # ""

ASSUME RequestsAssumption == \A r \in Requests : IsRequest(r) /\ r.path = <<>>

ASSUME MaxChangesAssumption == MaxChanges \in Nat

ASSUME AbsentAssumption ==
    /\ Absent \notin Seq(Dimensions) \cup Nat \cup {NotADateTime}
    /\ \A given \in SUBSET (Dimensions \X Dimensions) : given # Absent

VARIABLES
    layers,        \* the published map
    changes,       \* of the map and of the clock, so far
    now,           \* the clock
    dimNames,      \* itsDimNamesCache: the names found for a layer, or none yet
    advertised,    \* the dimensions of the layer each client has read of
    request,       \* what each client asks
    todo,          \* the calls its request has to make
    found,         \* isValidLayerImpl of the first of them has found the layer
    names,         \* orderedDimensionNames: the names collected, before they are stored
    reply,         \* what is known of the product, and how the request ended
    \* what has been, for the properties
    dimsEver,      \* all dimensions each layer has had, Absent when it was not listed
    steady,        \* the layers have had all that is asked since it was
    ever,          \* what of it each layer has had at some moment since
    current        \* the current time of the last layer, at any moment since

published == <<layers, changes, now>>
history == <<dimsEver, steady, ever, current>>
vars == <<published, dimNames, advertised, request, todo, found, names, reply, history>>

-----------------------------------------------------------------------------
(* The dimensions of a layer *)

isTemporal(m) == DOMAIN m.runs # {}

DefaultRun(m) == m.runs[Max(DOMAIN m.runs)]

(* Faulty: the last time of the range is not valid. *)
InRangeHalfOpen(steps, t, m, clock) ==
    Min(steps) <= t /\ t < (IF m.untilNow THEN clock ELSE Max(steps))

(* Any time within the range, TimeDimension::isValidTime *)
InRange(steps, t, m, clock) == Min(steps) <= t /\ t <= (IF m.untilNow THEN clock ELSE Max(steps))

isValidReferenceTime(m, reference) == isTemporal(m) => reference \in DOMAIN m.runs

isValidTime(m, t, reference, clock) ==
    isTemporal(m) =>
        IF reference = NotADateTime THEN InRange(DefaultRun(m), t, m, clock)
        ELSE reference \in DOMAIN m.runs /\ InRange(m.runs[reference], t, m, clock)

isValidElevation(m, elevation) == m.levels # {} => elevation \in m.levels

(* The step closest to the clock, the earlier one of two, *)
(* StepTimeDimension's mostCurrentTime                    *)
Nearest(steps, clock) ==
    LET Distance(t) == IF t < clock THEN clock - t ELSE t - clock
    IN Min({t \in steps : \A other \in steps : Distance(t) <= Distance(other)})

mostCurrentTime(m, reference, clock) ==
    IF ~isTemporal(m) THEN NotADateTime
    ELSE IF reference = NotADateTime THEN Nearest(DefaultRun(m), clock)
    ELSE Nearest(m.runs[reference], clock)

(* The times that getLimitedCapabilitiesInterval leaves *)
ListedTimes(m, clock) == {t \in DefaultRun(m) : t >= clock - m.shown}

When(condition, name) == IF condition THEN <<name>> ELSE <<>>

HasReferenceTimes(m) == DOMAIN m.runs # {NotADateTime}

(* generateGetCapabilities leaves a layer out, or lists its dimensions and *)
(* the WMTS handler puts them in the path of the tiles in that order.      *)
Listed(m, clock) == ~m.hidden /\ (isTemporal(m) => ListedTimes(m, clock) # {})

AdvertisedTimes(m) ==
    When(isTemporal(m), "time") \o When(isTemporal(m) /\ HasReferenceTimes(m), "reference_time")

(* They list any levels, also a single level 0 and levels without a type. *)
AdvertisedDimensions(m) == AdvertisedTimes(m) \o When(m.levels # {}, "elevation")

(* Faulty: the reference time is forgotten. *)
TimeDimensionOnly(m, clock) == IF m.hidden \/ ~isTemporal(m) THEN <<>> ELSE <<"time">>

(* getTimeDimensionInfo and getElevationDimensionInfo *)
TimeDimensionInfo(m, clock) ==
    IF m.hidden \/ ~isTemporal(m) THEN <<>>
    ELSE IF ListedTimes(m, clock) = {} THEN <<>>
    ELSE <<"time">> \o When(HasReferenceTimes(m), "reference_time")

(* ElevationDimension::isOK *)
isOK(m) == m.levels \notin {{}, {0}} /\ m.levelTyped

ElevationDimensionInfo(m) == When(~m.hidden /\ isOK(m), "elevation")

-----------------------------------------------------------------------------
(* What the properties remember of the published layers *)

LastLayer(r) == Last(r.layers)

IsPublished(m) == m # Absent

CurrentTimes(m, r, clock) ==
    LET reference == IF r.front = "map" THEN r.reference ELSE NotADateTime
    IN IF IsPublished(m) /\ (isTemporal(m) => reference \in DOMAIN m.runs \cup {NotADateTime})
       THEN {mostCurrentTime(m, reference, clock)}
       ELSE {NotADateTime}

(* The names a layer is listed with, and whether it has levels that the   *)
(* handler looks at                                                        *)
DimensionsOf(m, clock) ==
    IF IsPublished(m) /\ Listed(m, clock)
    THEN [times |-> AdvertisedTimes(m), elevation |-> isOK(m)] ELSE Absent

Given(r) ==
    (IF r.time # NotADateTime THEN {"time"} ELSE {})
        \cup (IF r.reference # NotADateTime THEN {"reference_time"} ELSE {})
        \cup (IF r.elevation # -1 THEN {"elevation"} ELSE {})

(* What the handler of a request has to check of its layers *)
MustHave(r) ==
    {"layer"} \cup (IF r.front \in {"wmts", "map"} THEN {"style"} ELSE {})
              \cup (IF r.front = "map" THEN Given(r) ELSE {})

(* What of that a layer has *)
Has(m, r, clock) ==
    IF ~IsPublished(m) THEN {}
    ELSE MustHave(r) \cap ({"layer"} \cup (IF r.style \in m.styles \cup {Default} THEN {"style"} ELSE {})
        \cup (IF isValidTime(m, r.time, r.reference, clock) THEN {"time"} ELSE {})
        \cup (IF isValidReferenceTime(m, r.reference) THEN {"reference_time"} ELSE {})
        \cup (IF isValidElevation(m, r.elevation) THEN {"elevation"} ELSE {}))

(* A layer has what is asked when capabilities would say so: the steps and *)
(* the reference times that are listed, the levels and the styles.         *)
Offers(m, r, clock) ==
    /\ IsPublished(m)
    /\ r.style \in m.styles \cup {Default}
    /\ isTemporal(m) =>
          /\ r.reference \in DOMAIN m.runs \cup {NotADateTime}
          /\ LET steps == IF r.reference = NotADateTime THEN DefaultRun(m)
                          ELSE m.runs[r.reference]
             IN r.time \in {t \in steps : m.untilNow => t <= clock} \cup {NotADateTime}
    /\ m.levels # {} => r.elevation \in m.levels \cup {-1}

Asked(r) == Range(r.layers)

Running(c) == reply[c].answer = "none"

(* A publication, or the clock, gives the running requests something new. *)
Remember ==
    /\ dimsEver' = [l \in Layers |-> dimsEver[l] \cup {DimensionsOf(layers'[l], now')}]
    /\ steady' = [c \in Clients |->
          steady[c] /\ (Running(c) => \A l \in Asked(request[c]) :
                                         Offers(layers'[l], request[c], now'))]
    /\ ever' = [c \in Clients |-> IF ~Running(c) THEN ever[c]
          ELSE ever[c] \cup UNION {{l} \X Has(layers'[l], request[c], now') :
                                      l \in Asked(request[c])}]
    /\ current' = [c \in Clients |-> IF ~Running(c) THEN current[c]
          ELSE current[c] \cup CurrentTimes(layers'[LastLayer(request[c])], request[c], now')]

-----------------------------------------------------------------------------
(* The calls of a request *)

Call(op, layer) == [op |-> op, layer |-> layer]

Calls(condition, ops, layer) ==
    IF condition THEN [i \in DOMAIN ops |-> Call(ops[i], layer)] ELSE <<>>

(* The default style of a layer is valid when the layer is. *)
StyleCheck(r) == IF r.style = Default THEN "isValidLayer" ELSE "isValidStyle"

(* Faulty: the handler returns without a product. *)
TileCallsWithoutProduct(r) ==
    LET l == LastLayer(r) IN
    Calls(TRUE, <<"isValidLayer">>, l)
    \o Calls(r.front = "wmts", <<StyleCheck(r)>>, l)
    \o Calls(TRUE, <<"layerCustomer">>, l)
    \o Calls(r.path # <<>>, <<"orderedDimensionNames", "getLayer">>, l)
    \o Calls(r.time = NotADateTime, <<"isTemporal", "mostCurrentTime">>, l)
    \o Calls(TRUE, <<"json", "layerCustomer", "layerCustomer">>, l)

(* handleGetTile of the WMTS and the Tiles handler.  What they check of    *)
(* the format, the matrix, the row and the column reads nothing that       *)
(* changes.                                                                *)
TileCalls(r) ==
    LET l == LastLayer(r) IN
    Calls(TRUE, <<"isValidLayer">>, l)
    \o Calls(r.front = "wmts", <<StyleCheck(r)>>, l)
    \o Calls(TRUE, <<"layerCustomer">>, l)
    \o Calls(r.path # <<>>, <<"orderedDimensionNames", "getLayer">>, l)
    \o Calls(r.time = NotADateTime, <<"isTemporal", "mostCurrentTime">>, l)
    \o Calls(TRUE, <<"json", "layerCustomer", "layerCustomer", "init">>, l)

(* parseHTTPRequest, validate_options and the rest of GetMap.  Of several  *)
(* layers the last one decides on the interval, the customer and the       *)
(* current time.                                                           *)
ValidateOptions(r, l) ==
    Calls(TRUE, <<"isValidLayer", StyleCheck(r), "isValidCRS">>, l)
    \o Calls(r.reference # NotADateTime, <<"isValidReferenceTime">>, l)
    \o Calls(r.time # NotADateTime, <<"isValidTime">>, l)
    \o Calls(r.elevation # -1, <<"isValidElevation">>, l)

ForEachLayer(r, Of(_)) == FlattenSeq([i \in DOMAIN r.layers |-> Of(r.layers[i])])

(* Faulty: the options are validated for the last layer only. *)
MapCallsValidatingLast(r) ==
    ForEachLayer(r, LAMBDA l : Calls(TRUE, <<"isValidLayer">>, l))
    \o ValidateOptions(r, LastLayer(r))
    \o Calls(TRUE, <<"getDefaultInterval", "layerCustomer">>, LastLayer(r))
    \o Calls(r.time = NotADateTime, <<"isTemporal", "currentValue", "mostCurrentTime">>,
             LastLayer(r))
    \o ForEachLayer(r, LAMBDA l : Calls(TRUE, <<"json">>, l))
    \o Calls(TRUE, <<"init">>, LastLayer(r))

MapCalls(r) ==
    ForEachLayer(r, LAMBDA l : Calls(TRUE, <<"isValidLayer">>, l))
    \o ForEachLayer(r, LAMBDA l : ValidateOptions(r, l))
    \o Calls(TRUE, <<"getDefaultInterval", "layerCustomer">>, LastLayer(r))
    \o Calls(r.time = NotADateTime, <<"isTemporal", "currentValue", "mostCurrentTime">>,
             LastLayer(r))
    \o ForEachLayer(r, LAMBDA l : Calls(TRUE, <<"json">>, l))
    \o Calls(TRUE, <<"init">>, LastLayer(r))

CallsOf(r) == IF r.front = "map" THEN MapCalls(r) ELSE TileCalls(r)

(* Those that load the map once more after isValidLayerImpl *)
Checks == {"isValidStyle", "isValidCRS", "isValidReferenceTime", "isValidTime", "isValidElevation"}

TimeCalls == {"isTemporal", "currentValue", "mostCurrentTime"}

Lookups == Checks \cup TimeCalls \cup {"getDefaultInterval", "getLayer"}

(* Absent is a time not looked for, or values in the path not looked at. *)
NoReply == [answer |-> "idle", customer |-> "", time |-> Absent, given |-> Absent]

-----------------------------------------------------------------------------

Init ==
    /\ layers \in [Layers -> UNION {VersionsOf[l] : l \in Layers} \cup {Absent}]
    /\ \A l \in Layers : layers[l] \in VersionsOf[l] \cup {Absent}
    /\ changes = 0 /\ now = 0
    /\ dimNames = [l \in Layers |-> Absent]
    /\ advertised = [c \in Clients |-> Absent]
    /\ request = [c \in Clients |-> Absent]
    /\ todo = [c \in Clients |-> <<>>]
    /\ found = [c \in Clients |-> FALSE]
    /\ names = [c \in Clients |-> Absent]
    /\ reply = [c \in Clients |-> NoReply]
    /\ dimsEver = [l \in Layers |-> {DimensionsOf(layers[l], now)}]
    /\ steady = [c \in Clients |-> TRUE]
    /\ ever = [c \in Clients |-> {}]
    /\ current = [c \in Clients |-> {}]

(* The update thread stores a map in which one layer is another. *)
Publish(l) ==
    /\ changes < MaxChanges
    /\ \E m \in (VersionsOf[l] \cup {Absent}) \ {layers[l]} : layers' = [layers EXCEPT ![l] = m]
    /\ changes' = changes + 1
    /\ UNCHANGED <<now, dimNames, advertised, request, todo, found, names, reply>>
    /\ Remember

Tick ==
    /\ changes < MaxChanges
    /\ changes' = changes + 1
    /\ now' = now + 1
    /\ UNCHANGED <<layers, dimNames, advertised, request, todo, found, names, reply>>
    /\ Remember

(* A client reads what dimensions the path of a layer's tiles has. *)
GetCapabilities(c, l) ==
    /\ ~Running(c)
    /\ IsPublished(layers[l]) /\ Listed(layers[l], now)
    /\ AdvertisedDimensions(layers[l]) # <<>>
    /\ advertised' = [advertised EXCEPT
                        ![c] = [layer |-> l, dimensions |-> AdvertisedDimensions(layers[l])]]
    /\ UNCHANGED <<published, dimNames, request, todo, found, names, reply, history>>

Start(c, r) ==
    /\ ~Running(c)
    /\ request' = [request EXCEPT ![c] = r]
    /\ todo' = [todo EXCEPT ![c] = CallsOf(r)]
    /\ reply' = [reply EXCEPT ![c] = [NoReply EXCEPT !.answer = "none"]]
    /\ steady' = [steady EXCEPT ![c] = \A l \in Asked(r) : Offers(layers[l], r, now)]
    /\ ever' = [ever EXCEPT ![c] = UNION {{l} \X Has(layers[l], r, now) : l \in Asked(r)}]
    /\ current' = [current EXCEPT ![c] = CurrentTimes(layers[LastLayer(r)], r, now)]
    /\ UNCHANGED <<published, dimNames, advertised, found, names, dimsEver>>

Ask(c) == \E r \in Requests : Start(c, r)

(* A WMTS tile, with a value for each dimension the client has read of *)
AskByPath(c) ==
    /\ advertised[c] # Absent
    /\ Start(c, [front |-> "wmts", layers |-> <<advertised[c].layer>>, style |-> Default,
                 path |-> advertised[c].dimensions, time |-> NotADateTime,
                 reference |-> NotADateTime, elevation |-> -1])

-----------------------------------------------------------------------------
(* How a call ends *)

Op(c) == Head(todo[c]).op

Calling(c, op) == Running(c) /\ Op(c) = op

(* The checks and the files are those of every layer, all else of the last. *)
Subject(c) ==
    IF Op(c) \in Checks \cup {"isValidLayer", "json"} THEN Head(todo[c]).layer
    ELSE LastLayer(request[c])

LayerOf(c) == layers[Subject(c)]

Return(c) ==
    /\ todo' = [todo EXCEPT ![c] = Tail(@)]
    /\ found' = [found EXCEPT ![c] = FALSE]

(* The calls of those operations, which are the next ones, are not made. *)
ReturnSkipping(c, ops) ==
    LET rest == Tail(todo[c])
        next == Min({i \in DOMAIN rest : rest[i].op \notin ops})
    IN /\ todo' = [todo EXCEPT ![c] = SubSeq(rest, next, Len(rest))]
       /\ found' = [found EXCEPT ![c] = FALSE]

End(c, answer) ==
    /\ reply' = [reply EXCEPT ![c].answer = answer]
    /\ todo' = [todo EXCEPT ![c] = <<>>]
    /\ found' = [found EXCEPT ![c] = FALSE]

(* sendException, sendError and the exceptions that tell what is not valid *)
Refuse(c) == End(c, "refused")

(* NoApplicableCode, 500, or an exception without a code *)
Fail(c) == End(c, "failed")

Pass(c) == Return(c) /\ UNCHANGED reply

(* All calls leave these alone, all but one the names kept for the paths. *)
Unshared == <<published, advertised, request, history>>
Others == <<Unshared, dimNames, names>>

-----------------------------------------------------------------------------
(* Calls that load the map once *)

isValidLayer(c) ==
    /\ Calling(c, "isValidLayer")
    /\ IF IsPublished(LayerOf(c)) THEN Pass(c) ELSE Refuse(c)
    /\ UNCHANGED Others

layerCustomer(c) ==
    /\ Calling(c, "layerCustomer")
    /\ reply' = [reply EXCEPT ![c].customer =
                    IF IsPublished(LayerOf(c)) THEN CustomerOf[Subject(c)] ELSE ""]
    /\ Return(c)
    /\ UNCHANGED Others

(* The string returned for a layer that is not there is not a product. *)
json(c) ==
    /\ Calling(c, "json")
    /\ IF IsPublished(LayerOf(c)) THEN Pass(c) ELSE Fail(c)
    /\ UNCHANGED Others

(* GetMap insists on a customer in wmsPreprocessJSON, the tiles do not. *)
init(c) ==
    /\ Calling(c, "init")
    /\ IF request[c].front = "map" /\ reply[c].customer = "" THEN Fail(c) ELSE End(c, "image")
    /\ UNCHANGED Others

-----------------------------------------------------------------------------
(* Calls that load it twice *)

WithoutTime(c) ==
    /\ reply' = [reply EXCEPT ![c].time = NotADateTime]
    /\ ReturnSkipping(c, TimeCalls)

NotFound(c) ==
    \/ Calling(c, "getDefaultInterval") /\ Pass(c)
    \/ (Calling(c, "isTemporal") \/ Calling(c, "mostCurrentTime")) /\ WithoutTime(c)
    \/ Op(c) \in Checks \cup {"currentValue"} /\ Refuse(c)

isValidLayerImpl(c) ==
    /\ Running(c) /\ Op(c) \in Lookups \ {"getLayer"}
    /\ ~found[c]
    /\ IF IsPublished(LayerOf(c))
       THEN found' = [found EXCEPT ![c] = TRUE] /\ UNCHANGED <<todo, reply>>
       ELSE NotFound(c)
    /\ UNCHANGED Others

(* my_layers->at throws. *)
at(c) ==
    /\ Running(c) /\ Op(c) \in Lookups \ {"getLayer"}
    /\ found[c] /\ ~IsPublished(LayerOf(c))
    /\ Fail(c)
    /\ UNCHANGED Others

Found(c, op) == Calling(c, op) /\ found[c] /\ IsPublished(LayerOf(c))

Valid(c, m, r) ==
    \/ Calling(c, "isValidStyle") /\ r.style \in m.styles
    \/ Calling(c, "isValidCRS")
    \/ Calling(c, "isValidReferenceTime") /\ isValidReferenceTime(m, r.reference)
    \/ Calling(c, "isValidTime") /\ isValidTime(m, r.time, r.reference, now)
    \/ Calling(c, "isValidElevation") /\ isValidElevation(m, r.elevation)

Check(c) ==
    /\ \E op \in Checks : Found(c, op)
    /\ IF Valid(c, LayerOf(c), request[c]) THEN Pass(c) ELSE Refuse(c)
    /\ UNCHANGED Others

(* What is returned is passed on as it is; a layer has a current value always. *)
getDefaultInterval(c) ==
    /\ Found(c, "getDefaultInterval") \/ Found(c, "currentValue")
    /\ Pass(c)
    /\ UNCHANGED Others

LookAtTime(c) ==
    /\ Found(c, "isTemporal")
    /\ IF isTemporal(LayerOf(c)) THEN Pass(c) ELSE WithoutTime(c)
    /\ UNCHANGED Others

(* Faulty: GetMap asks for that of the newest data, too. *)
NewestDataFor(r) == NotADateTime

(* The tiles ask for that of the newest data, GetMap of its reference time, *)
(* which may not be there any more.                                         *)
ReferenceFor(r) == IF r.front = "map" THEN r.reference ELSE NotADateTime

TakeCurrentTime(c) ==
    /\ Found(c, "mostCurrentTime")
    /\ LET m == LayerOf(c)
           reference == ReferenceFor(request[c])
       IN IF isTemporal(m) /\ reference \notin DOMAIN m.runs \cup {NotADateTime} THEN Fail(c)
          ELSE /\ reply' = [reply EXCEPT ![c].time = mostCurrentTime(m, reference, now)]
               /\ Return(c)
    /\ UNCHANGED Others

-----------------------------------------------------------------------------
(* orderedDimensionNames, and what the values in the path are taken for *)

Taken(ns, path) == {<<ns[i], path[i]>> : i \in DOMAIN ns \cap DOMAIN path}

Take(c, ns, skipped) ==
    LET given == Taken(ns, request[c].path)
        timeGiven == \E v \in given : v[1] = "time"
    IN /\ reply' = [reply EXCEPT ![c].given = given]
       /\ ReturnSkipping(c, skipped \cup IF timeGiven THEN TimeCalls ELSE {})

FindDimNames(c) ==
    /\ Calling(c, "orderedDimensionNames")
    /\ LET cached == dimNames[Subject(c)] IN
       IF cached # Absent THEN Take(c, cached, {"getLayer"}) ELSE Pass(c)
    /\ UNCHANGED Others

(* getLayer finds no layer, or my_layers->at throws: the names are none. *)
getLayer(c) ==
    /\ Calling(c, "getLayer") /\ names[c] = Absent
    /\ IF IsPublished(LayerOf(c)) /\ ~found[c]
       THEN found' = [found EXCEPT ![c] = TRUE] /\ UNCHANGED names
       ELSE /\ names' = [names EXCEPT ![c] =
                  IF IsPublished(LayerOf(c))
                  THEN TimeDimensionInfo(LayerOf(c), now) \o ElevationDimensionInfo(LayerOf(c))
                  ELSE <<>>]
            /\ UNCHANGED found
    /\ UNCHANGED <<Unshared, dimNames, todo, reply>>

(* Faulty: the names of another thread are replaced. *)
insert_or_assign(l, ns) == [dimNames EXCEPT ![l] = ns]

(* Another thread may have stored its names in between: they stay. *)
try_emplace(l, ns) == IF dimNames[l] = Absent THEN [dimNames EXCEPT ![l] = ns] ELSE dimNames

StoreDimNames(c) ==
    /\ Calling(c, "getLayer") /\ names[c] # Absent
    /\ dimNames' = try_emplace(Subject(c), names[c])
    /\ Take(c, dimNames'[Subject(c)], {})
    /\ names' = [names EXCEPT ![c] = Absent]
    /\ UNCHANGED Unshared

Step(c) ==
    \/ isValidLayer(c) \/ layerCustomer(c) \/ json(c) \/ init(c)
    \/ isValidLayerImpl(c) \/ at(c) \/ Check(c) \/ getDefaultInterval(c)
    \/ LookAtTime(c) \/ TakeCurrentTime(c)
    \/ FindDimNames(c) \/ getLayer(c) \/ StoreDimNames(c)

Next ==
    \/ Tick
    \/ \E l \in Layers : Publish(l)
    \/ \E c \in Clients, l \in Layers : GetCapabilities(c, l)
    \/ \E c \in Clients : Ask(c) \/ AskByPath(c) \/ Step(c)

Spec == Init /\ [][Next]_vars

-----------------------------------------------------------------------------

TypeOK ==
    /\ \A l \in Layers : layers[l] \in VersionsOf[l] \cup {Absent}
    /\ changes \in 0..MaxChanges /\ now \in 0..MaxChanges
    /\ \A l \in Layers : dimNames[l] = Absent \/ dimNames[l] \in Seq(Dimensions)
    /\ \A c \in Clients :
          /\ advertised[c] # Absent => advertised[c].layer \in Layers
          /\ request[c] # Absent => IsRequest(request[c])
          /\ \A i \in DOMAIN todo[c] : todo[c][i].layer \in Layers
          /\ Running(c) <=> todo[c] # <<>>
          /\ names[c] # Absent => Running(c) /\ names[c] \in Seq(Dimensions)
    /\ found \in [Clients -> BOOLEAN]
    /\ reply \in [Clients -> [answer : {"idle", "none", "image", "refused", "failed"},
                              customer : {CustomerOf[l] : l \in Layers} \cup {""},
                              time : Nat \cup {NotADateTime, Absent},
                              given : {Absent} \cup SUBSET (Dimensions \X Dimensions)]]

Answered(c) == reply[c].answer = "image"

TimeTaken(c) == reply[c].given # Absent /\ \E v \in reply[c].given : v[1] = "time"

(* A request that asks for what its layers have, as capabilities list it,  *)
(* from the request's first check to its last, is answered with an image,  *)
(* whatever else is published meanwhile: made with the files of the        *)
(* layer's own customer, of a time looked up if none is given, and with    *)
(* the values in its path looked at.                                       *)
UndisturbedAnswered ==
    \A c \in Clients : steady[c] /\ reply[c].answer \notin {"idle", "none"} =>
        /\ Answered(c)
        /\ reply[c].customer = CustomerOf[LastLayer(request[c])]
        /\ request[c].time = NotADateTime /\ ~TimeTaken(c) => reply[c].time # Absent
        /\ request[c].path # <<>> => reply[c].given # Absent

(* No image is answered for a layer that was never there while the request *)
(* ran, or, by GetMap, for a time, reference time or elevation that one of *)
(* the layers never had.                                                   *)
AnswersWereAvailable ==
    \A c \in Clients : Answered(c) =>
        \A l \in Asked(request[c]), o \in MustHave(request[c]) : <<l, o>> \in ever[c]

(* The time a request looks up, when it gives none, was the most current   *)
(* one of its last layer at some moment of the request; it goes on without *)
(* a time only if the layer had none at some moment, or was not there.     *)
TimeWasCurrent == \A c \in Clients : reply[c].time # Absent => reply[c].time \in current[c]

(* The values in the path of a WMTS tile mean what the client read in the  *)
(* capabilities, if the layer was listed with the same times all the time, *)
(* whatever became of its levels.  None is passed over but that of an      *)
(* elevation: capabilities list any levels (Layer.cpp:2197), the handler   *)
(* looks for those that are isOK, and once it has found none, it ignores   *)
(* what the clients ask of them for ever.                                  *)
FixedDimensionsHonoured ==
    \A c \in Clients : reply[c].given # Absent =>
        LET had == dimsEver[LastLayer(request[c])] IN
        Absent \notin had /\ (\A d, e \in had : d.times = e.times) =>
            /\ \A v \in reply[c].given : v[1] = v[2]
            /\ \A name \in Range(request[c].path) :
                  \/ <<name, name>> \in reply[c].given
                  \/ name = "elevation" /\ \E d \in had : ~d.elevation

(* The names of dimensions that a request has been served with are those   *)
(* of all later ones: no thread replaces what another has stored.          *)
NamesNeverReplaced ==
    [][\A l \in Layers : dimNames[l] # Absent => dimNames'[l] = dimNames[l]]_dimNames

=============================================================================
