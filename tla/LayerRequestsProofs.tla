------------------------ MODULE LayerRequestsProofs ------------------------
(***************************************************************************)
(* What LayerRequests answers from several loads of a map that changes,    *)
(* for all maps, requests, clients and numbers of changes.                 *)
(***************************************************************************)
EXTENDS LayerRequests, TLAPS

Subjects(c) == LastLayer(request[c])

(* What the handler collects of a layer that is listed *)
Collected(d) == d.times \o When(d.elevation, "elevation")

(* The names are what is collected of the layer as it was at some moment,  *)
(* unless it was not listed at some moment: then they may be anything.     *)
Known(l, ns) == Absent \in dimsEver[l] \/ \E d \in dimsEver[l] : ns = Collected(d)

(* The path is one that capabilities have listed for the layer: its levels *)
(* may have been listed or not, whether or not the handler looks at them.  *)
Offered(l, path) ==
    \/ Absent \in dimsEver[l]
    \/ \E d \in dimsEver[l], b \in BOOLEAN : path = d.times \o When(b, "elevation")

(* Which functions and records the variables are, whatever their values *)
IsReply(x) ==
    x \in [answer : {x.answer}, customer : {x.customer}, time : {x.time}, given : {x.given}]

Shape ==
    /\ reply \in [Clients -> {reply[c] : c \in Clients}]
    /\ \A c \in Clients : IsReply(reply[c])
    /\ names \in [Clients -> {names[c] : c \in Clients}]
    /\ todo \in [Clients -> {todo[c] : c \in Clients}]
    /\ request \in [Clients -> {request[c] : c \in Clients}]
    /\ advertised \in [Clients -> {advertised[c] : c \in Clients}]
    /\ current \in [Clients -> {current[c] : c \in Clients}]
    /\ dimNames \in [Layers -> {dimNames[l] : l \in Layers}]

DimensionsKnown ==
    \A l \in Layers :
        /\ DimensionsOf(layers[l], now) \in dimsEver[l]
        /\ \A d \in dimsEver[l] \ {Absent} : d.times \in Seq(Dimensions) /\ d.elevation \in BOOLEAN
        /\ dimNames[l] # Absent => Known(l, dimNames[l])

ClientInv(c) ==
    /\ advertised[c] # Absent =>
          /\ advertised[c].layer \in Layers /\ advertised[c].dimensions \in Seq(Dimensions)
          /\ Offered(advertised[c].layer, advertised[c].dimensions)
    /\ reply[c].answer # "idle" =>
          /\ Subjects(c) \in Layers /\ request[c].path \in Seq(Dimensions)
          /\ request[c].path = <<>> \/ Offered(Subjects(c), request[c].path)
    /\ reply[c].answer = "idle" => reply[c].given = Absent /\ reply[c].time = Absent
    /\ names[c] # Absent => Calling(c, "getLayer") /\ Known(Subjects(c), names[c])
    /\ reply[c].given # Absent =>
          \/ Absent \in dimsEver[Subjects(c)]
          \/ \E d \in dimsEver[Subjects(c)] : reply[c].given = Taken(Collected(d), request[c].path)
    /\ reply[c].time # Absent => reply[c].time \in current[c]
    /\ Running(c) => CurrentTimes(layers[Subjects(c)], request[c], now) \subseteq current[c]

Inv == Shape /\ DimensionsKnown /\ \A c \in Clients : ClientInv(c)

-----------------------------------------------------------------------------

LEMMA WhenType == ASSUME NEW b \in BOOLEAN, NEW d \in Dimensions
                  PROVE  When(b, d) \in Seq(Dimensions)
BY DEF When

LEMMA AdvertisedType ==
    ASSUME NEW m
    PROVE  AdvertisedTimes(m) \in Seq(Dimensions) /\ AdvertisedDimensions(m) \in Seq(Dimensions)
<1>1. /\ When(isTemporal(m), "time") \in Seq(Dimensions)
      /\ When(isTemporal(m) /\ HasReferenceTimes(m), "reference_time") \in Seq(Dimensions)
      /\ When(m.levels # {}, "elevation") \in Seq(Dimensions)
  BY WhenType DEF Dimensions, isTemporal, HasReferenceTimes
<1>2. AdvertisedTimes(m) \in Seq(Dimensions)
  BY <1>1 DEF AdvertisedTimes
<1>3. QED
  BY <1>1, <1>2 DEF AdvertisedDimensions

LEMMA DimensionsType ==
    ASSUME NEW m, NEW clock, DimensionsOf(m, clock) # Absent
    PROVE  /\ DimensionsOf(m, clock).times = AdvertisedTimes(m)
           /\ DimensionsOf(m, clock).elevation = isOK(m)
           /\ DimensionsOf(m, clock).times \in Seq(Dimensions)
           /\ DimensionsOf(m, clock).elevation \in BOOLEAN
<1>1. DimensionsOf(m, clock) = [times |-> AdvertisedTimes(m), elevation |-> isOK(m)]
  BY DEF DimensionsOf
<1>2. isOK(m) \in BOOLEAN
  BY DEF isOK
<1>3. QED
  BY <1>1, <1>2, AdvertisedType

(* The handler collects the names of times that the capabilities list, in  *)
(* their order, and after them the elevation if it is OK, which no listed  *)
(* name follows.                                                           *)
LEMMA SameTimes ==
    ASSUME NEW m, NEW clock, IsPublished(m), Listed(m, clock)
    PROVE  TimeDimensionInfo(m, clock) \o ElevationDimensionInfo(m)
              = AdvertisedTimes(m) \o When(isOK(m), "elevation")
<1>1. ~m.hidden
  BY DEF Listed
<1>2. ElevationDimensionInfo(m) = When(isOK(m), "elevation")
  BY <1>1 DEF ElevationDimensionInfo, When
<1>3. CASE isTemporal(m)
  <2>1. ListedTimes(m, clock) # {}
    BY <1>3 DEF Listed
  <2>2. TimeDimensionInfo(m, clock) = <<"time">> \o When(HasReferenceTimes(m), "reference_time")
    BY <1>1, <1>3, <2>1 DEF TimeDimensionInfo
  <2>3. QED
    BY <1>2, <1>3, <2>2 DEF AdvertisedTimes, When
<1>4. CASE ~isTemporal(m)
  <2>1. TimeDimensionInfo(m, clock) = <<>>
    BY <1>4 DEF TimeDimensionInfo
  <2>2. AdvertisedTimes(m) = <<>>
    BY <1>4 DEF AdvertisedTimes, When
  <2>3. QED
    BY <1>2, <2>1, <2>2
<1>5. QED
  BY <1>3, <1>4

LEMMA LastOfRequest ==
    ASSUME NEW r, IsRequest(r) PROVE LastLayer(r) \in Layers /\ r.path \in Seq(Dimensions)
BY DEF IsRequest, LastLayer, Last

-----------------------------------------------------------------------------
(* What the history knows stays known while it stays as it is. *)
LEMMA KnownStays ==
    ASSUME dimsEver' = dimsEver
    PROVE  /\ \A l, ns : Known(l, ns)' = Known(l, ns)
           /\ \A l, path : Offered(l, path)' = Offered(l, path)
BY DEF Known, Offered

LEMMA DimensionsStay ==
    ASSUME DimensionsKnown, UNCHANGED <<layers, now, dimNames, dimsEver>> PROVE DimensionsKnown'
BY KnownStays DEF DimensionsKnown

(* What one call of a request may do *)

ReplyBecomes(c, time, given) ==
    /\ reply' \in [Clients -> {reply'[d] : d \in Clients}]
    /\ \A d \in Clients : IsReply(reply'[d]) /\ (d # c => reply'[d] = reply[d])
    /\ reply'[c].answer # "idle"
    /\ reply'[c].time = time
    /\ reply'[c].given = given

Effect(c) ==
    /\ UNCHANGED Unshared
    /\ todo' \in [Clients -> {todo'[d] : d \in Clients}]
    /\ names' \in [Clients -> {names'[d] : d \in Clients}]
    /\ \A d \in Clients : d # c => todo'[d] = todo[d] /\ names'[d] = names[d]
    /\ names'[c] # Absent => Known(Subjects(c), names'[c]) /\ Calling(c, "getLayer")'
    /\ \E time, given :
          /\ time \in {reply[c].time} \cup CurrentTimes(layers[Subjects(c)], request[c], now)
          /\ ReplyBecomes(c, time, given)
          /\ \/ given = reply[c].given
             \/ \E ns : Known(Subjects(c), ns) /\ given = Taken(ns, request[c].path)
    /\ \/ dimNames' = dimNames
       \/ \E ns : /\ Known(Subjects(c), ns) /\ dimNames[Subjects(c)] = Absent
                  /\ dimNames' = [dimNames EXCEPT ![Subjects(c)] = ns]

LEMMA AnswerKeeps ==
    ASSUME Shape, NEW c \in Clients, Running(c),
           \/ reply' = reply
           \/ \E v : v # "idle" /\ reply' = [reply EXCEPT ![c].answer = v]
           \/ \E v : reply' = [reply EXCEPT ![c].customer = v]
    PROVE  ReplyBecomes(c, reply[c].time, reply[c].given)
<1>1. CASE reply' = reply
  BY <1>1 DEF Shape, ReplyBecomes, Running
<1>2. ASSUME NEW v, v # "idle", reply' = [reply EXCEPT ![c].answer = v]
      PROVE  ReplyBecomes(c, reply[c].time, reply[c].given)
  BY <1>2 DEF Shape, IsReply, ReplyBecomes
<1>3. ASSUME NEW v, reply' = [reply EXCEPT ![c].customer = v]
      PROVE  ReplyBecomes(c, reply[c].time, reply[c].given)
  BY <1>3 DEF Shape, IsReply, ReplyBecomes, Running
<1>4. QED
  BY <1>1, <1>2, <1>3

LEMMA TimeChange ==
    ASSUME Shape, NEW c \in Clients, Running(c), NEW v, reply' = [reply EXCEPT ![c].time = v]
    PROVE  ReplyBecomes(c, v, reply[c].given)
BY DEF Shape, IsReply, ReplyBecomes, Running

LEMMA GivenChange ==
    ASSUME Shape, NEW c \in Clients, Running(c), NEW v, reply' = [reply EXCEPT ![c].given = v]
    PROVE  ReplyBecomes(c, reply[c].time, v)
BY DEF Shape, IsReply, ReplyBecomes, Running

LEMMA TodoChange ==
    ASSUME Shape, NEW c \in Clients, \E v : todo' = [todo EXCEPT ![c] = v]
    PROVE  /\ todo' \in [Clients -> {todo'[d] : d \in Clients}]
           /\ \A d \in Clients : d # c => todo'[d] = todo[d]
BY DEF Shape

(* A call that does not touch the names *)
LEMMA CallEffect ==
    ASSUME Shape, NEW c \in Clients, names[c] = Absent, UNCHANGED Others,
           todo' = todo \/ \E v : todo' = [todo EXCEPT ![c] = v],
           NEW time \in {reply[c].time} \cup CurrentTimes(layers[Subjects(c)], request[c], now),
           NEW given, ReplyBecomes(c, time, given),
           \/ given = reply[c].given
           \/ \E ns : Known(Subjects(c), ns) /\ given = Taken(ns, request[c].path)
    PROVE  Effect(c)
<1>1. /\ todo' \in [Clients -> {todo'[d] : d \in Clients}]
      /\ \A d \in Clients : d # c => todo'[d] = todo[d]
  BY TodoChange DEF Shape
<1>2. UNCHANGED <<Unshared, dimNames, names>>
  BY DEF Others
<1>3. names' \in [Clients -> {names'[d] : d \in Clients}]
  BY <1>2 DEF Shape
<1>4. QED
  BY <1>1, <1>2, <1>3 DEF Effect

(* A call that leaves the time and the values in the path alone *)
PlainCall(c) ==
    \/ Pass(c) \/ Refuse(c) \/ Fail(c) \/ End(c, "image")
    \/ UNCHANGED <<todo, reply>>
    \/ Return(c) /\ \E v : reply' = [reply EXCEPT ![c].customer = v]

LEMMA PlainEffect ==
    ASSUME Shape, NEW c \in Clients, Running(c), names[c] = Absent, UNCHANGED Others,
           PlainCall(c)
    PROVE  Effect(c)
<1>1. todo' = todo \/ \E v : todo' = [todo EXCEPT ![c] = v]
  BY DEF PlainCall, Pass, Refuse, Fail, End, Return
<1>2. \/ reply' = reply
      \/ \E v : v # "idle" /\ reply' = [reply EXCEPT ![c].answer = v]
      \/ \E v : reply' = [reply EXCEPT ![c].customer = v]
  BY DEF PlainCall, Pass, Refuse, Fail, End
<1>3. ReplyBecomes(c, reply[c].time, reply[c].given)
  BY <1>2, AnswerKeeps
<1>4. QED
  BY <1>1, <1>3, CallEffect

LEMMA SkippedTodo ==
    ASSUME NEW c \in Clients, NEW ops, ReturnSkipping(c, ops)
    PROVE  \E v : todo' = [todo EXCEPT ![c] = v]
BY DEF ReturnSkipping

LEMMA WithoutTimeEffect ==
    ASSUME Shape, NEW c \in Clients, Running(c), names[c] = Absent, UNCHANGED Others,
           WithoutTime(c),
           NotADateTime \in CurrentTimes(layers[Subjects(c)], request[c], now)
    PROVE  Effect(c)
<1>1. \E v : todo' = [todo EXCEPT ![c] = v]
  BY SkippedTodo DEF WithoutTime
<1>2. ReplyBecomes(c, NotADateTime, reply[c].given)
  BY TimeChange DEF WithoutTime
<1>3. QED
  BY <1>1, <1>2, CallEffect

LEMMA TakeReply ==
    ASSUME Shape, NEW c \in Clients, Running(c), NEW ns, NEW ops, Take(c, ns, ops)
    PROVE  /\ ReplyBecomes(c, reply[c].time, Taken(ns, request[c].path))
           /\ \E v : todo' = [todo EXCEPT ![c] = v]
<1>1. reply' = [reply EXCEPT ![c].given = Taken(ns, request[c].path)]
  BY DEF Take
<1>2. \E skipped : ReturnSkipping(c, skipped)
  BY DEF Take
<1>3. QED
  BY <1>1, <1>2, GivenChange, SkippedTodo

(* The current time of what isValidLayerImpl did not find is none. *)
LEMMA NotPublishedNoTime ==
    ASSUME NEW m, NEW r, ~IsPublished(m)
    PROVE  NotADateTime \in CurrentTimes(m, r, now)
BY DEF CurrentTimes

LEMMA NotTemporalNoTime ==
    ASSUME NEW m, NEW r, IsPublished(m), ~isTemporal(m)
    PROVE  NotADateTime \in CurrentTimes(m, r, now)
BY DEF CurrentTimes, mostCurrentTime

(* The names collected are those the layer has now, if it is listed. *)
LEMMA NamesCollected ==
    ASSUME DimensionsKnown, NEW l \in Layers, NEW ns,
           ns = IF IsPublished(layers[l])
                THEN TimeDimensionInfo(layers[l], now) \o ElevationDimensionInfo(layers[l])
                ELSE <<>>
    PROVE  Known(l, ns)
<1>1. DimensionsOf(layers[l], now) \in dimsEver[l]
  BY DEF DimensionsKnown
<1>2. CASE IsPublished(layers[l]) /\ Listed(layers[l], now)
  <2> DEFINE d == DimensionsOf(layers[l], now)
  <2>1. d.times = AdvertisedTimes(layers[l]) /\ d.elevation = isOK(layers[l])
    BY <1>2 DEF DimensionsOf
  <2>2. ns = Collected(d)
    <3>1. ns = AdvertisedTimes(layers[l]) \o When(isOK(layers[l]), "elevation")
      BY <1>2, SameTimes
    <3> HIDE DEF d
    <3>2. QED
      BY <2>1, <3>1 DEF Collected
  <2>3. QED
    BY <1>1, <2>2 DEF Known
<1>3. CASE ~(IsPublished(layers[l]) /\ Listed(layers[l], now))
  BY <1>1, <1>3 DEF Known, DimensionsOf
<1>4. QED
  BY <1>2, <1>3

LEMMA StepEffect ==
    ASSUME Shape, DimensionsKnown, NEW c \in Clients, ClientInv(c), Step(c)
    PROVE  Effect(c)
<1>1. Op(c) # "getLayer" => names[c] = Absent
  BY DEF ClientInv, Calling
<1>2. CASE isValidLayer(c) \/ json(c) \/ init(c)
  <2>1. Running(c) /\ Op(c) # "getLayer"
    BY <1>2 DEF isValidLayer, json, init, Calling
  <2>2. UNCHANGED Others /\ (Pass(c) \/ Refuse(c) \/ Fail(c) \/ End(c, "image"))
    BY <1>2 DEF isValidLayer, json, init
  <2>3. QED
    BY <1>1, <2>1, <2>2, PlainEffect DEF PlainCall
<1>3. CASE layerCustomer(c)
  <2>1. Running(c) /\ Op(c) # "getLayer"
    BY <1>3 DEF layerCustomer, Calling
  <2>2. UNCHANGED Others /\ Return(c) /\ \E v : reply' = [reply EXCEPT ![c].customer = v]
    BY <1>3 DEF layerCustomer
  <2>3. QED
    BY <1>1, <2>1, <2>2, PlainEffect DEF PlainCall
<1>4. CASE isValidLayerImpl(c)
  <2>1. Running(c) /\ Op(c) # "getLayer" /\ UNCHANGED Others
    BY <1>4 DEF isValidLayerImpl
  <2>2. CASE IsPublished(LayerOf(c))
    <3>1. UNCHANGED <<todo, reply>>
      BY <1>4, <2>2 DEF isValidLayerImpl
    <3>2. QED
      BY <1>1, <2>1, <3>1, PlainEffect DEF PlainCall
  <2>3. CASE ~IsPublished(LayerOf(c))
    <3>1. NotFound(c)
      BY <1>4, <2>3 DEF isValidLayerImpl
    <3>2. CASE Pass(c) \/ Refuse(c)
      BY <1>1, <2>1, <3>2, PlainEffect DEF PlainCall
    <3>3. CASE (Calling(c, "isTemporal") \/ Calling(c, "mostCurrentTime")) /\ WithoutTime(c)
      <4>1. Subject(c) = Subjects(c)
        BY <3>3 DEF Subject, Subjects, Checks, Calling
      <4>2. NotADateTime \in CurrentTimes(layers[Subjects(c)], request[c], now)
        BY <2>3, <4>1, NotPublishedNoTime DEF LayerOf
      <4>3. QED
        BY <1>1, <2>1, <3>3, <4>2, WithoutTimeEffect
    <3>4. QED
      BY <3>1, <3>2, <3>3 DEF NotFound
  <2>4. QED
    BY <2>2, <2>3
<1>5. CASE at(c) \/ Check(c) \/ getDefaultInterval(c)
  <2>1. Running(c) /\ Op(c) # "getLayer" /\ UNCHANGED Others
    BY <1>5 DEF at, Check, getDefaultInterval, Found, Calling, Checks
  <2>2. Pass(c) \/ Refuse(c) \/ Fail(c)
    BY <1>5 DEF at, Check, getDefaultInterval
  <2>3. QED
    BY <1>1, <2>1, <2>2, PlainEffect DEF PlainCall
<1>6. CASE LookAtTime(c)
  <2>1. /\ Running(c) /\ Op(c) # "getLayer" /\ UNCHANGED Others
        /\ IsPublished(LayerOf(c))
        /\ Subject(c) = Subjects(c)
    BY <1>6 DEF LookAtTime, Found, Calling, Subject, Subjects, Checks
  <2>2. CASE Pass(c)
    BY <1>1, <2>1, <2>2, PlainEffect DEF PlainCall
  <2>3. CASE ~isTemporal(LayerOf(c)) /\ WithoutTime(c)
    <3>1. NotADateTime \in CurrentTimes(layers[Subjects(c)], request[c], now)
      BY <2>1, <2>3, NotTemporalNoTime DEF LayerOf
    <3>2. QED
      BY <1>1, <2>1, <2>3, <3>1, WithoutTimeEffect
  <2>4. QED
    BY <1>6, <2>2, <2>3 DEF LookAtTime
<1>7. CASE TakeCurrentTime(c)
  <2>1. /\ Running(c) /\ Op(c) # "getLayer" /\ UNCHANGED Others
        /\ IsPublished(LayerOf(c))
        /\ LayerOf(c) = layers[Subjects(c)]
    BY <1>7 DEF TakeCurrentTime, Found, Calling, Subject, Subjects, Checks, LayerOf
  <2> DEFINE m == LayerOf(c)
             reference == ReferenceFor(request[c])
             time == mostCurrentTime(m, reference, now)
  <2>2. CASE isTemporal(m) /\ reference \notin DOMAIN m.runs \cup {NotADateTime}
    <3>1. Fail(c)
      BY <1>7, <2>2 DEF TakeCurrentTime
    <3>2. QED
      BY <1>1, <2>1, <3>1, PlainEffect DEF PlainCall
  <2>3. CASE ~(isTemporal(m) /\ reference \notin DOMAIN m.runs \cup {NotADateTime})
    <3>1. reply' = [reply EXCEPT ![c].time = time] /\ Return(c)
      BY <1>7, <2>3 DEF TakeCurrentTime
    <3>2. time \in CurrentTimes(layers[Subjects(c)], request[c], now)
      BY <2>1, <2>3 DEF CurrentTimes, ReferenceFor
    <3>3. ReplyBecomes(c, time, reply[c].given)
      BY <2>1, <3>1, TimeChange
    <3>4. \E v : todo' = [todo EXCEPT ![c] = v]
      BY <3>1 DEF Return
    <3>5. QED
      BY <1>1, <2>1, <3>2, <3>3, <3>4, CallEffect
  <2>4. QED
    BY <2>2, <2>3
<1>8. CASE FindDimNames(c)
  <2>1. /\ Running(c) /\ Op(c) # "getLayer" /\ UNCHANGED Others
        /\ Subject(c) = Subjects(c)
    BY <1>8 DEF FindDimNames, Calling, Subject, Subjects, Checks
  <2>2. CASE dimNames[Subject(c)] = Absent
    <3>1. Pass(c)
      BY <1>8, <2>2 DEF FindDimNames
    <3>2. QED
      BY <1>1, <2>1, <3>1, PlainEffect DEF PlainCall
  <2>3. CASE dimNames[Subject(c)] # Absent
    <3> DEFINE ns == dimNames[Subject(c)]
    <3>1. Take(c, ns, {"getLayer"})
      BY <1>8, <2>3 DEF FindDimNames
    <3>2. /\ ReplyBecomes(c, reply[c].time, Taken(ns, request[c].path))
          /\ \E v : todo' = [todo EXCEPT ![c] = v]
      BY <2>1, <3>1, TakeReply
    <3>3. Known(Subjects(c), ns)
      BY <2>1, <2>3 DEF DimensionsKnown, ClientInv, Running
    <3>4. QED
      BY <1>1, <2>1, <3>2, <3>3, CallEffect
  <2>4. QED
    BY <2>2, <2>3
<1>9. CASE getLayer(c)
  <2>1. /\ Calling(c, "getLayer") /\ UNCHANGED <<Unshared, dimNames, todo, reply>>
        /\ names[c] = Absent
        /\ LayerOf(c) = layers[Subjects(c)]
        /\ Subjects(c) \in Layers
    BY <1>9 DEF getLayer, Calling, Subject, Subjects, Checks, LayerOf, ClientInv, Running
  <2>2. Calling(c, "getLayer")'
    BY <2>1 DEF Calling, Running, Op
  <2>3. ReplyBecomes(c, reply[c].time, reply[c].given)
    BY <2>1, AnswerKeeps DEF Calling
  <2>4. /\ names' \in [Clients -> {names'[d] : d \in Clients}]
        /\ \A d \in Clients : d # c => names'[d] = names[d]
        /\ names'[c] # Absent => Known(Subjects(c), names'[c])
    <3>1. CASE UNCHANGED names
      BY <2>1, <3>1 DEF Shape
    <3>2. ASSUME NEW ns, names' = [names EXCEPT ![c] = ns],
                 ns = IF IsPublished(LayerOf(c))
                      THEN TimeDimensionInfo(LayerOf(c), now) \o ElevationDimensionInfo(LayerOf(c))
                      ELSE <<>>
          PROVE  /\ names' \in [Clients -> {names'[d] : d \in Clients}]
                 /\ \A d \in Clients : d # c => names'[d] = names[d]
                 /\ names'[c] # Absent => Known(Subjects(c), names'[c])
      <4>1. Known(Subjects(c), ns)
        BY <2>1, <3>2, NamesCollected
      <4>2. QED
        BY <3>2, <4>1 DEF Shape
    <3>3. QED
      BY <1>9, <3>1, <3>2 DEF getLayer
  <2>5. QED
    BY <2>1, <2>2, <2>3, <2>4 DEF Effect, Shape
<1>10. CASE StoreDimNames(c)
  <2>1. /\ Calling(c, "getLayer") /\ names[c] # Absent /\ Running(c)
        /\ names' = [names EXCEPT ![c] = Absent]
        /\ UNCHANGED Unshared
        /\ Subject(c) = Subjects(c)
        /\ Subjects(c) \in Layers
        /\ Known(Subjects(c), names[c])
    BY <1>10 DEF StoreDimNames, Calling, Subject, Subjects, Checks, ClientInv, Running
  <2> DEFINE ns == dimNames'[Subject(c)]
  <2>2. /\ ReplyBecomes(c, reply[c].time, Taken(ns, request[c].path))
        /\ \E v : todo' = [todo EXCEPT ![c] = v]
    BY <1>10, <2>1, TakeReply DEF StoreDimNames
  <2>3. /\ Known(Subjects(c), ns)
        /\ \/ dimNames' = dimNames
           \/ /\ dimNames[Subjects(c)] = Absent
              /\ dimNames' = [dimNames EXCEPT ![Subjects(c)] = names[c]]
    <3> DEFINE l == Subjects(c)
    <3>1. dimNames' = try_emplace(l, names[c]) /\ l \in Layers /\ Known(l, names[c])
      BY <1>10, <2>1 DEF StoreDimNames
    <3>2. dimNames = [k \in Layers |-> dimNames[k]] /\ (dimNames[l] # Absent => Known(l, dimNames[l]))
      BY <3>1 DEF Shape, DimensionsKnown
    <3> HIDE DEF l
    <3>3. /\ Known(l, dimNames'[l])
          /\ \/ dimNames' = dimNames
             \/ dimNames[l] = Absent /\ dimNames' = [dimNames EXCEPT ![l] = names[c]]
      BY <3>1, <3>2 DEF try_emplace
    <3>4. QED
      BY <2>1, <3>3 DEF l
  <2>4. /\ names' \in [Clients -> {names'[d] : d \in Clients}]
        /\ names'[c] = Absent
        /\ \A d \in Clients : d # c => names'[d] = names[d]
    BY <2>1 DEF Shape
  <2>5. /\ todo' \in [Clients -> {todo'[d] : d \in Clients}]
        /\ \A d \in Clients : d # c => todo'[d] = todo[d]
    BY <2>2, TodoChange
  <2>6. QED
    BY <2>1, <2>2, <2>3, <2>4, <2>5 DEF Effect
<1>11. QED
  BY <1>2, <1>3, <1>4, <1>5, <1>6, <1>7, <1>8, <1>9, <1>10 DEF Step

-----------------------------------------------------------------------------
(* The invariant is kept *)

LEMMA InitInv == Init => Inv
<1> SUFFICES ASSUME Init PROVE Inv
  OBVIOUS
<1>1. Shape
  BY DEF Init, Shape, IsReply, NoReply
<1>2. DimensionsKnown
  BY DimensionsType DEF Init, DimensionsKnown
<1>3. ASSUME NEW c \in Clients PROVE ClientInv(c)
  BY <1>3 DEF Init, ClientInv, NoReply, Running
<1>4. QED
  BY <1>1, <1>2, <1>3 DEF Inv

(* A publication or the clock *)
LEMMA RememberInv ==
    ASSUME Inv, Remember,
           UNCHANGED <<dimNames, advertised, request, todo, found, names, reply>>
    PROVE  Inv'
<1>1. Shape'
  BY DEF Inv, Shape, Remember, IsReply
<1>2. /\ \A l \in Layers : dimsEver[l] \subseteq dimsEver'[l]
      /\ \A l \in Layers : dimsEver'[l] = dimsEver[l] \cup {DimensionsOf(layers'[l], now')}
  BY DEF Remember
<1>3. /\ \A l \in Layers : \A ns : Known(l, ns) => Known(l, ns)'
      /\ \A l \in Layers : \A path : Offered(l, path) => Offered(l, path)'
  BY <1>2 DEF Known, Offered
<1>4. DimensionsKnown'
  <2>1. ASSUME NEW l \in Layers, NEW d \in dimsEver'[l] \ {Absent}
        PROVE  d.times \in Seq(Dimensions) /\ d.elevation \in BOOLEAN
    <3>1. CASE d \in dimsEver[l]
      BY <3>1 DEF Inv, DimensionsKnown
    <3>2. CASE d = DimensionsOf(layers'[l], now')
      BY <3>2, DimensionsType
    <3>3. QED
      BY <1>2, <3>1, <3>2
  <2>2. QED
    BY <1>2, <1>3, <2>1 DEF Inv, DimensionsKnown
<1>5. ASSUME NEW c \in Clients PROVE ClientInv(c)'
  <2>1. ClientInv(c)
    BY DEF Inv
  <2>2. /\ current[c] \subseteq current'[c]
        /\ Running(c) => CurrentTimes(layers'[Subjects(c)], request[c], now') \subseteq current'[c]
    BY DEF Remember, Subjects
  <2>3. /\ Running(c)' = Running(c) /\ Subjects(c)' = Subjects(c)
        /\ Calling(c, "getLayer")' = Calling(c, "getLayer")
    BY DEF Running, Subjects, Calling, Op
  <2>4. reply[c].answer # "idle" => Subjects(c) \in Layers
    BY <2>1 DEF ClientInv
  <2>5. names[c] # Absent => Known(Subjects(c), names[c])'
    BY <1>3, <2>1, <2>3, <2>4 DEF ClientInv, Calling, Running
  <2>6. reply[c].given # Absent =>
          \/ Absent \in dimsEver'[Subjects(c)]
          \/ \E d \in dimsEver'[Subjects(c)] : reply[c].given = Taken(Collected(d), request[c].path)
    BY <1>2, <2>1, <2>4 DEF ClientInv
  <2>7. advertised[c] # Absent => Offered(advertised[c].layer, advertised[c].dimensions)'
    <3>1. ASSUME advertised[c] # Absent
          PROVE  /\ advertised[c].layer \in Layers
                 /\ Offered(advertised[c].layer, advertised[c].dimensions)
      BY <2>1, <3>1 DEF ClientInv
    <3>2. QED
      BY <1>2, <3>1 DEF Offered
  <2>8. reply[c].answer # "idle" => request[c].path = <<>> \/ Offered(Subjects(c), request[c].path)'
    <3>1. ASSUME reply[c].answer # "idle", request[c].path # <<>>
          PROVE  Offered(Subjects(c), request[c].path)
      BY <2>1, <3>1 DEF ClientInv
    <3>2. QED
      BY <1>2, <2>3, <2>4, <3>1 DEF Offered
  <2>9. QED
    BY <2>1, <2>2, <2>3, <2>4, <2>5, <2>6, <2>7, <2>8 DEF ClientInv
<1>6. QED
  BY <1>1, <1>4, <1>5 DEF Inv

LEMMA GetCapabilitiesInv ==
    ASSUME Inv, NEW c \in Clients, NEW l \in Layers, GetCapabilities(c, l) PROVE Inv'
<1>1. AdvertisedDimensions(layers[l]) \in Seq(Dimensions)
  BY AdvertisedType
<1>1a. Offered(l, AdvertisedDimensions(layers[l]))
  <2> DEFINE d == DimensionsOf(layers[l], now)
  <2>1. d \in dimsEver[l]
    BY DEF Inv, DimensionsKnown
  <2>2. d.times = AdvertisedTimes(layers[l])
    BY DEF GetCapabilities, DimensionsOf
  <2>3. QED
    BY <2>1, <2>2 DEF Offered, AdvertisedDimensions
<1>2. UNCHANGED <<published, dimNames, request, todo, names, reply, history>>
  BY DEF GetCapabilities
<1>3. Shape'
  BY <1>2 DEF Inv, Shape, IsReply, GetCapabilities, history
<1>4. DimensionsKnown'
  BY <1>2, DimensionsStay DEF Inv, history, published
<1>5. ASSUME NEW d \in Clients PROVE ClientInv(d)'
  <2>1. advertised'[d] = advertised[d] \/
           /\ advertised'[d].layer \in Layers /\ advertised'[d].dimensions \in Seq(Dimensions)
           /\ Offered(advertised'[d].layer, advertised'[d].dimensions)
    BY <1>1, <1>1a DEF GetCapabilities, Inv, Shape
  <2>2. QED
    BY <1>2, <2>1, KnownStays DEF Inv, ClientInv, Subjects, Running, Calling, Op, history, published
<1>6. QED
  BY <1>3, <1>4, <1>5 DEF Inv

(* The layer decided on and what the values in the path are meant for *)
LEMMA StartInv ==
    ASSUME Inv, NEW c \in Clients, NEW r, Start(c, r),
           LastLayer(r) \in Layers, r.path \in Seq(Dimensions),
           r.path = <<>> \/ Offered(LastLayer(r), r.path)
    PROVE  Inv'
<1>1. /\ ~Running(c) /\ names[c] = Absent
  BY DEF Start, Inv, ClientInv, Calling
<1>2. UNCHANGED <<published, dimNames, advertised, names, dimsEver>>
  BY DEF Start
<1>3. Shape'
  BY <1>2 DEF Start, Inv, Shape, IsReply, NoReply
<1>4. DimensionsKnown'
  BY <1>2, DimensionsStay DEF Inv, published
<1>5. ASSUME NEW d \in Clients PROVE ClientInv(d)'
  <2>1. CASE d # c
    <3>1. /\ request'[d] = request[d] /\ todo'[d] = todo[d] /\ reply'[d] = reply[d]
          /\ current'[d] = current[d]
      BY <2>1 DEF Start, Inv, Shape
    <3>2. QED
      BY <1>2, <3>1, KnownStays DEF Inv, ClientInv, Subjects, Running, Calling, Op, published
  <2>2. CASE d = c
    <3>1. /\ request'[c] = r
          /\ reply'[c].answer = "none" /\ reply'[c].time = Absent /\ reply'[c].given = Absent
          /\ current'[c] = CurrentTimes(layers[LastLayer(r)], r, now)
      BY DEF Start, Inv, Shape, NoReply
    <3>2. QED
      BY <1>1, <1>2, <2>2, <3>1 DEF Inv, ClientInv, Offered, Subjects, published
  <2>3. QED
    BY <2>1, <2>2
<1>6. QED
  BY <1>3, <1>4, <1>5 DEF Inv

LEMMA EffectInv == ASSUME Inv, NEW c \in Clients, Effect(c), Running(c) PROVE Inv'
<1>1. UNCHANGED <<layers, now, advertised, request, dimsEver, current>>
  BY DEF Effect, Unshared, published, history
<1>2. PICK time, given :
          /\ time \in {reply[c].time} \cup CurrentTimes(layers[Subjects(c)], request[c], now)
          /\ ReplyBecomes(c, time, given)
          /\ \/ given = reply[c].given
             \/ \E ns : Known(Subjects(c), ns) /\ given = Taken(ns, request[c].path)
  BY DEF Effect
<1>3. Subjects(c) \in Layers
  BY DEF Inv, ClientInv, Running
<1>4. dimNames' \in [Layers -> {dimNames'[l] : l \in Layers}]
  BY DEF Inv, Shape, Effect
<1>5. Shape'
  BY <1>1, <1>2, <1>4 DEF Inv, Shape, Effect, ReplyBecomes
<1>6. DimensionsKnown'
  <2>1. CASE dimNames' = dimNames
    BY <1>1, <2>1, DimensionsStay DEF Inv
  <2>2. ASSUME NEW ns, Known(Subjects(c), ns), dimNames' = [dimNames EXCEPT ![Subjects(c)] = ns]
        PROVE  DimensionsKnown'
    <3>1. ASSUME NEW l \in Layers PROVE dimNames'[l] # Absent => Known(l, dimNames'[l])
      <4>1. dimNames'[l] = IF l = Subjects(c) THEN ns ELSE dimNames[l]
        BY <1>3, <2>2 DEF Inv, Shape
      <4>2. QED
        BY <2>2, <4>1 DEF Inv, DimensionsKnown
    <3>2. QED
      BY <1>1, <3>1, KnownStays DEF Inv, DimensionsKnown
  <2>3. QED
    BY <2>1, <2>2 DEF Effect
<1>7. ASSUME NEW d \in Clients PROVE ClientInv(d)'
  <2>1. CASE d # c
    <3>1. todo'[d] = todo[d] /\ reply'[d] = reply[d] /\ names'[d] = names[d]
      BY <1>2, <2>1 DEF Effect, ReplyBecomes
    <3>2. QED
      BY <1>1, <3>1 DEF Inv, ClientInv, Known, Offered, Subjects, Running, Calling, Op
  <2>2. CASE d = c
    <3>1. ClientInv(c)
      BY DEF Inv
    <3>2. Subjects(c)' = Subjects(c)
      BY <1>1 DEF Subjects
    <3>3. /\ reply'[c].answer # "idle" /\ reply'[c].time = time /\ reply'[c].given = given
      BY <1>2 DEF ReplyBecomes
    <3>4. names'[c] # Absent => Known(Subjects(c), names[c])' /\ Calling(c, "getLayer")'
      BY <1>1, <3>2 DEF Effect, Known
    <3>5. given # Absent =>
          \/ Absent \in dimsEver[Subjects(c)]
          \/ \E e \in dimsEver[Subjects(c)] : given = Taken(Collected(e), request[c].path)
      BY <1>2, <3>1 DEF ClientInv, Known
    <3>6. CurrentTimes(layers[Subjects(c)], request[c], now) \subseteq current[c]
      BY <3>1 DEF ClientInv
    <3>7. time # Absent => time \in current[c]
      BY <1>2, <3>1, <3>6 DEF ClientInv
    <3>8. names'[c] # Absent => Calling(c, "getLayer")' /\ Known(Subjects(c), names[c])'
      BY <3>4
    <3>9. ClientInv(c)'
      BY <1>1, <1>3, <3>1, <3>2, <3>3, <3>5, <3>6, <3>7, <3>8 DEF ClientInv, Offered, Running
    <3>10. QED
      BY <2>2, <3>9
  <2>3. QED
    BY <2>1, <2>2
<1>8. QED
  BY <1>5, <1>6, <1>7 DEF Inv

LEMMA NextInv == Inv /\ [Next]_vars => Inv'
<1> SUFFICES ASSUME Inv, [Next]_vars PROVE Inv'
  OBVIOUS
<1>1. CASE Tick
  BY <1>1, RememberInv DEF Tick
<1>2. ASSUME NEW l \in Layers, Publish(l) PROVE Inv'
  BY <1>2, RememberInv DEF Publish
<1>3. ASSUME NEW c \in Clients, NEW l \in Layers, GetCapabilities(c, l) PROVE Inv'
  BY <1>3, GetCapabilitiesInv
<1>4. ASSUME NEW c \in Clients, Ask(c) PROVE Inv'
  <2>1. PICK r \in Requests : Start(c, r)
    BY <1>4 DEF Ask
  <2>2. IsRequest(r) /\ r.path = <<>>
    BY RequestsAssumption
  <2>3. QED
    BY <2>1, <2>2, LastOfRequest, StartInv
<1>5. ASSUME NEW c \in Clients, AskByPath(c) PROVE Inv'
  <2> DEFINE r == [front |-> "wmts", layers |-> <<advertised[c].layer>>, style |-> Default,
                   path |-> advertised[c].dimensions, time |-> NotADateTime,
                   reference |-> NotADateTime, elevation |-> -1]
  <2>1. Start(c, r)
    BY <1>5 DEF AskByPath
  <2>2. /\ advertised[c].layer \in Layers /\ advertised[c].dimensions \in Seq(Dimensions)
        /\ Offered(advertised[c].layer, advertised[c].dimensions)
    BY <1>5 DEF AskByPath, Inv, ClientInv
  <2>3. LastLayer(r) = advertised[c].layer
    BY DEF LastLayer, Last
  <2>4. r.path = advertised[c].dimensions
    OBVIOUS
  <2> HIDE DEF r
  <2>5. QED
    BY <2>1, <2>2, <2>3, <2>4, StartInv
<1>6. ASSUME NEW c \in Clients, Step(c) PROVE Inv'
  <2>1. Running(c)
    BY <1>6 DEF Step, isValidLayer, layerCustomer, json, init, isValidLayerImpl, at, Check,
                getDefaultInterval, LookAtTime, TakeCurrentTime, FindDimNames, getLayer,
                StoreDimNames, Found, Calling
  <2>2. Effect(c)
    BY <1>6, StepEffect DEF Inv
  <2>3. QED
    BY <2>1, <2>2, EffectInv
<1>7. CASE UNCHANGED vars
  <2>1. UNCHANGED <<published, dimNames, advertised, request, todo, names, reply, dimsEver, current>>
    BY <1>7 DEF vars, history
  <2>2. Shape' /\ DimensionsKnown'
    BY <2>1, DimensionsStay DEF Inv, Shape, IsReply, published
  <2>3. ASSUME NEW c \in Clients PROVE ClientInv(c)'
    BY <2>1, KnownStays DEF Inv, ClientInv, Subjects, Running, Calling, Op, published
  <2>4. QED
    BY <2>2, <2>3 DEF Inv
<1>8. QED
  BY <1>1, <1>2, <1>3, <1>4, <1>5, <1>6, <1>7 DEF Next

-----------------------------------------------------------------------------

THEOREM Invariant == Spec => []Inv
BY InitInv, NextInv, PTL DEF Spec

(* Whatever is published while a request runs, and however often: the time *)
(* it takes up by mostCurrentTime was current, for the data its last layer *)
(* had at some moment of the request.                                      *)
THEOREM TimesWereCurrent == Spec => []TimeWasCurrent
<1>1. Inv => TimeWasCurrent
  BY DEF Inv, ClientInv, TimeWasCurrent
<1>2. QED
  BY <1>1, Invariant, PTL

(* Two lists of names that begin with the same times, and may or may not   *)
(* end with the elevation: what is taken by one for what is meant by the   *)
(* other is right, and nothing but an elevation is passed over.            *)
LEMMA TakenRight ==
    ASSUME NEW times \in Seq(Dimensions), NEW b \in BOOLEAN, NEW listed \in BOOLEAN
    PROVE  LET path == times \o When(listed, "elevation")
               given == Taken(times \o When(b, "elevation"), path)
           IN /\ \A v \in given : v[1] = v[2]
              /\ \A name \in Range(path) : <<name, name>> \in given \/ (name = "elevation" /\ ~b)
<1> DEFINE ns == times \o When(b, "elevation")
           path == times \o When(listed, "elevation")
           given == Taken(ns, path)
<1>1. times \in Seq(Dimensions) /\ Len(times) \in Nat /\ DOMAIN times = 1..Len(times)
  OBVIOUS
<1>2. ASSUME NEW c \in BOOLEAN
      PROVE  LET s == times \o When(c, "elevation")
             IN /\ DOMAIN s = 1..(Len(times) + (IF c THEN 1 ELSE 0))
                /\ \A i \in DOMAIN s : s[i] = IF i <= Len(times) THEN times[i] ELSE "elevation"
  <2>1. CASE c
    BY <1>1, <2>1 DEF When, Dimensions
  <2>2. CASE ~c
    BY <1>1, <2>2 DEF When, Dimensions
  <2>3. QED
    BY <2>1, <2>2
<1>3. /\ DOMAIN ns = 1..(Len(times) + (IF b THEN 1 ELSE 0))
      /\ \A i \in DOMAIN ns : ns[i] = IF i <= Len(times) THEN times[i] ELSE "elevation"
  BY <1>2
<1>4. /\ DOMAIN path = 1..(Len(times) + (IF listed THEN 1 ELSE 0))
      /\ \A i \in DOMAIN path : path[i] = IF i <= Len(times) THEN times[i] ELSE "elevation"
  BY <1>2
<1> HIDE DEF ns, path
<1>5. \A v \in given : v[1] = v[2]
  BY <1>3, <1>4 DEF Taken
<1>6. ASSUME NEW name \in Range(path)
      PROVE  <<name, name>> \in given \/ (name = "elevation" /\ ~b)
  <2>1. PICK i \in DOMAIN path : path[i] = name
    BY DEF Range
  <2>2. CASE i \in DOMAIN ns
    <3>1. ns[i] = name
      BY <1>3, <1>4, <2>1, <2>2
    <3>2. QED
      BY <2>1, <2>2, <3>1 DEF Taken
  <2>3. CASE i \notin DOMAIN ns
    BY <1>1, <1>3, <1>4, <2>1, <2>3
  <2>4. QED
    BY <2>2, <2>3
<1>7. QED
  BY <1>5, <1>6 DEF ns, path

(* Whichever thread was the first to keep the names, and whatever became   *)
(* of the levels before and since: a layer that was listed with the same   *)
(* times gives the path its meaning, and only a layer whose levels the     *)
(* handler once found not to be OK has an elevation ignored.               *)
THEOREM DimensionsHonoured == Spec => []FixedDimensionsHonoured
<1>1. ASSUME Inv, NEW c \in Clients, reply[c].given # Absent,
             Absent \notin dimsEver[LastLayer(request[c])],
             \A d, e \in dimsEver[LastLayer(request[c])] : d.times = e.times
      PROVE  /\ \A v \in reply[c].given : v[1] = v[2]
             /\ \A name \in Range(request[c].path) :
                   \/ <<name, name>> \in reply[c].given
                   \/ name = "elevation" /\ \E d \in dimsEver[LastLayer(request[c])] : ~d.elevation
  <2> DEFINE l == LastLayer(request[c])
             path == request[c].path
  <2>1. /\ l \in Layers
        /\ path = <<>> \/ Offered(l, path)
        /\ \E d \in dimsEver[l] : reply[c].given = Taken(Collected(d), path)
    BY <1>1 DEF Inv, ClientInv, Subjects
  <2>2. PICK d \in dimsEver[l] : reply[c].given = Taken(Collected(d), path)
    BY <2>1
  <2>3. d.times \in Seq(Dimensions) /\ d.elevation \in BOOLEAN
    BY <1>1, <2>1 DEF Inv, DimensionsKnown
  <2>4. CASE path = <<>>
    BY <2>2, <2>4 DEF Taken, Range
  <2>5. CASE Offered(l, path)
    <3>1. PICK e \in dimsEver[l], b \in BOOLEAN : path = e.times \o When(b, "elevation")
      BY <1>1, <2>5 DEF Offered
    <3>2. e.times = d.times
      BY <1>1
    <3>3. path = d.times \o When(b, "elevation")
      BY <3>1, <3>2
    <3> HIDE DEF l, path
    <3>4. /\ \A v \in reply[c].given : v[1] = v[2]
          /\ \A name \in Range(path) :
                <<name, name>> \in reply[c].given \/ (name = "elevation" /\ ~d.elevation)
      BY <2>2, <2>3, <3>3, TakenRight DEF Collected
    <3>5. QED
      BY <3>4 DEF l, path
  <2>6. QED
    BY <2>1, <2>4, <2>5
<1>2. Inv => FixedDimensionsHonoured
  BY <1>1 DEF FixedDimensionsHonoured
<1>3. QED
  BY <1>2, Invariant, PTL

(* Two threads may collect different names for a layer: those that are     *)
(* stored first are kept.                                                  *)
THEOREM NamesStay == Spec => NamesNeverReplaced
<1>1. ASSUME Inv, [Next]_vars, NEW l \in Layers, dimNames[l] # Absent
      PROVE  dimNames'[l] = dimNames[l]
  <2>1. ASSUME NEW c \in Clients, Step(c) PROVE dimNames'[l] = dimNames[l]
    <3>1. Effect(c)
      BY <1>1, <2>1, StepEffect DEF Inv
    <3>2. QED
      BY <1>1, <3>1 DEF Effect, Inv, Shape
  <2>2. CASE dimNames' = dimNames
    BY <2>2
  <2>3. QED
    BY <1>1, <2>1, <2>2 DEF Next, vars, Tick, Publish, GetCapabilities, Ask, AskByPath, Start
<1>2. Inv /\ [Next]_vars => [\A l \in Layers : dimNames[l] # Absent => dimNames'[l] = dimNames[l]]_dimNames
  BY <1>1
<1>3. QED
  BY <1>2, Invariant, PTL DEF Spec, NamesNeverReplaced

=============================================================================
