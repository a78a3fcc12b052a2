--------------------- MODULE LayerRequestsAnswersProofs ---------------------
(***************************************************************************)
(* What the calls of a request of LayerRequests establish one after the    *)
(* other, and what is known when the last of them answers.                 *)
(***************************************************************************)
EXTENDS LayerRequestsProofs, OperatorLemmas

(* Only WMTS clients put values of dimensions in the path. *)
IsSent(r) == IsRequest(r) /\ (r.path # <<>> => r.front # "map")

-----------------------------------------------------------------------------
(* The calls of a request *)

Operations == Lookups \cup {"isValidLayer", "layerCustomer", "orderedDimensionNames", "json"}

(* A value is checked only if it is given. *)
Fitting(r) ==
    {call \in [op : Operations, layer : Asked(r)] :
        /\ call.op = "isValidStyle" => r.style # Default
        /\ call.op = "isValidReferenceTime" => r.reference # NotADateTime
        /\ call.op = "isValidTime" => r.time # NotADateTime
        /\ call.op = "isValidElevation" => r.elevation # -1}

(* What a layer has when the call for it does not refuse the request *)
Shows(op, r) ==
    CASE op = "isValidLayer" -> {"layer"} \cup (IF r.style = Default THEN {"style"} ELSE {})
      [] op = "isValidStyle" -> {"style"}
      [] op = "isValidTime" -> {"time"}
      [] op = "isValidReferenceTime" -> {"reference_time"}
      [] op = "isValidElevation" -> {"elevation"}
      [] OTHER -> {}

LEMMA SeqMonotone ==
    ASSUME NEW S, NEW T, S \subseteq T, NEW s \in Seq(S) PROVE s \in Seq(T)
OBVIOUS

LEMMA Concatenated ==
    ASSUME NEW S, NEW a \in Seq(S), NEW z \in Seq(S)
    PROVE  a \o z \in Seq(S) /\ Range(a \o z) = Range(a) \cup Range(z)
BY ConcatProperties, RangeConcatenation

LEMMA OneCall ==
    ASSUME NEW S, NEW x \in S PROVE <<x>> \in Seq(S) /\ Range(<<x>>) = {x}
BY DEF Range

LEMMA TwoCalls ==
    ASSUME NEW S, NEW x \in S, NEW y \in S
    PROVE  <<x, y>> \in Seq(S) /\ Range(<<x, y>>) = {x, y}
BY DEF Range

LEMMA ThreeCalls ==
    ASSUME NEW S, NEW x \in S, NEW y \in S, NEW z \in S
    PROVE  <<x, y, z>> \in Seq(S) /\ Range(<<x, y, z>>) = {x, y, z}
BY DEF Range

LEMMA LayersAsked ==
    ASSUME NEW r, IsRequest(r)
    PROVE  /\ r.layers \in Seq(Asked(r)) /\ r.layers # <<>> /\ Len(r.layers) \in Nat \ {0}
           /\ DOMAIN r.layers = 1..Len(r.layers)
           /\ Asked(r) = {r.layers[i] : i \in 1..Len(r.layers)}
           /\ Asked(r) \subseteq Layers /\ LastLayer(r) \in Asked(r)
<1>1. r.layers \in Seq(Layers) /\ r.layers # <<>>
  BY DEF IsRequest
<1>2. Len(r.layers) \in Nat \ {0} /\ DOMAIN r.layers = 1..Len(r.layers)
  BY <1>1, EmptySeq, LenProperties
<1>3. r.layers \in Seq(Asked(r)) /\ Asked(r) = {r.layers[i] : i \in 1..Len(r.layers)}
  BY <1>1, SeqOfRange, RangeEquality DEF Asked
<1>4. Asked(r) \subseteq Layers
  BY <1>1, RangeOfSeq DEF Asked
<1>5. Len(r.layers) \in 1..Len(r.layers)
  BY <1>2
<1>6. LastLayer(r) \in Asked(r)
  BY <1>3, <1>5 DEF LastLayer, Last
<1>7. QED
  BY <1>1, <1>2, <1>3, <1>4, <1>6

(* Calls for one layer after the other *)
LEMMA EachLayer ==
    ASSUME NEW S, NEW r, IsRequest(r), NEW ss, ss = [i \in DOMAIN r.layers |-> ss[i]],
           \A i \in DOMAIN r.layers : ss[i] \in Seq(S)
    PROVE  /\ FlattenSeq(ss) \in Seq(S)
           /\ \A i \in DOMAIN r.layers : Range(ss[i]) \subseteq Range(FlattenSeq(ss))
<1>1. Len(r.layers) \in Nat \ {0} /\ DOMAIN r.layers = 1..Len(r.layers)
  BY LayersAsked
<1>2. ss \in Seq(Seq(S)) /\ Len(ss) = Len(r.layers)
  BY <1>1, FunctionIsSeq
<1>3. ss # <<>>
  BY <1>1, <1>2
<1>4. QED
  BY <1>1, <1>2, <1>3, FlattenSeqType

(* The last call, and only the last one, is that of Product::init. *)
AnyCall(r) == Fitting(r) \cup {Call("init", LastLayer(r))}

IsTodo(s, r) ==
    /\ s \in Seq(AnyCall(r)) /\ Len(s) \in Nat \ {0}
    /\ s[Len(s)] = Call("init", LastLayer(r))
    /\ \A i \in 1..(Len(s) - 1) : s[i] \in Fitting(r)

LEMMA Prepended ==
    ASSUME NEW r, NEW a \in Seq(Fitting(r)), NEW z, IsTodo(z, r)
    PROVE  /\ IsTodo(a \o z, r)
           /\ Range(a) \subseteq Range(a \o z) /\ Range(z) \subseteq Range(a \o z)
<1>1. /\ a \in Seq(AnyCall(r)) /\ z \in Seq(AnyCall(r))
      /\ Len(a) \in Nat /\ Len(z) \in Nat \ {0}
      /\ \A i \in 1..Len(a) : a[i] \in Fitting(r)
  BY LenProperties, ElementOfSeq DEF IsTodo, AnyCall
<1>2. /\ a \o z \in Seq(AnyCall(r)) /\ Len(a \o z) = Len(a) + Len(z)
      /\ \A i \in 1..(Len(a) + Len(z)) : (a \o z)[i] = IF i <= Len(a) THEN a[i] ELSE z[i - Len(a)]
  BY <1>1, ConcatProperties
<1>3. Range(a \o z) = Range(a) \cup Range(z)
  BY <1>1, RangeConcatenation
<1>4. (a \o z)[Len(a \o z)] = Call("init", LastLayer(r))
  BY <1>1, <1>2 DEF IsTodo
<1>5. ASSUME NEW i \in 1..(Len(a \o z) - 1) PROVE (a \o z)[i] \in Fitting(r)
  <2>1. CASE i <= Len(a)
    BY <1>1, <1>2, <2>1
  <2>2. CASE ~(i <= Len(a))
    <3>1. i \in 1..(Len(a) + Len(z)) /\ i - Len(a) \in 1..(Len(z) - 1)
      BY <1>1, <1>2, <2>2
    <3>2. QED
      BY <1>2, <2>2, <3>1 DEF IsTodo
  <2>3. QED
    BY <2>1, <2>2
<1>6. QED
  BY <1>1, <1>2, <1>3, <1>4, <1>5 DEF IsTodo

(* The calls made when values are in the path *)
PathCalls == {"orderedDimensionNames", "getLayer"}

IsPlain(s) == \A i \in 1..Len(s) : s[i].op \notin PathCalls

PathCallsAt(s, r) ==
    IF r.path = <<>> THEN IsPlain(s)
    ELSE \E n \in 1..(Len(s) - 1) :
            /\ s[n].op = "orderedDimensionNames" /\ s[n + 1].op = "getLayer"
            /\ \A i \in 1..Len(s) \ {n, n + 1} : s[i].op \notin PathCalls

LEMMA PlainConcat ==
    ASSUME NEW S, NEW a \in Seq(S), NEW z \in Seq(S), IsPlain(a), IsPlain(z)
    PROVE  IsPlain(a \o z)
<1>1. Len(a) \in Nat /\ Len(z) \in Nat
  BY LenProperties
<1>2. /\ Len(a \o z) = Len(a) + Len(z)
      /\ \A i \in 1..(Len(a) + Len(z)) : (a \o z)[i] = IF i <= Len(a) THEN a[i] ELSE z[i - Len(a)]
  BY ConcatProperties
<1>3. QED
  BY <1>1, <1>2 DEF IsPlain

LEMMA PathCallsBefore ==
    ASSUME NEW S, NEW a \in Seq(S), NEW z \in Seq(S), NEW r, PathCallsAt(a, r), IsPlain(z)
    PROVE  PathCallsAt(a \o z, r)
<1>1. Len(a) \in Nat /\ Len(z) \in Nat
  BY LenProperties
<1>2. /\ Len(a \o z) = Len(a) + Len(z)
      /\ \A i \in 1..(Len(a) + Len(z)) : (a \o z)[i] = IF i <= Len(a) THEN a[i] ELSE z[i - Len(a)]
  BY ConcatProperties
<1>3. CASE r.path = <<>>
  BY <1>3, PlainConcat DEF PathCallsAt
<1>4. CASE r.path # <<>>
  <2>1. PICK n \in 1..(Len(a) - 1) :
            /\ a[n].op = "orderedDimensionNames" /\ a[n + 1].op = "getLayer"
            /\ \A i \in 1..Len(a) \ {n, n + 1} : a[i].op \notin PathCalls
    BY <1>4 DEF PathCallsAt
  <2>2. /\ n \in 1..(Len(a \o z) - 1)
        /\ (a \o z)[n] = a[n] /\ (a \o z)[n + 1] = a[n + 1]
    BY <1>1, <1>2
  <2>3. ASSUME NEW i \in 1..Len(a \o z) \ {n, n + 1} PROVE (a \o z)[i].op \notin PathCalls
    <3>1. CASE i <= Len(a)
      BY <1>1, <1>2, <2>1, <3>1
    <3>2. CASE ~(i <= Len(a))
      <4>1. i \in 1..(Len(a) + Len(z)) /\ i - Len(a) \in 1..Len(z)
        BY <1>1, <1>2, <3>2
      <4>2. QED
        BY <1>2, <3>2, <4>1 DEF IsPlain
    <3>3. QED
      BY <3>1, <3>2
  <2>4. QED
    BY <1>4, <2>1, <2>2, <2>3 DEF PathCallsAt
<1>5. QED
  BY <1>3, <1>4

LEMMA PathCallsAfter ==
    ASSUME NEW S, NEW a \in Seq(S), NEW z \in Seq(S), NEW r, IsPlain(a),
           IF r.path = <<>> THEN Len(z) = 0
           ELSE Len(z) = 2 /\ z[1].op = "orderedDimensionNames" /\ z[2].op = "getLayer"
    PROVE  PathCallsAt(a \o z, r)
<1>1. Len(a) \in Nat /\ Len(z) \in Nat
  BY LenProperties
<1>2. /\ Len(a \o z) = Len(a) + Len(z)
      /\ \A i \in 1..(Len(a) + Len(z)) : (a \o z)[i] = IF i <= Len(a) THEN a[i] ELSE z[i - Len(a)]
  BY ConcatProperties
<1>3. CASE r.path = <<>>
  BY <1>1, <1>2, <1>3 DEF PathCallsAt, IsPlain
<1>4. CASE r.path # <<>>
  <2> DEFINE n == Len(a) + 1
  <2>1. Len(z) = 2 /\ z[1].op = "orderedDimensionNames" /\ z[2].op = "getLayer"
    BY <1>4
  <2>2. Len(a \o z) = Len(a) + 2
    BY <1>2, <2>1
  <2>3. n \in 1..(Len(a \o z) - 1) /\ n \in 1..(Len(a) + Len(z)) /\ n + 1 \in 1..(Len(a) + Len(z))
    BY <1>1, <2>1, <2>2
  <2>4. ~(n <= Len(a)) /\ ~(n + 1 <= Len(a)) /\ n - Len(a) = 1 /\ (n + 1) - Len(a) = 2
    BY <1>1
  <2>5. (a \o z)[n] = z[1] /\ (a \o z)[n + 1] = z[2]
    BY <1>2, <2>3, <2>4
  <2>6. \A i \in 1..Len(a \o z) \ {n, n + 1} : i \in 1..Len(a) /\ i <= Len(a)
    BY <1>1, <2>2
  <2>7. \A i \in 1..Len(a \o z) \ {n, n + 1} : (a \o z)[i] = a[i]
    BY <1>1, <1>2, <2>1, <2>6
  <2> HIDE DEF n
  <2>8. QED
    BY <1>4, <2>1, <2>3, <2>5, <2>6, <2>7 DEF PathCallsAt, IsPlain
<1>5. QED
  BY <1>3, <1>4

(* What there is a call for before the last one *)
Covers(s, r) ==
    /\ \A l \in Asked(r), o \in MustHave(r) :
          \E call \in Range(s) : call.layer = l /\ o \in Shows(call.op, r)
    /\ Call("layerCustomer", LastLayer(r)) \in Range(s)
    /\ r.time = NotADateTime => Call("mostCurrentTime", LastLayer(r)) \in Range(s)

LEMMA FittingCall ==
    ASSUME NEW r, NEW op \in Operations, NEW l \in Asked(r),
           op = "isValidStyle" => r.style # Default,
           op = "isValidReferenceTime" => r.reference # NotADateTime,
           op = "isValidTime" => r.time # NotADateTime,
           op = "isValidElevation" => r.elevation # -1
    PROVE  Call(op, l) \in Fitting(r)
BY DEF Call, Fitting

LEMMA TileCallsType ==
    ASSUME NEW r, IsSent(r), r.front # "map"
    PROVE  IsTodo(TileCalls(r), r) /\ PathCallsAt(TileCalls(r), r) /\ Covers(TileCalls(r), r)
<1> DEFINE l == LastLayer(r)
           plain == {call \in Fitting(r) : call.op \notin PathCalls}
           valid == Calls(TRUE, <<"isValidLayer">>, l)
           style == Calls(r.front = "wmts", <<StyleCheck(r)>>, l)
           customer == Calls(TRUE, <<"layerCustomer">>, l)
           path == Calls(r.path # <<>>, <<"orderedDimensionNames", "getLayer">>, l)
           time == Calls(r.time = NotADateTime, <<"isTemporal", "mostCurrentTime">>, l)
           product == Calls(TRUE, <<"json", "layerCustomer", "layerCustomer", "init">>, l)
<1>1. l \in Asked(r)
  BY LayersAsked DEF IsSent
<1>2. \A op \in (Operations \ PathCalls) \ Checks : Call(op, l) \in plain
  BY <1>1, FittingCall DEF Call, Checks
<1>3. /\ Call(StyleCheck(r), l) \in plain /\ Call("isValidLayer", l) \in plain
      /\ Call("layerCustomer", l) \in plain /\ Call("json", l) \in plain
      /\ Call("isTemporal", l) \in plain /\ Call("mostCurrentTime", l) \in plain
      /\ Call("orderedDimensionNames", l) \in Fitting(r) /\ Call("getLayer", l) \in Fitting(r)
  BY <1>1, <1>2, FittingCall
     DEF Call, StyleCheck, Operations, Lookups, Checks, TimeCalls, PathCalls
<1>4. /\ valid = <<Call("isValidLayer", l)>>
      /\ style = IF r.front = "wmts" THEN <<Call(StyleCheck(r), l)>> ELSE <<>>
      /\ customer = <<Call("layerCustomer", l)>>
      /\ path = IF r.path # <<>>
                THEN <<Call("orderedDimensionNames", l), Call("getLayer", l)>> ELSE <<>>
      /\ time = IF r.time = NotADateTime
                THEN <<Call("isTemporal", l), Call("mostCurrentTime", l)>> ELSE <<>>
      /\ product = <<Call("json", l), Call("layerCustomer", l), Call("layerCustomer", l), Call("init", l)>>
      /\ TileCalls(r) = valid \o style \o customer \o path \o time \o product
      /\ plain \subseteq Fitting(r) /\ \A call \in plain : call.op \notin PathCalls
  BY DEF Calls, TileCalls
<1> HIDE DEF l, plain, valid, style, customer, path, time, product
<1>5. valid \in Seq(plain) /\ Call("isValidLayer", l) \in Range(valid)
  BY <1>3, <1>4, OneCall
<1>6. style \in Seq(plain) /\ (r.front = "wmts" => Call(StyleCheck(r), l) \in Range(style))
  BY <1>3, <1>4, OneCall
<1>7. customer \in Seq(plain) /\ Call("layerCustomer", l) \in Range(customer)
  BY <1>3, <1>4, OneCall
<1>8. time \in Seq(plain) /\ (r.time = NotADateTime => Call("mostCurrentTime", l) \in Range(time))
  BY <1>3, <1>4, TwoCalls
<1>9. /\ path \in Seq(Fitting(r))
      /\ IF r.path = <<>> THEN Len(path) = 0
         ELSE /\ Len(path) = 2
              /\ path[1].op = "orderedDimensionNames" /\ path[2].op = "getLayer"
  BY <1>3, <1>4, TwoCalls DEF Call
<1>10. IsTodo(product, r) /\ IsPlain(product)
  <2>1. IsTodo(product, r)
    BY <1>3, <1>4 DEF IsTodo, AnyCall, l
  <2>2. IsPlain(product)
    BY <1>4 DEF IsPlain, Call, PathCalls
  <2>3. QED
    BY <2>1, <2>2
<1> DEFINE checks == valid \o style
           first == checks \o customer
           early == first \o path
           most == early \o time
<1>11. TileCalls(r) = most \o product
  BY <1>4
<1>12. checks \in Seq(plain) /\ Range(checks) = Range(valid) \cup Range(style)
  BY <1>5, <1>6, Concatenated
<1> HIDE DEF checks
<1>13. /\ first \in Seq(plain) /\ IsPlain(first) /\ IsPlain(time)
       /\ Range(first) = Range(valid) \cup Range(style) \cup Range(customer)
  <2>1. first \in Seq(plain) /\ Range(first) = Range(checks) \cup Range(customer)
    BY <1>7, <1>12, Concatenated
  <2>2. QED
    BY <1>4, <1>8, <1>12, <2>1, ElementOfSeq DEF IsPlain
<1> HIDE DEF first
<1>14. first \in Seq(Fitting(r)) /\ time \in Seq(Fitting(r))
  BY <1>4, <1>8, <1>13, SeqMonotone
<1>15. /\ early \in Seq(Fitting(r)) /\ Range(early) = Range(first) \cup Range(path)
       /\ PathCallsAt(early, r)
  BY <1>9, <1>13, <1>14, Concatenated, PathCallsAfter
<1> HIDE DEF early
<1>16. /\ most \in Seq(Fitting(r)) /\ Range(most) = Range(early) \cup Range(time)
       /\ PathCallsAt(most, r)
  BY <1>13, <1>14, <1>15, Concatenated, PathCallsBefore
<1> HIDE DEF most
<1>17. IsTodo(TileCalls(r), r) /\ Range(most) \subseteq Range(TileCalls(r))
  BY <1>10, <1>11, <1>16, Prepended
<1>18. PathCallsAt(TileCalls(r), r)
  <2>1. most \in Seq(AnyCall(r)) /\ product \in Seq(AnyCall(r))
    BY <1>10, <1>16, SeqMonotone DEF IsTodo, AnyCall
  <2>2. QED
    BY <1>10, <1>11, <1>16, <2>1, PathCallsBefore
<1>19. Covers(TileCalls(r), r)
  <2>1. Asked(r) = {l}
    <3>1. Len(r.layers) = 1 /\ Asked(r) = {r.layers[i] : i \in 1..Len(r.layers)}
      BY LayersAsked DEF IsSent, IsRequest
    <3>2. QED
      BY <1>1, <3>1
  <2>2. r.front = "wmts" => "style" \in Shows(StyleCheck(r), r)
    BY DEF Shows, StyleCheck
  <2>3. "layer" \in Shows("isValidLayer", r)
    BY DEF Shows
  <2>4. Range(valid) \cup Range(style) \cup Range(customer) \cup Range(time) \subseteq Range(TileCalls(r))
    BY <1>13, <1>15, <1>16, <1>17
  <2>5. \A o \in MustHave(r) : \E call \in Range(TileCalls(r)) : call.layer = l /\ o \in Shows(call.op, r)
    <3>1. /\ Call("isValidLayer", l) \in Range(TileCalls(r))
          /\ r.front = "wmts" => Call(StyleCheck(r), l) \in Range(TileCalls(r))
      BY <1>5, <1>6, <2>4
    <3>2. Call("isValidLayer", l).layer = l /\ "layer" \in Shows(Call("isValidLayer", l).op, r)
      BY <2>3 DEF Call
    <3>3. r.front = "wmts" =>
             Call(StyleCheck(r), l).layer = l /\ "style" \in Shows(Call(StyleCheck(r), l).op, r)
      BY <2>2 DEF Call
    <3>4. \A o \in MustHave(r) : o = "layer" \/ (o = "style" /\ r.front = "wmts")
      BY DEF MustHave, IsSent, IsRequest
    <3>5. QED
      BY <3>1, <3>2, <3>3, <3>4
  <2>6. QED
    BY <1>7, <1>8, <2>1, <2>4, <2>5 DEF Covers, l
<1>20. QED
  BY <1>17, <1>18, <1>19

LEMMA ShownByCall ==
    ASSUME NEW r, NEW calls, NEW l, NEW op, Call(op, l) \in calls, NEW o \in Shows(op, r)
    PROVE  \E call \in calls : call.layer = l /\ o \in Shows(call.op, r)
<1>1. Call(op, l).layer = l /\ Call(op, l).op = op
  BY DEF Call
<1>2. QED
  BY <1>1

Plain(r) == {call \in Fitting(r) : call.op \notin PathCalls}

LEMMA ValidateOptionsType ==
    ASSUME NEW r, IsSent(r), NEW l \in Asked(r)
    PROVE  /\ ValidateOptions(r, l) \in Seq(Plain(r))
           /\ \A o \in MustHave(r) :
                 \E call \in Range(ValidateOptions(r, l)) : call.layer = l /\ o \in Shows(call.op, r)
<1> DEFINE always == Calls(TRUE, <<"isValidLayer", StyleCheck(r), "isValidCRS">>, l)
           reference == Calls(r.reference # NotADateTime, <<"isValidReferenceTime">>, l)
           time == Calls(r.time # NotADateTime, <<"isValidTime">>, l)
           elevation == Calls(r.elevation # -1, <<"isValidElevation">>, l)
           dated == always \o reference
           timed == dated \o time
<1>1. /\ always = <<Call("isValidLayer", l), Call(StyleCheck(r), l), Call("isValidCRS", l)>>
      /\ reference = IF r.reference # NotADateTime THEN <<Call("isValidReferenceTime", l)>> ELSE <<>>
      /\ time = IF r.time # NotADateTime THEN <<Call("isValidTime", l)>> ELSE <<>>
      /\ elevation = IF r.elevation # -1 THEN <<Call("isValidElevation", l)>> ELSE <<>>
      /\ ValidateOptions(r, l) = timed \o elevation
  BY DEF Calls, ValidateOptions
<1>2. /\ Call("isValidLayer", l) \in Plain(r) /\ Call(StyleCheck(r), l) \in Plain(r)
      /\ Call("isValidCRS", l) \in Plain(r)
      /\ r.reference # NotADateTime => Call("isValidReferenceTime", l) \in Plain(r)
      /\ r.time # NotADateTime => Call("isValidTime", l) \in Plain(r)
      /\ r.elevation # -1 => Call("isValidElevation", l) \in Plain(r)
  BY FittingCall DEF Plain, Call, StyleCheck, Operations, Lookups, Checks, PathCalls
<1> HIDE DEF always, reference, time, elevation
<1>3. /\ always \in Seq(Plain(r))
      /\ Range(always) = {Call("isValidLayer", l), Call(StyleCheck(r), l), Call("isValidCRS", l)}
  BY <1>1, <1>2, ThreeCalls
<1>4. /\ reference \in Seq(Plain(r))
      /\ r.reference # NotADateTime => Call("isValidReferenceTime", l) \in Range(reference)
  BY <1>1, <1>2, OneCall
<1>5. /\ time \in Seq(Plain(r))
      /\ r.time # NotADateTime => Call("isValidTime", l) \in Range(time)
  BY <1>1, <1>2, OneCall
<1>6. /\ elevation \in Seq(Plain(r))
      /\ r.elevation # -1 => Call("isValidElevation", l) \in Range(elevation)
  BY <1>1, <1>2, OneCall
<1>7. dated \in Seq(Plain(r)) /\ Range(dated) = Range(always) \cup Range(reference)
  BY <1>3, <1>4, Concatenated
<1> HIDE DEF dated
<1>8. timed \in Seq(Plain(r)) /\ Range(timed) = Range(dated) \cup Range(time)
  BY <1>5, <1>7, Concatenated
<1> HIDE DEF timed
<1>9. /\ ValidateOptions(r, l) \in Seq(Plain(r))
      /\ Range(ValidateOptions(r, l)) = Range(timed) \cup Range(elevation)
  <2>1. /\ timed \o elevation \in Seq(Plain(r))
        /\ Range(timed \o elevation) = Range(timed) \cup Range(elevation)
    BY <1>6, <1>8, Concatenated
  <2>2. QED
    BY <1>1, <2>1
<1>10. ASSUME NEW o \in MustHave(r)
       PROVE  \E call \in Range(ValidateOptions(r, l)) : call.layer = l /\ o \in Shows(call.op, r)
  <2>1. \A op : /\ Call(op, l) \in Range(ValidateOptions(r, l)) /\ o \in Shows(op, r)
                => \E call \in Range(ValidateOptions(r, l)) : call.layer = l /\ o \in Shows(call.op, r)
    BY ShownByCall
  <2>2. /\ Call("isValidLayer", l) \in Range(ValidateOptions(r, l))
        /\ Call(StyleCheck(r), l) \in Range(ValidateOptions(r, l))
        /\ r.time # NotADateTime => Call("isValidTime", l) \in Range(ValidateOptions(r, l))
        /\ r.reference # NotADateTime => Call("isValidReferenceTime", l) \in Range(ValidateOptions(r, l))
        /\ r.elevation # -1 => Call("isValidElevation", l) \in Range(ValidateOptions(r, l))
    BY <1>3, <1>4, <1>5, <1>6, <1>7, <1>8, <1>9
  <2>3. CASE o = "layer"
    <3>1. "layer" \in Shows("isValidLayer", r)
      BY DEF Shows
    <3>2. QED
      BY <2>1, <2>2, <2>3, <3>1
  <2>4. CASE o = "style"
    <3>1. "style" \in Shows(StyleCheck(r), r)
      BY DEF Shows, StyleCheck
    <3>2. QED
      BY <2>1, <2>2, <2>4, <3>1
  <2>5. CASE o = "time" /\ r.time # NotADateTime
    <3>1. "time" \in Shows("isValidTime", r)
      BY DEF Shows
    <3>2. QED
      BY <2>1, <2>2, <2>5, <3>1
  <2>6. CASE o = "reference_time" /\ r.reference # NotADateTime
    <3>1. "reference_time" \in Shows("isValidReferenceTime", r)
      BY DEF Shows
    <3>2. QED
      BY <2>1, <2>2, <2>6, <3>1
  <2>7. CASE o = "elevation" /\ r.elevation # -1
    <3>1. "elevation" \in Shows("isValidElevation", r)
      BY DEF Shows
    <3>2. QED
      BY <2>1, <2>2, <2>7, <3>1
  <2>8. QED
    BY <2>3, <2>4, <2>5, <2>6, <2>7 DEF MustHave, Given
<1>11. QED
  BY <1>9, <1>10

LEMMA MapCallsType ==
    ASSUME NEW r, IsSent(r), r.front = "map"
    PROVE  IsTodo(MapCalls(r), r) /\ PathCallsAt(MapCalls(r), r) /\ Covers(MapCalls(r), r)
<1> DEFINE last == LastLayer(r)
           validOf == [i \in DOMAIN r.layers |-> Calls(TRUE, <<"isValidLayer">>, r.layers[i])]
           optionsOf == [i \in DOMAIN r.layers |-> ValidateOptions(r, r.layers[i])]
           filesOf == [i \in DOMAIN r.layers |-> Calls(TRUE, <<"json">>, r.layers[i])]
           valid == FlattenSeq(validOf)
           options == FlattenSeq(optionsOf)
           interval == Calls(TRUE, <<"getDefaultInterval", "layerCustomer">>, last)
           time == Calls(r.time = NotADateTime, <<"isTemporal", "currentValue", "mostCurrentTime">>, last)
           files == FlattenSeq(filesOf)
           end == Calls(TRUE, <<"init">>, last)
           checks == valid \o options
           first == checks \o interval
           dated == first \o time
           most == dated \o files
<1>1. /\ IsRequest(r) /\ last \in Asked(r)
      /\ DOMAIN r.layers = 1..Len(r.layers) /\ Asked(r) = {r.layers[i] : i \in 1..Len(r.layers)}
  BY LayersAsked DEF IsSent
<1>2. \A l \in Asked(r) : \A op \in (Operations \ PathCalls) \ Checks : Call(op, l) \in Plain(r)
  BY FittingCall DEF Call, Checks, Plain
<1>3. \A l \in Asked(r) :
         /\ Call("isValidLayer", l) \in Plain(r) /\ Call("json", l) \in Plain(r)
         /\ Call("getDefaultInterval", l) \in Plain(r) /\ Call("layerCustomer", l) \in Plain(r)
         /\ Call("isTemporal", l) \in Plain(r) /\ Call("currentValue", l) \in Plain(r)
         /\ Call("mostCurrentTime", l) \in Plain(r)
  BY <1>2 DEF Operations, Lookups, Checks, TimeCalls, PathCalls
<1>4. MapCalls(r) = most \o end
  BY DEF MapCalls, ForEachLayer
<1>5. /\ interval = <<Call("getDefaultInterval", last), Call("layerCustomer", last)>>
      /\ time = IF r.time = NotADateTime
                THEN <<Call("isTemporal", last), Call("currentValue", last), Call("mostCurrentTime", last)>>
                ELSE <<>>
      /\ end = <<Call("init", last)>>
  BY DEF Calls
<1>6. valid \in Seq(Plain(r))
  <2>1. \A i \in DOMAIN r.layers : validOf[i] = <<Call("isValidLayer", r.layers[i])>>
    BY DEF Calls
  <2>2. \A i \in DOMAIN r.layers : validOf[i] \in Seq(Plain(r))
    BY <1>1, <1>3, <2>1, OneCall
  <2>3. validOf = [i \in DOMAIN r.layers |-> validOf[i]]
    OBVIOUS
  <2> HIDE DEF validOf
  <2>4. QED
    BY <1>1, <2>2, <2>3, EachLayer
<1>7. /\ options \in Seq(Plain(r))
      /\ \A l \in Asked(r) : Range(ValidateOptions(r, l)) \subseteq Range(options)
  <2>1. \A i \in DOMAIN r.layers : optionsOf[i] = ValidateOptions(r, r.layers[i])
    OBVIOUS
  <2>2. \A i \in DOMAIN r.layers : optionsOf[i] \in Seq(Plain(r))
    BY <1>1, <2>1, ValidateOptionsType
  <2>3. optionsOf = [i \in DOMAIN r.layers |-> optionsOf[i]]
    OBVIOUS
  <2> HIDE DEF optionsOf
  <2>4. options \in Seq(Plain(r)) /\ \A i \in DOMAIN r.layers : Range(optionsOf[i]) \subseteq Range(options)
    BY <1>1, <2>2, <2>3, EachLayer
  <2>5. QED
    BY <1>1, <2>1, <2>4
<1>8. files \in Seq(Plain(r))
  <2>1. \A i \in DOMAIN r.layers : filesOf[i] = <<Call("json", r.layers[i])>>
    BY DEF Calls
  <2>2. \A i \in DOMAIN r.layers : filesOf[i] \in Seq(Plain(r))
    BY <1>1, <1>3, <2>1, OneCall
  <2>3. filesOf = [i \in DOMAIN r.layers |-> filesOf[i]]
    OBVIOUS
  <2> HIDE DEF filesOf
  <2>4. QED
    BY <1>1, <2>2, <2>3, EachLayer
<1> HIDE DEF last, valid, options, interval, time, files, end
<1>9. interval \in Seq(Plain(r)) /\ Call("layerCustomer", last) \in Range(interval)
  BY <1>1, <1>3, <1>5, TwoCalls
<1>10. /\ time \in Seq(Plain(r))
       /\ r.time = NotADateTime => Call("mostCurrentTime", last) \in Range(time)
  BY <1>1, <1>3, <1>5, ThreeCalls
<1>11. checks \in Seq(Plain(r)) /\ Range(checks) = Range(valid) \cup Range(options)
  BY <1>6, <1>7, Concatenated
<1> HIDE DEF checks
<1>12. first \in Seq(Plain(r)) /\ Range(first) = Range(checks) \cup Range(interval)
  BY <1>9, <1>11, Concatenated
<1> HIDE DEF first
<1>13. dated \in Seq(Plain(r)) /\ Range(dated) = Range(first) \cup Range(time)
  BY <1>10, <1>12, Concatenated
<1> HIDE DEF dated
<1>14. most \in Seq(Plain(r)) /\ Range(most) = Range(dated) \cup Range(files)
  BY <1>8, <1>13, Concatenated
<1> HIDE DEF most
<1>15. most \in Seq(Fitting(r)) /\ IsPlain(most)
  BY <1>14, SeqMonotone, ElementOfSeq DEF Plain, IsPlain
<1>16. IsTodo(end, r) /\ IsPlain(end)
  <2>1. IsTodo(end, r)
    BY <1>5 DEF IsTodo, AnyCall, last
  <2>2. IsPlain(end)
    BY <1>5 DEF IsPlain, Call, PathCalls
  <2>3. QED
    BY <2>1, <2>2
<1>17. IsTodo(MapCalls(r), r) /\ Range(most) \subseteq Range(MapCalls(r))
  BY <1>4, <1>15, <1>16, Prepended
<1>18. PathCallsAt(MapCalls(r), r)
  <2>1. most \in Seq(AnyCall(r)) /\ end \in Seq(AnyCall(r))
    BY <1>15, <1>16, SeqMonotone DEF IsTodo, AnyCall
  <2>2. IsPlain(MapCalls(r))
    BY <1>4, <1>15, <1>16, <2>1, PlainConcat
  <2>3. QED
    BY <2>2 DEF PathCallsAt, IsSent
<1>19. Covers(MapCalls(r), r)
  <2>1. Range(options) \cup Range(interval) \cup Range(time) \subseteq Range(MapCalls(r))
    BY <1>11, <1>12, <1>13, <1>14, <1>17
  <2>2. ASSUME NEW l \in Asked(r), NEW o \in MustHave(r)
        PROVE  \E call \in Range(MapCalls(r)) : call.layer = l /\ o \in Shows(call.op, r)
    BY <1>7, <2>1, ValidateOptionsType
  <2>3. QED
    BY <1>9, <1>10, <2>1, <2>2 DEF Covers, last
<1>20. QED
  BY <1>17, <1>18, <1>19

LEMMA CallsOfType ==
    ASSUME NEW r, IsSent(r)
    PROVE  IsTodo(CallsOf(r), r) /\ PathCallsAt(CallsOf(r), r) /\ Covers(CallsOf(r), r)
BY TileCallsType, MapCallsType DEF CallsOf

-----------------------------------------------------------------------------
(* The times of a layer *)

LEMMA StepsOfRuns ==
    ASSUME NEW m, IsVersion(m), isTemporal(m)
    PROVE  /\ DefaultRun(m) \in SUBSET Nat /\ DefaultRun(m) # {} /\ IsFiniteSet(DefaultRun(m))
           /\ \A run \in DOMAIN m.runs :
                 m.runs[run] \in SUBSET Nat /\ m.runs[run] # {} /\ IsFiniteSet(m.runs[run])
<1>1. Max(DOMAIN m.runs) \in DOMAIN m.runs
  <2>1. CASE DOMAIN m.runs \subseteq Nat
    BY <2>1, MaxOfNaturals DEF IsVersion, isTemporal
  <2>2. CASE DOMAIN m.runs = {NotADateTime}
    <3>1. \E x \in DOMAIN m.runs : \A y \in DOMAIN m.runs : x >= y
      BY <2>2 DEF NotADateTime
    <3>2. QED
      BY <3>1, Zenon DEF Max
  <2>3. QED
    BY <2>1, <2>2 DEF IsVersion
<1>2. QED
  BY <1>1 DEF IsVersion, DefaultRun

LEMMA NearestIsOne ==
    ASSUME NEW steps \in SUBSET Nat, steps # {}, NEW clock \in Nat
    PROVE  Nearest(steps, clock) \in steps
<1> DEFINE Distance(t) == IF t < clock THEN clock - t ELSE t - clock
           distances == {Distance(t) : t \in steps}
           nearest == {t \in steps : \A other \in steps : Distance(t) <= Distance(other)}
<1>1. \A t \in steps : Distance(t) \in Nat
  OBVIOUS
<1>2. distances \in SUBSET Nat /\ distances # {}
  BY <1>1
<1>3. Nearest(steps, clock) = Min(nearest)
  BY DEF Nearest
<1> HIDE DEF Distance
<1>4. PICK t \in steps : \A other \in distances : Distance(t) <= other
  <2> HIDE DEF distances
  <2>1. \E d \in distances : \A other \in distances : d <= other
    BY <1>2, LeastNatural
  <2> USE DEF distances
  <2>2. QED
    BY <2>1
<1>5. t \in nearest
  BY <1>4
<1>6. nearest \in SUBSET Nat /\ nearest \subseteq steps
  OBVIOUS
<1> HIDE DEF nearest
<1>7. QED
  BY <1>3, <1>5, <1>6, MinOfNaturals

LEMMA CurrentTimeType ==
    ASSUME NEW m, IsVersion(m), NEW clock \in Nat, NEW run,
           isTemporal(m) => run \in DOMAIN m.runs \cup {NotADateTime}
    PROVE  mostCurrentTime(m, run, clock) \in Nat \cup {NotADateTime}
<1>1. CASE ~isTemporal(m)
  BY <1>1 DEF mostCurrentTime
<1>2. CASE isTemporal(m) /\ run = NotADateTime
  <2>1. DefaultRun(m) \in SUBSET Nat /\ DefaultRun(m) # {}
    BY <1>2, StepsOfRuns
  <2>2. Nearest(DefaultRun(m), clock) \in Nat
    BY <2>1, NearestIsOne
  <2>3. QED
    BY <1>2, <2>2 DEF mostCurrentTime
<1>3. CASE isTemporal(m) /\ run # NotADateTime
  <2>1. m.runs[run] \in SUBSET Nat /\ m.runs[run] # {}
    BY <1>3, StepsOfRuns
  <2>2. Nearest(m.runs[run], clock) \in Nat
    BY <2>1, NearestIsOne
  <2>3. QED
    BY <1>3, <2>2 DEF mostCurrentTime
<1>4. QED
  BY <1>1, <1>2, <1>3

LEMMA StepInRange ==
    ASSUME NEW m, NEW steps \in SUBSET Nat, IsFiniteSet(steps), NEW t \in steps,
           NEW clock \in Nat, m.untilNow => t <= clock
    PROVE  InRange(steps, t, m, clock)
BY MinOfNaturals, MaxOfNaturals DEF InRange

(* What capabilities list is valid when it is asked for. *)
LEMMA OfferedIsValid ==
    ASSUME NEW m, IsVersion(m), NEW r, IsRequest(r), NEW clock \in Nat, Offers(m, r, clock)
    PROVE  /\ r.style # Default => r.style \in m.styles
           /\ r.time # NotADateTime => isValidTime(m, r.time, r.reference, clock)
           /\ r.reference # NotADateTime => isValidReferenceTime(m, r.reference)
           /\ r.elevation # -1 => isValidElevation(m, r.elevation)
<1>1. r.style # Default => r.style \in m.styles
  BY DEF Offers
<1>2. ASSUME r.time # NotADateTime, isTemporal(m)
      PROVE  IF r.reference = NotADateTime THEN InRange(DefaultRun(m), r.time, m, clock)
             ELSE r.reference \in DOMAIN m.runs /\ InRange(m.runs[r.reference], r.time, m, clock)
  <2> DEFINE steps == IF r.reference = NotADateTime THEN DefaultRun(m) ELSE m.runs[r.reference]
  <2>1. /\ r.reference \in DOMAIN m.runs \cup {NotADateTime}
        /\ r.time \in steps /\ (m.untilNow => r.time <= clock)
    BY <1>2 DEF Offers
  <2>2. steps \in SUBSET Nat /\ IsFiniteSet(steps)
    BY <1>2, <2>1, StepsOfRuns
  <2> HIDE DEF steps
  <2>3. InRange(steps, r.time, m, clock)
    BY <2>1, <2>2, StepInRange
  <2>4. QED
    BY <2>1, <2>3 DEF steps
<1>3. r.reference # NotADateTime => isValidReferenceTime(m, r.reference)
  BY DEF Offers, isValidReferenceTime
<1>4. r.elevation # -1 => isValidElevation(m, r.elevation)
  BY DEF Offers, isValidElevation
<1>5. QED
  BY <1>1, <1>2, <1>3, <1>4 DEF isValidTime

-----------------------------------------------------------------------------
(* The invariant *)

Replies == [answer : {"idle", "none", "image", "refused", "failed"},
            customer : {CustomerOf[l] : l \in Layers} \cup {""},
            time : Nat \cup {NotADateTime, Absent},
            given : {Absent} \cup SUBSET (Dimensions \X Dimensions)]

SharedTypes ==
    /\ layers \in [Layers -> {layers[l] : l \in Layers}]
    /\ \A l \in Layers : layers[l] \in VersionsOf[l] \cup {Absent}
    /\ changes \in 0..MaxChanges /\ now \in 0..changes
    /\ \A l \in Layers : dimNames[l] \in Seq(Dimensions) \cup {Absent}
    /\ \A c \in Clients : names[c] \in Seq(Dimensions) \cup {Absent}
    /\ found \in [Clients -> BOOLEAN]
    /\ steady \in [Clients -> BOOLEAN]
    /\ ever \in [Clients -> {ever[c] : c \in Clients}]
    /\ reply \in [Clients -> Replies]

(* The calls of a request are numbered: those that have been made, or      *)
(* skipped, come first.                                                    *)
CallOf(c, i) == CallsOf(request[c])[i]

Count(c) == Len(CallsOf(request[c]))

Made(c) == Count(c) - Len(todo[c])

ProgressInv(c) ==
    /\ request[c] # Absent => IsRequest(request[c])
    /\ reply[c].answer # "idle" => IsSent(request[c])
    /\ Running(c) => /\ Made(c) \in 0..(Count(c) - 1)
                     /\ todo[c] = SubSeq(CallsOf(request[c]), Made(c) + 1, Count(c))
    /\ ~Running(c) => todo[c] = <<>>

(* What the calls made so far have shown, the layer has had. *)
EverInv(c) ==
    LET r == request[c] IN
    /\ Running(c) =>
          /\ \A l \in Asked(r) : {l} \X Has(layers[l], r, now) \subseteq ever[c]
          /\ \A i \in 1..Made(c) :
                {CallOf(c, i).layer} \X (Shows(CallOf(c, i).op, r) \cap MustHave(r)) \subseteq ever[c]
    /\ Answered(c) => \A l \in Asked(r), o \in MustHave(r) : <<l, o>> \in ever[c]

(* What the calls made so far have found out is known. *)
FoundOut(c, op) ==
    /\ op = "layerCustomer" /\ steady[c] => reply[c].customer = CustomerOf[LastLayer(request[c])]
    /\ op = "getLayer" => reply[c].given # Absent
    /\ op = "mostCurrentTime" => reply[c].time # Absent \/ TimeTaken(c)

Undisturbed(c) ==
    /\ Answered(c)
    /\ reply[c].customer = CustomerOf[LastLayer(request[c])]
    /\ request[c].time = NotADateTime /\ ~TimeTaken(c) => reply[c].time # Absent
    /\ request[c].path # <<>> => reply[c].given # Absent

SettledInv(c) ==
    /\ Running(c) =>
          /\ steady[c] => \A l \in Asked(request[c]) : Offers(layers[l], request[c], now)
          /\ \A i \in 1..Made(c) : FoundOut(c, CallOf(c, i).op)
          /\ reply[c].given # Absent =>
                \A i \in (Made(c) + 1)..Count(c) : CallOf(c, i).op \notin PathCalls
    /\ steady[c] /\ reply[c].answer \notin {"idle", "none"} => Undisturbed(c)

AnswersInv ==
    /\ Inv /\ SharedTypes
    /\ \A c \in Clients : ProgressInv(c) /\ EverInv(c) /\ SettledInv(c)

-----------------------------------------------------------------------------
(* Which calls a step makes or skips *)

Skips(c, n, ops) ==
    /\ n \in (Made(c) + 1)..(Count(c) - 1)
    /\ todo' = [todo EXCEPT ![c] = SubSeq(CallsOf(request[c]), n + 1, Count(c))]
    /\ \A i \in (Made(c) + 2)..n : CallOf(c, i).op \in ops
    /\ CallOf(c, n + 1).op \notin ops

LEMMA NextCall ==
    ASSUME NEW c \in Clients, ProgressInv(c), Running(c)
    PROVE  /\ IsSent(request[c]) /\ Count(c) \in Nat \ {0}
           /\ CallsOf(request[c]) \in Seq(AnyCall(request[c]))
           /\ Made(c) \in 0..(Count(c) - 1)
           /\ todo[c] # <<>> /\ Head(todo[c]) = CallOf(c, Made(c) + 1)
           /\ Op(c) = CallOf(c, Made(c) + 1).op
           /\ Tail(todo[c]) = SubSeq(CallsOf(request[c]), Made(c) + 2, Count(c))
           /\ CallOf(c, Count(c)) = Call("init", LastLayer(request[c]))
           /\ \A i \in 1..(Count(c) - 1) : CallOf(c, i) \in Fitting(request[c])
           /\ Op(c) = "init" <=> Made(c) + 1 = Count(c)
<1>1. /\ IsSent(request[c]) /\ Made(c) \in 0..(Count(c) - 1)
      /\ todo[c] = SubSeq(CallsOf(request[c]), Made(c) + 1, Count(c))
  BY DEF ProgressInv, Running
<1>2. /\ CallsOf(request[c]) \in Seq(AnyCall(request[c])) /\ Count(c) \in Nat \ {0}
      /\ CallOf(c, Count(c)) = Call("init", LastLayer(request[c]))
      /\ \A i \in 1..(Count(c) - 1) : CallOf(c, i) \in Fitting(request[c])
  BY <1>1, CallsOfType DEF IsTodo, Count, CallOf
<1>3. Made(c) + 1 \in 1..Count(c) /\ (Made(c) + 1) + 1 = Made(c) + 2
  BY <1>1, <1>2
<1>4. /\ todo[c] # <<>> /\ Head(todo[c]) = CallOf(c, Made(c) + 1)
      /\ Tail(todo[c]) = SubSeq(CallsOf(request[c]), Made(c) + 2, Count(c))
  BY <1>1, <1>2, <1>3, SuffixTail DEF Count, CallOf
<1>5. Op(c) = CallOf(c, Made(c) + 1).op
  BY <1>4 DEF Op
<1>6. Op(c) = "init" <=> Made(c) + 1 = Count(c)
  <2>1. CASE Made(c) + 1 = Count(c)
    BY <1>2, <1>5, <2>1 DEF Call
  <2>2. CASE Made(c) + 1 # Count(c)
    <3>1. Made(c) + 1 \in 1..(Count(c) - 1)
      BY <1>2, <1>3, <2>2
    <3>2. CallOf(c, Made(c) + 1).op \in Operations
      BY <1>2, <3>1 DEF Fitting
    <3>3. QED
      BY <1>5, <2>2, <3>2 DEF Operations, Lookups, Checks, TimeCalls
  <2>3. QED
    BY <2>1, <2>2
<1>7. QED
  BY <1>1, <1>2, <1>4, <1>5, <1>6

LEMMA ReturnMakesOne ==
    ASSUME NEW c \in Clients, ProgressInv(c), Running(c), Op(c) # "init", Return(c)
    PROVE  Skips(c, Made(c) + 1, {})
<1>1. /\ Made(c) \in 0..(Count(c) - 1) /\ Count(c) \in Nat \ {0} /\ Made(c) + 1 # Count(c)
      /\ Tail(todo[c]) = SubSeq(CallsOf(request[c]), Made(c) + 2, Count(c))
  BY NextCall
<1>2. Made(c) + 1 \in (Made(c) + 1)..(Count(c) - 1) /\ (Made(c) + 1) + 1 = Made(c) + 2
  BY <1>1
<1>3. (Made(c) + 2)..(Made(c) + 1) = {}
  BY <1>1
<1>4. todo' = [todo EXCEPT ![c] = SubSeq(CallsOf(request[c]), Made(c) + 2, Count(c))]
  BY <1>1 DEF Return
<1>5. QED
  BY <1>2, <1>3, <1>4 DEF Skips

LEMMA ReturnSkippingMakes ==
    ASSUME NEW c \in Clients, ProgressInv(c), Running(c), Op(c) # "init",
           NEW ops, "init" \notin ops, ReturnSkipping(c, ops)
    PROVE  \E n : Skips(c, n, ops)
<1> DEFINE calls == CallsOf(request[c])
           made == Made(c)
           count == Count(c)
           rest == Tail(todo[c])
           left == {i \in DOMAIN rest : rest[i].op \notin ops}
           next == Min(left)
           n == made + next
<1>1. /\ made \in Nat /\ count \in Nat /\ made + 2 <= count
      /\ count = Len(calls) /\ calls \in Seq(AnyCall(request[c]))
      /\ rest = SubSeq(calls, made + 2, Len(calls))
      /\ calls[count].op = "init"
  <2>1. /\ Made(c) \in 0..(Count(c) - 1) /\ Count(c) \in Nat \ {0} /\ Made(c) + 1 # Count(c)
        /\ CallOf(c, Count(c)) = Call("init", LastLayer(request[c]))
    BY NextCall
  <2>2. calls[count].op = "init"
    BY <2>1 DEF Call, CallOf
  <2>3. made \in Nat /\ count \in Nat /\ made + 2 <= count
    BY <2>1
  <2>4. count = Len(calls) /\ calls \in Seq(AnyCall(request[c]))
    BY NextCall DEF Count
  <2>5. rest = SubSeq(calls, made + 2, Len(calls))
    BY NextCall DEF Count
  <2>6. QED
    BY <2>2, <2>3, <2>4, <2>5
<1>2. todo' = [todo EXCEPT ![c] = SubSeq(rest, next, Len(rest))]
  BY DEF ReturnSkipping
<1> HIDE DEF calls, made, count, rest, left
<1>3. made + 2 \in 1..(Len(calls) + 1)
  BY <1>1
<1>4. /\ rest \in Seq(AnyCall(request[c])) /\ Len(rest) = Len(calls) - (made + 2) + 1
      /\ \A i \in 1..(Len(calls) - (made + 2) + 1) : rest[i] = calls[(made + 2) + i - 1]
  BY <1>1, <1>3, SuffixType
<1>5. /\ Len(rest) = count - made - 1 /\ Len(rest) \in Nat \ {0} /\ DOMAIN rest = 1..Len(rest)
      /\ \A i \in 1..Len(rest) : rest[i] = calls[made + 1 + i]
  <2>1. Len(rest) = count - made - 1 /\ Len(rest) \in Nat \ {0}
    BY <1>1, <1>4
  <2>2. \A i \in 1..Len(rest) : (made + 2) + i - 1 = made + 1 + i
    BY <1>1, <2>1
  <2>3. QED
    BY <1>4, <2>1, <2>2, LenProperties
<1>6. left \in SUBSET Nat /\ left \subseteq 1..Len(rest) /\ Len(rest) \in left
  <2>1. made + 1 + Len(rest) = count /\ Len(rest) \in 1..Len(rest)
    <3>1. made \in Nat /\ count \in Nat
      BY <1>1
    <3>2. Len(rest) = count - made - 1 /\ Len(rest) \in Nat \ {0}
      BY <1>5
    <3>3. QED
      BY <3>1, <3>2
  <2>2. rest[Len(rest)].op = "init"
    BY <1>1, <1>5, <2>1
  <2>3. QED
    BY <1>5, <2>1, <2>2 DEF left
<1>7. next \in left /\ \A i \in left : next <= i
  BY <1>6, MinOfNaturals
<1> HIDE DEF next
<1>8. next \in 1..Len(rest) /\ rest[next].op \notin ops
  BY <1>6, <1>7 DEF left
<1>9. SubSeq(rest, next, Len(rest)) = SubSeq(calls, n + 1, Len(calls))
  <2>1. next \in 1..(Len(calls) - (made + 2) + 2) /\ (made + 2) + next - 1 = n + 1
    BY <1>1, <1>5, <1>8
  <2>2. QED
    BY <1>1, <1>3, <2>1, SuffixOfSuffix
<1>10. n \in (made + 1)..(count - 1) /\ calls[n + 1].op \notin ops
  <2>1. n \in (made + 1)..(count - 1) /\ made + 1 + next = n + 1
    BY <1>1, <1>5, <1>8
  <2>2. QED
    BY <1>5, <1>8, <2>1
<1>11. ASSUME NEW i \in (made + 2)..n PROVE calls[i].op \in ops
  <2>1. /\ i - made - 1 \in 1..Len(rest) /\ ~(next <= i - made - 1)
        /\ made + 1 + (i - made - 1) = i
    BY <1>1, <1>5, <1>8
  <2>2. rest[i - made - 1].op \in ops
    BY <1>5, <1>7, <2>1 DEF left
  <2>3. QED
    BY <1>5, <2>1, <2>2
<1>12. Skips(c, n, ops)
  BY <1>1, <1>2, <1>9, <1>10, <1>11 DEF Skips, calls, made, count, Count, CallOf
<1>13. QED
  BY <1>12

-----------------------------------------------------------------------------
(* What a step may do to the request: nothing, end it, or make its next call *)

Disturbed(c) == ~\A l \in Asked(request[c]) : Offers(layers[l], request[c], now)

GivesUp(c) ==
    /\ End(c, "refused") \/ End(c, "failed")
    /\ Disturbed(c) \/ (Op(c) = "init" /\ reply[c].customer = "")

Replied(c, customer, time, given) ==
    /\ reply' \in [Clients -> Replies]
    /\ \A d \in Clients : d # c => reply'[d] = reply[d]
    /\ reply'[c].answer = "none" /\ reply'[c].customer = customer
    /\ reply'[c].time = time /\ reply'[c].given = given

CustomerNow(c) ==
    IF Op(c) # "layerCustomer" THEN reply[c].customer
    ELSE IF IsPublished(layers[LastLayer(request[c])]) THEN CustomerOf[LastLayer(request[c])] ELSE ""

GoesOn(c) ==
    \E n, ops, time, given :
        /\ Op(c) # "init" /\ Skips(c, n, ops) /\ ops \subseteq TimeCalls \cup {"getLayer"}
        /\ Replied(c, CustomerNow(c), time, given)
        /\ Shows(Op(c), request[c]) \cap MustHave(request[c])
              \subseteq Has(layers[Head(todo[c]).layer], request[c], now)
        /\ time = Absent => reply[c].time = Absent
        /\ Op(c) = "mostCurrentTime" \/ ops \cap TimeCalls # {} =>
              time # Absent \/ (given # Absent /\ \E v \in given : v[1] = "time")
        /\ Op(c) = "getLayer" \/ "getLayer" \in ops => given # Absent
        /\ given # reply[c].given =>
              Op(c) = "getLayer" \/ (Op(c) = "orderedDimensionNames" /\ "getLayer" \in ops)

KindOfStep(c) ==
    \/ UNCHANGED <<todo, reply>>
    \/ GivesUp(c)
    \/ End(c, "image") /\ Op(c) = "init"
    \/ GoesOn(c)

(* The layers that the next call and the request are about *)
LEMMA SubjectIsAsked ==
    ASSUME SharedTypes, NEW c \in Clients, ProgressInv(c), Running(c)
    PROVE  /\ IsRequest(request[c]) /\ Asked(request[c]) \subseteq Layers
           /\ Op(c) # "init" => Head(todo[c]) \in Fitting(request[c])
           /\ Subject(c) \in Asked(request[c]) /\ LastLayer(request[c]) \in Asked(request[c])
           /\ now \in Nat /\ (IsPublished(LayerOf(c)) => IsVersion(LayerOf(c)))
           /\ ~IsPublished(LayerOf(c)) => Disturbed(c)
<1>1. /\ IsSent(request[c]) /\ Head(todo[c]) = CallOf(c, Made(c) + 1) /\ Made(c) \in 0..(Count(c) - 1)
      /\ Count(c) \in Nat /\ (Op(c) = "init" <=> Made(c) + 1 = Count(c))
      /\ \A i \in 1..(Count(c) - 1) : CallOf(c, i) \in Fitting(request[c])
  BY NextCall
<1>2. IsRequest(request[c])
  BY <1>1 DEF IsSent
<1>3. Asked(request[c]) \subseteq Layers /\ LastLayer(request[c]) \in Asked(request[c])
  BY <1>2, LayersAsked
<1>4. Op(c) # "init" => Head(todo[c]) \in Fitting(request[c])
  BY <1>1
<1>5. Op(c) # "init" => Head(todo[c]).layer \in Asked(request[c])
  BY <1>4 DEF Fitting
<1>6. Subject(c) \in Asked(request[c])
  BY <1>3, <1>5 DEF Subject, Checks
<1>7. LayerOf(c) \in VersionsOf[Subject(c)] \cup {Absent} /\ Subject(c) \in Layers
  BY <1>3, <1>6 DEF LayerOf, SharedTypes
<1>8. IsPublished(LayerOf(c)) => IsVersion(LayerOf(c))
  BY <1>7, VersionsAssumption DEF IsPublished
<1>9. now \in Nat
  BY MaxChangesAssumption DEF SharedTypes
<1>10. ~IsPublished(LayerOf(c)) => Disturbed(c)
  BY <1>6 DEF Disturbed, Offers, LayerOf
<1>11. QED
  BY <1>2, <1>3, <1>4, <1>6, <1>8, <1>9, <1>10

LEMMA RepliedSame ==
    ASSUME SharedTypes, NEW c \in Clients, Running(c), UNCHANGED reply
    PROVE  Replied(c, reply[c].customer, reply[c].time, reply[c].given)
BY DEF SharedTypes, Replied, Running

LEMMA RepliedCustomer ==
    ASSUME SharedTypes, NEW c \in Clients, Running(c),
           NEW v \in {CustomerOf[l] : l \in Layers} \cup {""}, reply' = [reply EXCEPT ![c].customer = v]
    PROVE  Replied(c, v, reply[c].time, reply[c].given)
BY DEF SharedTypes, Replied, Running, Replies

LEMMA RepliedTime ==
    ASSUME SharedTypes, NEW c \in Clients, Running(c),
           NEW v \in Nat \cup {NotADateTime}, reply' = [reply EXCEPT ![c].time = v]
    PROVE  Replied(c, reply[c].customer, v, reply[c].given)
BY DEF SharedTypes, Replied, Running, Replies

LEMMA RepliedGiven ==
    ASSUME SharedTypes, NEW c \in Clients, Running(c),
           NEW v \in SUBSET (Dimensions \X Dimensions), reply' = [reply EXCEPT ![c].given = v]
    PROVE  Replied(c, reply[c].customer, reply[c].time, v)
BY DEF SharedTypes, Replied, Running, Replies

LEMMA PassGoesOn ==
    ASSUME SharedTypes, NEW c \in Clients, ProgressInv(c), Running(c), Pass(c),
           Op(c) \notin {"init", "layerCustomer", "mostCurrentTime", "getLayer"},
           Shows(Op(c), request[c]) \cap MustHave(request[c])
              \subseteq Has(layers[Head(todo[c]).layer], request[c], now)
    PROVE  GoesOn(c)
<1>1. Skips(c, Made(c) + 1, {})
  BY ReturnMakesOne DEF Pass
<1>2. Replied(c, CustomerNow(c), reply[c].time, reply[c].given)
  BY RepliedSame DEF Pass, CustomerNow
<1>3. QED
  BY <1>1, <1>2 DEF GoesOn

(* A call for the time that goes on without one *)
LEMMA WithoutTimeGoesOn ==
    ASSUME SharedTypes, NEW c \in Clients, ProgressInv(c), Running(c), WithoutTime(c),
           Op(c) \in TimeCalls
    PROVE  GoesOn(c)
<1>1. PICK n : Skips(c, n, TimeCalls)
  BY ReturnSkippingMakes DEF WithoutTime, TimeCalls
<1>2. Replied(c, CustomerNow(c), NotADateTime, reply[c].given)
  BY RepliedTime DEF WithoutTime, CustomerNow, TimeCalls
<1>3. Shows(Op(c), request[c]) = {} /\ Op(c) \notin {"init", "getLayer"}
  BY DEF Shows, TimeCalls
<1>4. NotADateTime # Absent /\ "getLayer" \notin TimeCalls
  BY AbsentAssumption DEF TimeCalls
<1>5. QED
  BY <1>1, <1>2, <1>3, <1>4 DEF GoesOn

LEMMA TakeGoesOn ==
    ASSUME SharedTypes, NEW c \in Clients, ProgressInv(c), Running(c),
           NEW ns \in Seq(Dimensions), NEW skipped \in SUBSET {"getLayer"}, Take(c, ns, skipped),
           Op(c) = "getLayer" \/ (Op(c) = "orderedDimensionNames" /\ "getLayer" \in skipped)
    PROVE  GoesOn(c)
<1> DEFINE given == Taken(ns, request[c].path)
           timeGiven == \E v \in given : v[1] = "time"
           ops == skipped \cup IF timeGiven THEN TimeCalls ELSE {}
<1>1. reply' = [reply EXCEPT ![c].given = given] /\ ReturnSkipping(c, ops)
  BY DEF Take
<1>2. given \in SUBSET (Dimensions \X Dimensions)
  <2>1. request[c].path \in Seq(Dimensions)
    BY SubjectIsAsked DEF IsRequest
  <2>2. \A i \in DOMAIN ns \cap DOMAIN request[c].path :
           ns[i] \in Dimensions /\ request[c].path[i] \in Dimensions
    BY <2>1
  <2>3. QED
    BY <2>2 DEF Taken
<1>3. given # Absent
  BY <1>2, AbsentAssumption
<1>4. ops \subseteq TimeCalls \cup {"getLayer"} /\ "init" \notin ops /\ Op(c) # "init"
  BY DEF TimeCalls
<1>5. ops \cap TimeCalls # {} => timeGiven
  BY DEF TimeCalls
<1> HIDE DEF given, ops
<1>6. PICK n : Skips(c, n, ops)
  BY <1>1, <1>4, ReturnSkippingMakes
<1>7. Replied(c, CustomerNow(c), reply[c].time, given)
  BY <1>1, <1>2, RepliedGiven DEF CustomerNow
<1>8. Shows(Op(c), request[c]) = {} /\ Op(c) # "mostCurrentTime"
  BY DEF Shows
<1>9. "getLayer" \in skipped => "getLayer" \in ops
  BY DEF ops
<1>10. QED
  BY <1>3, <1>4, <1>5, <1>6, <1>7, <1>8, <1>9 DEF GoesOn

LEMMA NotFoundKind ==
    ASSUME SharedTypes, NEW c \in Clients, ProgressInv(c), Running(c), NotFound(c),
           ~IsPublished(LayerOf(c)), Op(c) \in Lookups
    PROVE  KindOfStep(c)
<1>1. CASE Calling(c, "getDefaultInterval") /\ Pass(c)
  <2>1. Shows(Op(c), request[c]) = {} /\ Op(c) = "getDefaultInterval"
    BY <1>1 DEF Shows, Calling
  <2>2. GoesOn(c)
    BY <1>1, <2>1, PassGoesOn
  <2>3. QED
    BY <2>2 DEF KindOfStep
<1>2. CASE (Calling(c, "isTemporal") \/ Calling(c, "mostCurrentTime")) /\ WithoutTime(c)
  <2>1. Op(c) \in TimeCalls
    BY <1>2 DEF Calling, TimeCalls
  <2>2. QED
    BY <1>2, <2>1, WithoutTimeGoesOn DEF KindOfStep
<1>3. CASE Refuse(c)
  BY <1>3, SubjectIsAsked DEF KindOfStep, GivesUp, Refuse
<1>4. QED
  BY <1>1, <1>2, <1>3 DEF NotFound

(* A check that finds the value valid has shown that the layer has it, one *)
(* that does not has found the layer without it.                           *)
LEMMA CheckKind ==
    ASSUME SharedTypes, NEW c \in Clients, ProgressInv(c), Check(c)
    PROVE  KindOfStep(c)
<1> DEFINE r == request[c]
           m == LayerOf(c)
<1>1. Running(c) /\ Op(c) \in Checks /\ IsPublished(m)
  BY DEF Check, Found, Calling
<1>2. /\ Subject(c) = Head(todo[c]).layer /\ m = layers[Head(todo[c]).layer]
      /\ Head(todo[c]) \in Fitting(r) /\ Subject(c) \in Asked(r)
      /\ now \in Nat /\ IsVersion(m) /\ IsRequest(r)
  BY <1>1, SubjectIsAsked DEF Subject, LayerOf, Checks
<1>3. CASE Valid(c, m, r)
  <2>1. Pass(c)
    BY <1>3 DEF Check
  <2>2. Shows(Op(c), r) \cap MustHave(r) \subseteq Has(m, r, now)
    BY <1>1, <1>3 DEF Checks, Valid, Calling, Shows, Has
  <2>3. QED
    BY <1>1, <1>2, <2>1, <2>2, PassGoesOn DEF KindOfStep, Checks
<1>4. CASE ~Valid(c, m, r)
  <2>1. Refuse(c)
    BY <1>4 DEF Check
  <2>2. ~Offers(m, r, now)
    <3>1. SUFFICES ASSUME Offers(m, r, now) PROVE Valid(c, m, r)
      BY <1>4
    <3>2. /\ r.style # Default => r.style \in m.styles
          /\ r.time # NotADateTime => isValidTime(m, r.time, r.reference, now)
          /\ r.reference # NotADateTime => isValidReferenceTime(m, r.reference)
          /\ r.elevation # -1 => isValidElevation(m, r.elevation)
      BY <1>2, <3>1, OfferedIsValid
    <3>3. QED
      BY <1>1, <1>2, <3>2 DEF Valid, Calling, Checks, Fitting, Op
  <2>3. QED
    BY <1>2, <2>1, <2>2 DEF KindOfStep, GivesUp, Refuse, Disturbed
<1>5. QED
  BY <1>3, <1>4

LEMMA TakeCurrentTimeKind ==
    ASSUME SharedTypes, NEW c \in Clients, ProgressInv(c), TakeCurrentTime(c)
    PROVE  KindOfStep(c)
<1> DEFINE r == request[c]
           m == LayerOf(c)
           run == ReferenceFor(r)
           time == mostCurrentTime(m, run, now)
<1>1. Running(c) /\ Op(c) = "mostCurrentTime" /\ IsPublished(m)
  BY DEF TakeCurrentTime, Found, Calling
<1>2. Subject(c) \in Asked(r) /\ now \in Nat /\ IsVersion(m)
  BY <1>1, SubjectIsAsked
<1>3. CASE isTemporal(m) /\ run \notin DOMAIN m.runs \cup {NotADateTime}
  <2>1. Fail(c)
    BY <1>3 DEF TakeCurrentTime
  <2>2. ~Offers(m, r, now)
    BY <1>3 DEF Offers, ReferenceFor
  <2>3. QED
    BY <1>2, <2>1, <2>2 DEF KindOfStep, GivesUp, Fail, Disturbed, LayerOf
<1>4. CASE ~(isTemporal(m) /\ run \notin DOMAIN m.runs \cup {NotADateTime})
  <2>1. reply' = [reply EXCEPT ![c].time = time] /\ Return(c)
    BY <1>4 DEF TakeCurrentTime
  <2>2. time \in Nat \cup {NotADateTime}
    BY <1>2, <1>4, CurrentTimeType
  <2>3. time # Absent
    BY <2>2, AbsentAssumption
  <2> HIDE DEF time
  <2>4. Replied(c, CustomerNow(c), time, reply[c].given)
    BY <1>1, <2>1, <2>2, RepliedTime DEF CustomerNow
  <2>5. Skips(c, Made(c) + 1, {})
    BY <1>1, <2>1, ReturnMakesOne
  <2>6. Shows(Op(c), r) = {}
    BY <1>1 DEF Shows
  <2>7. GoesOn(c)
    BY <1>1, <2>3, <2>4, <2>5, <2>6 DEF GoesOn
  <2>8. QED
    BY <2>7 DEF KindOfStep
<1>5. QED
  BY <1>3, <1>4

LEMMA StepKind ==
    ASSUME Shape, SharedTypes, NEW c \in Clients, ProgressInv(c), Step(c)
    PROVE  KindOfStep(c)
<1>1. CASE isValidLayer(c)
  <2>1. Running(c) /\ Op(c) = "isValidLayer" /\ LayerOf(c) = layers[Head(todo[c]).layer]
    BY <1>1 DEF isValidLayer, Calling, LayerOf, Subject
  <2>2. CASE IsPublished(LayerOf(c))
    <3>1. Pass(c)
      BY <1>1, <2>2 DEF isValidLayer
    <3>2. Shows(Op(c), request[c]) \cap MustHave(request[c]) \subseteq Has(LayerOf(c), request[c], now)
      BY <2>1, <2>2 DEF Shows, Has
    <3>3. QED
      BY <2>1, <3>1, <3>2, PassGoesOn DEF KindOfStep
  <2>3. CASE ~IsPublished(LayerOf(c))
    BY <1>1, <2>1, <2>3, SubjectIsAsked DEF isValidLayer, KindOfStep, GivesUp, Refuse
  <2>4. QED
    BY <2>2, <2>3
<1>2. CASE layerCustomer(c)
  <2>1. Running(c) /\ Op(c) = "layerCustomer" /\ LayerOf(c) = layers[LastLayer(request[c])]
    BY <1>2 DEF layerCustomer, Calling, LayerOf, Subject, Checks
  <2>2. /\ Return(c) /\ reply' = [reply EXCEPT ![c].customer = CustomerNow(c)]
        /\ CustomerNow(c) \in {CustomerOf[l] : l \in Layers} \cup {""}
    BY <1>2, <2>1, SubjectIsAsked DEF layerCustomer, CustomerNow, Calling, LayerOf, Subject, Checks
  <2>3. Replied(c, CustomerNow(c), reply[c].time, reply[c].given)
    BY <2>1, <2>2, RepliedCustomer
  <2>4. Skips(c, Made(c) + 1, {}) /\ Shows(Op(c), request[c]) = {}
    BY <2>1, <2>2, ReturnMakesOne DEF Shows
  <2>5. GoesOn(c)
    BY <2>1, <2>3, <2>4 DEF GoesOn
  <2>6. QED
    BY <2>5 DEF KindOfStep
<1>3. CASE json(c)
  <2>1. Running(c) /\ Op(c) = "json" /\ Shows(Op(c), request[c]) = {}
    BY <1>3 DEF json, Calling, Shows
  <2>2. CASE Pass(c)
    BY <2>1, <2>2, PassGoesOn DEF KindOfStep
  <2>3. CASE ~IsPublished(LayerOf(c)) /\ Fail(c)
    BY <2>1, <2>3, SubjectIsAsked DEF KindOfStep, GivesUp, Fail
  <2>4. QED
    BY <1>3, <2>2, <2>3 DEF json
<1>4. CASE init(c)
  BY <1>4 DEF init, KindOfStep, GivesUp, Fail, Calling
<1>5. CASE isValidLayerImpl(c)
  <2>1. Running(c) /\ Op(c) \in Lookups
    BY <1>5 DEF isValidLayerImpl
  <2>2. QED
    BY <1>5, <2>1, NotFoundKind DEF isValidLayerImpl, KindOfStep
<1>6. CASE at(c)
  BY <1>6, SubjectIsAsked DEF at, KindOfStep, GivesUp, Fail
<1>7. CASE Check(c)
  BY <1>7, CheckKind
<1>8. CASE getDefaultInterval(c)
  <2>1. Running(c) /\ Op(c) \in {"getDefaultInterval", "currentValue"} /\ Pass(c)
    BY <1>8 DEF getDefaultInterval, Found, Calling
  <2>2. Shows(Op(c), request[c]) = {}
    BY <2>1 DEF Shows
  <2>3. QED
    BY <2>1, <2>2, PassGoesOn DEF KindOfStep
<1>9. CASE LookAtTime(c)
  <2>1. Running(c) /\ Op(c) = "isTemporal" /\ (Pass(c) \/ WithoutTime(c))
    BY <1>9 DEF LookAtTime, Found, Calling
  <2>2. Shows(Op(c), request[c]) = {} /\ Op(c) \in TimeCalls
    BY <2>1 DEF Shows, TimeCalls
  <2>3. QED
    BY <2>1, <2>2, PassGoesOn, WithoutTimeGoesOn DEF KindOfStep
<1>10. CASE TakeCurrentTime(c)
  BY <1>10, TakeCurrentTimeKind
<1>11. CASE FindDimNames(c)
  <2>1. Running(c) /\ Op(c) = "orderedDimensionNames" /\ Shows(Op(c), request[c]) = {}
    BY <1>11 DEF FindDimNames, Calling, Shows
  <2>2. dimNames[Subject(c)] \in Seq(Dimensions) \cup {Absent}
    BY <2>1, SubjectIsAsked DEF SharedTypes
  <2>3. CASE dimNames[Subject(c)] = Absent
    BY <1>11, <2>1, <2>3, PassGoesOn DEF FindDimNames, KindOfStep
  <2>4. CASE dimNames[Subject(c)] # Absent
    <3>1. Take(c, dimNames[Subject(c)], {"getLayer"})
      BY <1>11, <2>4 DEF FindDimNames
    <3>2. QED
      BY <2>1, <2>2, <2>4, <3>1, TakeGoesOn DEF KindOfStep
  <2>5. QED
    BY <2>3, <2>4
<1>12. CASE getLayer(c)
  BY <1>12 DEF getLayer, KindOfStep
<1>13. CASE StoreDimNames(c)
  <2>1. Running(c) /\ Op(c) = "getLayer" /\ Take(c, dimNames'[Subject(c)], {})
    BY <1>13 DEF StoreDimNames, Calling
  <2>2. dimNames'[Subject(c)] \in Seq(Dimensions)
    <3>1. /\ Subject(c) \in Layers /\ dimNames' = try_emplace(Subject(c), names[c])
          /\ dimNames \in [Layers -> {dimNames[l] : l \in Layers}]
          /\ dimNames[Subject(c)] \in Seq(Dimensions) \cup {Absent}
          /\ names[c] \in Seq(Dimensions)
      BY <1>13, <2>1, SubjectIsAsked DEF StoreDimNames, SharedTypes, Shape
    <3>2. QED
      BY <3>1 DEF try_emplace
  <2>3. QED
    BY <2>1, <2>2, TakeGoesOn DEF KindOfStep
<1>14. QED
  BY <1>1, <1>2, <1>3, <1>4, <1>5, <1>6, <1>7, <1>8, <1>9, <1>10, <1>11, <1>12, <1>13 DEF Step

-----------------------------------------------------------------------------
(* What the calls have found is known when only the last one is left *)

ClientAnswers(c) == ProgressInv(c) /\ EverInv(c) /\ SettledInv(c)

LEMMA CallMade ==
    ASSUME NEW c \in Clients, ProgressInv(c), Running(c), Op(c) = "init",
           NEW call \in Range(CallsOf(request[c])), call.op # "init"
    PROVE  \E i \in 1..Made(c) : CallOf(c, i) = call
<1>1. /\ CallsOf(request[c]) \in Seq(AnyCall(request[c])) /\ Count(c) \in Nat \ {0}
      /\ CallOf(c, Count(c)) = Call("init", LastLayer(request[c]))
      /\ Made(c) + 1 = Count(c) /\ Made(c) \in 0..(Count(c) - 1)
  BY NextCall
<1>2. PICK i \in 1..Count(c) : CallOf(c, i) = call
  BY <1>1, RangeEquality DEF Count, CallOf
<1>3. i # Count(c)
  BY <1>1, <1>2 DEF Call
<1>4. QED
  BY <1>1, <1>2, <1>3

LEMMA CustomerFound ==
    ASSUME NEW c \in Clients, ClientAnswers(c), Running(c), Op(c) = "init", steady[c]
    PROVE  reply[c].customer = CustomerOf[LastLayer(request[c])]
<1>1. Call("layerCustomer", LastLayer(request[c])) \in Range(CallsOf(request[c]))
  BY NextCall, CallsOfType DEF Covers, ClientAnswers
<1>2. PICK i \in 1..Made(c) : CallOf(c, i) = Call("layerCustomer", LastLayer(request[c]))
  BY <1>1, CallMade DEF ClientAnswers, Call
<1>3. CallOf(c, i).op = "layerCustomer"
  BY <1>2 DEF Call
<1>4. QED
  BY <1>3 DEF ClientAnswers, SettledInv, FoundOut

LEMMA TimeFound ==
    ASSUME NEW c \in Clients, ClientAnswers(c), Running(c), Op(c) = "init",
           request[c].time = NotADateTime
    PROVE  reply[c].time # Absent \/ TimeTaken(c)
<1>1. Call("mostCurrentTime", LastLayer(request[c])) \in Range(CallsOf(request[c]))
  BY NextCall, CallsOfType DEF Covers, ClientAnswers
<1>2. PICK i \in 1..Made(c) : CallOf(c, i) = Call("mostCurrentTime", LastLayer(request[c]))
  BY <1>1, CallMade DEF ClientAnswers, Call
<1>3. CallOf(c, i).op = "mostCurrentTime"
  BY <1>2 DEF Call
<1>4. QED
  BY <1>3 DEF ClientAnswers, SettledInv, FoundOut

LEMMA PathLookedAt ==
    ASSUME NEW c \in Clients, ClientAnswers(c), Running(c), Op(c) = "init",
           request[c].path # <<>>
    PROVE  reply[c].given # Absent
<1>1. /\ Count(c) \in Nat /\ Made(c) + 1 = Count(c) /\ Made(c) \in 0..(Count(c) - 1)
      /\ CallOf(c, Count(c)) = Call("init", LastLayer(request[c]))
  BY NextCall DEF ClientAnswers
<1>2. PICK n \in 1..(Count(c) - 1) : CallOf(c, n + 1).op = "getLayer"
  BY NextCall, CallsOfType DEF PathCallsAt, ClientAnswers, Count, CallOf
<1>3. n + 1 # Count(c)
  BY <1>1, <1>2 DEF Call
<1>4. n + 1 \in 1..Made(c)
  BY <1>1, <1>2, <1>3
<1>5. QED
  BY <1>2, <1>4 DEF ClientAnswers, SettledInv, FoundOut

LEMMA AllShown ==
    ASSUME NEW c \in Clients, ClientAnswers(c), Running(c), Op(c) = "init",
           NEW l \in Asked(request[c]), NEW o \in MustHave(request[c])
    PROVE  <<l, o>> \in ever[c]
<1>1. PICK call \in Range(CallsOf(request[c])) : call.layer = l /\ o \in Shows(call.op, request[c])
  BY NextCall, CallsOfType DEF Covers, ClientAnswers
<1>2. call.op # "init"
  BY <1>1 DEF Shows
<1>3. PICK i \in 1..Made(c) : CallOf(c, i) = call
  BY <1>2, CallMade DEF ClientAnswers
<1>4. {l} \X (Shows(call.op, request[c]) \cap MustHave(request[c])) \subseteq ever[c]
  BY <1>1, <1>3 DEF ClientAnswers, EverInv
<1>5. QED
  BY <1>1, <1>4

-----------------------------------------------------------------------------
(* The invariant is kept *)

LEMMA SameKeeps ==
    ASSUME NEW c \in Clients, ClientAnswers(c), layers' = layers, now' = now,
           request'[c] = request[c], todo'[c] = todo[c], reply'[c] = reply[c],
           steady'[c] = steady[c], ever'[c] = ever[c]
    PROVE  ClientAnswers(c)'
<1>1. /\ Running(c)' = Running(c) /\ Answered(c)' = Answered(c) /\ TimeTaken(c)' = TimeTaken(c)
      /\ CallsOf(request[c])' = CallsOf(request[c]) /\ Count(c)' = Count(c) /\ Made(c)' = Made(c)
      /\ \A i : CallOf(c, i)' = CallOf(c, i)
  BY DEF Running, Answered, TimeTaken, Count, Made, CallOf
<1>2. ProgressInv(c)'
  BY <1>1 DEF ClientAnswers, ProgressInv
<1>3. EverInv(c)'
  BY <1>1 DEF ClientAnswers, EverInv
<1>4. \A op : FoundOut(c, op)' <=> FoundOut(c, op)
  BY <1>1 DEF FoundOut
<1>5. Undisturbed(c)' <=> Undisturbed(c)
  BY <1>1 DEF Undisturbed
<1>6. SettledInv(c)'
  BY <1>1, <1>4, <1>5 DEF ClientAnswers, SettledInv
<1>7. QED
  BY <1>2, <1>3, <1>6 DEF ClientAnswers

(* How the parts of a request that ends change *)
LEMMA EndOfRequest ==
    ASSUME Shape, SharedTypes, NEW c \in Clients, ClientAnswers(c), Running(c),
           NEW answer \in {"image", "refused", "failed"}, End(c, answer), UNCHANGED Unshared
    PROVE  /\ ProgressInv(c)'
           /\ ~Running(c)' /\ reply'[c].answer = answer
           /\ reply'[c].customer = reply[c].customer /\ reply'[c].time = reply[c].time
           /\ reply'[c].given = reply[c].given
           /\ reply' \in [Clients -> Replies]
           /\ \A d \in Clients : d # c => reply'[d] = reply[d]
<1>1. /\ reply'[c].answer = answer
      /\ reply'[c].customer = reply[c].customer /\ reply'[c].time = reply[c].time
      /\ reply'[c].given = reply[c].given
      /\ reply' \in [Clients -> Replies]
      /\ \A d \in Clients : d # c => reply'[d] = reply[d]
  <2>1. reply' = [reply EXCEPT ![c].answer = answer] /\ reply \in [Clients -> Replies]
    BY DEF End, SharedTypes
  <2>2. reply[c] \in Replies /\ [reply[c] EXCEPT !.answer = answer] \in Replies
    BY <2>1 DEF Replies
  <2>3. /\ reply'[c] = [reply[c] EXCEPT !.answer = answer]
        /\ reply' \in [Clients -> Replies]
        /\ \A d \in Clients : d # c => reply'[d] = reply[d]
    BY <2>1, <2>2
  <2>4. QED
    BY <2>2, <2>3 DEF Replies
<1>2. ~Running(c)' /\ todo'[c] = <<>>
  BY <1>1 DEF End, Running, Shape
<1>3. ProgressInv(c)'
  BY <1>2 DEF ClientAnswers, ProgressInv, Unshared, Running
<1>4. QED
  BY <1>1, <1>2, <1>3

LEMMA GivesUpKeeps ==
    ASSUME Shape, SharedTypes, NEW c \in Clients, ClientAnswers(c), Running(c), GivesUp(c),
           UNCHANGED Unshared
    PROVE  ClientAnswers(c)'
<1>1. PICK answer \in {"refused", "failed"} : End(c, answer)
  BY DEF GivesUp
<1>2. ProgressInv(c)' /\ ~Running(c)' /\ ~Answered(c)'
  BY <1>1, EndOfRequest DEF Answered
<1>3. EverInv(c)'
  BY <1>2 DEF EverInv
<1>4. ~steady[c]
  <2>1. Disturbed(c) => ~steady[c]
    BY DEF Disturbed, ClientAnswers, SettledInv
  <2>2. LastLayer(request[c]) \in Layers
    BY SubjectIsAsked DEF ClientAnswers
  <2>3. CustomerOf[LastLayer(request[c])] # ""
    BY <2>2, CustomersAssumption
  <2>4. QED
    BY <2>1, <2>3, CustomerFound DEF GivesUp
<1>5. SettledInv(c)'
  BY <1>2, <1>4 DEF SettledInv, Unshared, history
<1>6. QED
  BY <1>2, <1>3, <1>5 DEF ClientAnswers

LEMMA ImageKeeps ==
    ASSUME Shape, SharedTypes, NEW c \in Clients, ClientAnswers(c), Running(c), Op(c) = "init",
           End(c, "image"), UNCHANGED Unshared
    PROVE  ClientAnswers(c)'
<1>1. /\ ProgressInv(c)' /\ ~Running(c)' /\ Answered(c)'
      /\ reply'[c].customer = reply[c].customer /\ reply'[c].time = reply[c].time
      /\ reply'[c].given = reply[c].given
  BY EndOfRequest DEF Answered
<1>2. request' = request /\ ever' = ever /\ steady' = steady
  BY DEF Unshared, history
<1>3. EverInv(c)'
  BY <1>1, <1>2, AllShown DEF EverInv
<1>4. steady[c] => Undisturbed(c)'
  BY <1>1, <1>2, CustomerFound, TimeFound, PathLookedAt DEF Undisturbed, TimeTaken
<1>5. SettledInv(c)'
  BY <1>1, <1>2, <1>4 DEF SettledInv
<1>6. QED
  BY <1>1, <1>3, <1>5 DEF ClientAnswers

(* The calls that GoesOn leaves behind: the next one and those it skips *)
LEMMA CallsLeft ==
    ASSUME NEW c \in Clients, ProgressInv(c), Running(c), NEW n, NEW ops, Skips(c, n, ops),
           Shape, request' = request, reply'[c].answer = "none"
    PROVE  /\ n \in Nat /\ n > Made(c) /\ n < Count(c)
           /\ Made(c)' = n /\ Count(c)' = Count(c) /\ ProgressInv(c)' /\ Running(c)'
           /\ \A i \in 1..n : i \in 1..Made(c) \/ i = Made(c) + 1 \/ CallOf(c, i).op \in ops
<1>1. /\ CallsOf(request[c]) \in Seq(AnyCall(request[c])) /\ Count(c) \in Nat \ {0}
      /\ Made(c) \in 0..(Count(c) - 1) /\ IsSent(request[c])
  BY NextCall
<1>2. n \in Nat /\ n > Made(c) /\ n < Count(c) /\ n + 1 \in 1..(Count(c) + 1)
  BY <1>1 DEF Skips
<1>3. todo'[c] = SubSeq(CallsOf(request[c]), n + 1, Count(c))
  BY DEF Skips, Shape
<1>4. Len(SubSeq(CallsOf(request[c]), n + 1, Count(c))) = Count(c) - (n + 1) + 1
  BY <1>1, <1>2, SuffixType DEF Count
<1>5. Count(c)' = Count(c) /\ Made(c)' = n
  BY <1>1, <1>2, <1>3, <1>4 DEF Count, Made
<1>6. Running(c)' /\ n \in 0..(Count(c) - 1)
  BY <1>1, <1>2 DEF Running
<1>7. ProgressInv(c)'
  BY <1>1, <1>3, <1>5, <1>6 DEF ProgressInv, IsSent
<1>8. ASSUME NEW i \in 1..n
      PROVE  i \in 1..Made(c) \/ i = Made(c) + 1 \/ CallOf(c, i).op \in ops
  <2>1. i \in 1..Made(c) \/ i = Made(c) + 1 \/ i \in (Made(c) + 2)..n
    BY <1>1, <1>2
  <2>2. QED
    BY <2>1 DEF Skips
<1>9. QED
  BY <1>2, <1>5, <1>6, <1>7, <1>8

(* After the values in the path have been looked at, none of the calls for *)
(* them is left.                                                           *)
LEMMA PathCallsLeft ==
    ASSUME NEW c \in Clients, ProgressInv(c), Running(c), NEW n, NEW ops, Skips(c, n, ops),
           Op(c) = "getLayer" \/ (Op(c) = "orderedDimensionNames" /\ "getLayer" \in ops)
    PROVE  \A i \in (n + 1)..Count(c) : CallOf(c, i).op \notin PathCalls
<1> DEFINE k == Made(c) + 1
<1>1. /\ IsSent(request[c]) /\ Count(c) \in Nat \ {0} /\ Made(c) \in 0..(Count(c) - 1)
      /\ Op(c) = CallOf(c, k).op
  BY NextCall
<1>2. n \in k..(Count(c) - 1) /\ k \in 1..Count(c) /\ CallOf(c, n + 1).op \notin ops
  BY <1>1 DEF Skips
<1>3. CallOf(c, k).op \in PathCalls
  BY <1>1 DEF PathCalls
<1>4. PathCallsAt(CallsOf(request[c]), request[c])
  BY <1>1, CallsOfType
<1>5. request[c].path # <<>>
  BY <1>2, <1>3, <1>4 DEF PathCallsAt, IsPlain, Count, CallOf
<1>6. PICK m \in 1..(Count(c) - 1) :
          /\ CallOf(c, m).op = "orderedDimensionNames" /\ CallOf(c, m + 1).op = "getLayer"
          /\ \A i \in 1..Count(c) \ {m, m + 1} : CallOf(c, i).op \notin PathCalls
  BY <1>4, <1>5 DEF PathCallsAt, Count, CallOf
<1>7. k \in {m, m + 1}
  BY <1>2, <1>3, <1>6
<1>8. n + 1 > m + 1
  <2>1. CASE Op(c) = "getLayer"
    <3>1. k = m + 1
      BY <1>1, <1>6, <1>7, <2>1
    <3>2. QED
      BY <1>1, <1>2, <3>1
  <2>2. CASE Op(c) = "orderedDimensionNames" /\ "getLayer" \in ops
    <3>1. k = m /\ n + 1 # m + 1
      BY <1>1, <1>2, <1>6, <1>7, <2>2
    <3>2. QED
      BY <1>1, <1>2, <3>1
  <2>3. QED
    BY <2>1, <2>2
<1>9. \A i \in (n + 1)..Count(c) : i \in 1..Count(c) \ {m, m + 1}
  BY <1>1, <1>2, <1>6, <1>8
<1>10. QED
  BY <1>6, <1>9

LEMMA GoesOnKeeps ==
    ASSUME Shape, SharedTypes, NEW c \in Clients, ClientAnswers(c), Running(c), GoesOn(c),
           UNCHANGED Unshared
    PROVE  ClientAnswers(c)'
<1> DEFINE r == request[c]
           made == Made(c)
           count == Count(c)
<1>1. PICK n, ops, time, given :
        /\ Op(c) # "init" /\ Skips(c, n, ops) /\ ops \subseteq TimeCalls \cup {"getLayer"}
        /\ Replied(c, CustomerNow(c), time, given)
        /\ Shows(Op(c), r) \cap MustHave(r) \subseteq Has(layers[Head(todo[c]).layer], r, now)
        /\ time = Absent => reply[c].time = Absent
        /\ Op(c) = "mostCurrentTime" \/ ops \cap TimeCalls # {} =>
              time # Absent \/ (given # Absent /\ \E v \in given : v[1] = "time")
        /\ Op(c) = "getLayer" \/ "getLayer" \in ops => given # Absent
        /\ given # reply[c].given =>
              Op(c) = "getLayer" \/ (Op(c) = "orderedDimensionNames" /\ "getLayer" \in ops)
  BY DEF GoesOn
<1>2. /\ request' = request /\ layers' = layers /\ now' = now /\ ever' = ever /\ steady' = steady
  BY DEF Unshared, published, history
<1>3. /\ reply'[c].answer = "none" /\ reply'[c].customer = CustomerNow(c)
      /\ reply'[c].time = time /\ reply'[c].given = given
  BY <1>1 DEF Replied
<1>4. ProgressInv(c)
  BY DEF ClientAnswers
<1>5. /\ n \in Nat /\ n > made /\ n < count
      /\ Made(c)' = n /\ Count(c)' = count /\ ProgressInv(c)' /\ Running(c)'
      /\ \A i \in 1..n : i \in 1..made \/ i = made + 1 \/ CallOf(c, i).op \in ops
  BY <1>1, <1>2, <1>3, <1>4, CallsLeft
<1>6. /\ made \in Nat /\ count \in Nat /\ CallOf(c, made + 1) = Head(todo[c])
      /\ CallOf(c, made + 1).op = Op(c) /\ Head(todo[c]).layer \in Asked(r)
  BY <1>1, <1>4, NextCall, SubjectIsAsked DEF Fitting
<1>7. \A i : CallOf(c, i)' = CallOf(c, i)
  BY <1>2 DEF CallOf
<1>8. EverInv(c)'
  <2>1. ASSUME NEW i \in 1..n
        PROVE  {CallOf(c, i).layer} \X (Shows(CallOf(c, i).op, r) \cap MustHave(r)) \subseteq ever[c]
    <3>1. CASE i \in 1..made
      BY <3>1 DEF ClientAnswers, EverInv
    <3>2. CASE i = made + 1
      <4>1. {Head(todo[c]).layer} \X Has(layers[Head(todo[c]).layer], r, now) \subseteq ever[c]
        BY <1>6 DEF ClientAnswers, EverInv
      <4>2. QED
        BY <1>1, <1>6, <3>2, <4>1
    <3>3. CASE CallOf(c, i).op \in ops
      <4>1. Shows(CallOf(c, i).op, r) = {}
        BY <1>1, <3>3 DEF Shows, TimeCalls
      <4>2. QED
        BY <4>1
    <3>4. QED
      BY <1>5, <3>1, <3>2, <3>3
  <2>2. \A l \in Asked(r) : {l} \X Has(layers[l], r, now) \subseteq ever[c]
    BY DEF ClientAnswers, EverInv
  <2>3. ~Answered(c)'
    BY <1>3 DEF Answered
  <2>4. QED
    BY <1>2, <1>5, <1>7, <2>1, <2>2, <2>3 DEF EverInv
<1>9. steady[c] => \A l \in Asked(r) : Offers(layers[l], r, now)
  BY DEF ClientAnswers, SettledInv
<1>10. /\ TimeTaken(c)' <=> given # Absent /\ \E v \in given : v[1] = "time"
  BY <1>3 DEF TimeTaken
<1>11. reply[c].given # Absent => given = reply[c].given
  <2>1. reply[c].given # Absent => Op(c) \notin PathCalls
    <3>1. made + 1 \in (made + 1)..count
      BY <1>5, <1>6
    <3>2. QED
      BY <1>6, <3>1 DEF ClientAnswers, SettledInv
  <2>2. QED
    BY <1>1, <2>1 DEF PathCalls
<1>12. steady[c] /\ Op(c) = "layerCustomer" =>
          CustomerNow(c) = CustomerOf[LastLayer(r)]
  BY <1>4, <1>9, SubjectIsAsked DEF CustomerNow, Offers
<1>13. ASSUME NEW op, FoundOut(c, op) PROVE FoundOut(c, op)'
  <2>1. op = "layerCustomer" /\ steady[c] => CustomerNow(c) = CustomerOf[LastLayer(r)]
    BY <1>12, <1>13 DEF FoundOut, CustomerNow
  <2>2. op = "getLayer" => given # Absent
    BY <1>11, <1>13 DEF FoundOut
  <2>3. op = "mostCurrentTime" => time # Absent \/ TimeTaken(c)'
    BY <1>1, <1>10, <1>11, <1>13 DEF FoundOut, TimeTaken
  <2>4. QED
    BY <1>2, <1>3, <2>1, <2>2, <2>3 DEF FoundOut
<1>14. ASSUME NEW op, op = Op(c) PROVE FoundOut(c, op)'
  BY <1>1, <1>2, <1>3, <1>10, <1>12, <1>14 DEF FoundOut
<1>15. ASSUME NEW op \in ops PROVE FoundOut(c, op)'
  <2>1. op # "layerCustomer" /\ (op = "mostCurrentTime" => ops \cap TimeCalls # {})
    BY <1>1 DEF TimeCalls
  <2>2. QED
    BY <1>1, <1>3, <1>10, <2>1 DEF FoundOut
<1>16. ASSUME NEW i \in 1..n, NEW op, op = CallOf(c, i).op PROVE FoundOut(c, op)'
  <2>1. i \in 1..made => FoundOut(c, op)
    BY <1>16 DEF ClientAnswers, SettledInv
  <2>2. QED
    BY <1>5, <1>6, <1>13, <1>14, <1>15, <1>16, <2>1
<1>17. given # Absent => \A i \in (n + 1)..count : CallOf(c, i).op \notin PathCalls
  <2>1. CASE given = reply[c].given
    <3>1. \A i \in (n + 1)..count : i \in (made + 1)..count
      BY <1>5, <1>6
    <3>2. QED
      BY <2>1, <3>1 DEF ClientAnswers, SettledInv
  <2>2. CASE given # reply[c].given
    BY <1>1, <1>4, <2>2, PathCallsLeft
  <2>3. QED
    BY <2>1, <2>2
<1>18. SettledInv(c)'
  BY <1>2, <1>3, <1>5, <1>7, <1>9, <1>16, <1>17 DEF SettledInv, FoundOut
<1>19. QED
  BY <1>5, <1>8, <1>18 DEF ClientAnswers

(* What is remembered of a new map only adds to what the layers have had. *)
LEMMA RememberKeeps ==
    ASSUME NEW c \in Clients, ClientAnswers(c), Remember,
           UNCHANGED <<request, todo, reply>>
    PROVE  ClientAnswers(c)'
<1> DEFINE r == request[c]
<1>1. /\ Running(c)' = Running(c) /\ Answered(c)' = Answered(c) /\ TimeTaken(c)' = TimeTaken(c)
      /\ Count(c)' = Count(c) /\ Made(c)' = Made(c)
      /\ \A i : CallOf(c, i)' = CallOf(c, i)
  BY DEF Running, Answered, TimeTaken, Count, Made, CallOf
<1>2. ProgressInv(c)'
  BY <1>1 DEF ClientAnswers, ProgressInv
<1>3. /\ ever[c] \subseteq ever'[c]
      /\ Running(c) => \A l \in Asked(r) : {l} \X Has(layers'[l], r, now') \subseteq ever'[c]
      /\ steady'[c] => steady[c]
      /\ steady'[c] /\ Running(c) => \A l \in Asked(r) : Offers(layers'[l], r, now')
  BY DEF Remember
<1>4. EverInv(c)'
  <2>1. Running(c) =>
           \A i \in 1..Made(c) :
              {CallOf(c, i).layer} \X (Shows(CallOf(c, i).op, r) \cap MustHave(r)) \subseteq ever'[c]
    BY <1>3 DEF ClientAnswers, EverInv
  <2>2. Answered(c) => \A l \in Asked(r), o \in MustHave(r) : <<l, o>> \in ever'[c]
    BY <1>3 DEF ClientAnswers, EverInv
  <2>3. QED
    BY <1>1, <1>3, <2>1, <2>2 DEF EverInv
<1>5. ASSUME NEW op, FoundOut(c, op) PROVE FoundOut(c, op)'
  BY <1>1, <1>3, <1>5 DEF FoundOut
<1>6. Undisturbed(c) => Undisturbed(c)'
  BY <1>1 DEF Undisturbed
<1>7. ASSUME Running(c), NEW i \in 1..Made(c), NEW op, op = CallOf(c, i).op PROVE FoundOut(c, op)'
  BY <1>5, <1>7 DEF ClientAnswers, SettledInv
<1>8. SettledInv(c)'
  BY <1>1, <1>3, <1>6, <1>7 DEF ClientAnswers, SettledInv, FoundOut
<1>9. QED
  BY <1>2, <1>4, <1>8 DEF ClientAnswers

LEMMA StartKeeps ==
    ASSUME Shape, SharedTypes, NEW c \in Clients, NEW r, IsSent(r), Start(c, r)
    PROVE  ClientAnswers(c)'
<1>1. /\ request'[c] = r /\ todo'[c] = CallsOf(r) /\ reply'[c].answer = "none"
      /\ reply'[c].given = Absent
      /\ layers' = layers /\ now' = now
      /\ steady'[c] => \A l \in Asked(r) : Offers(layers[l], r, now)
      /\ ever'[c] = UNION {{l} \X Has(layers[l], r, now) : l \in Asked(r)}
  BY DEF Start, Shape, SharedTypes, NoReply, published
<1>2. CallsOf(r) \in Seq(AnyCall(r)) /\ Len(CallsOf(r)) \in Nat \ {0}
  BY CallsOfType DEF IsTodo
<1>3. Count(c)' = Len(CallsOf(r)) /\ Made(c)' = 0 /\ Running(c)' /\ ~Answered(c)'
  BY <1>1, <1>2 DEF Count, Made, Running, Answered
<1>4. SubSeq(CallsOf(r), 1, Len(CallsOf(r))) = CallsOf(r)
  BY <1>2, SubSeqFull
<1>5. ProgressInv(c)'
  BY <1>1, <1>2, <1>3, <1>4 DEF ProgressInv, IsSent
<1>6. 1..0 = {}
  OBVIOUS
<1>7. EverInv(c)'
  BY <1>1, <1>3, <1>6 DEF EverInv
<1>8. SettledInv(c)'
  BY <1>1, <1>3, <1>6 DEF SettledInv
<1>9. QED
  BY <1>5, <1>7, <1>8 DEF ClientAnswers

-----------------------------------------------------------------------------
(* The types are kept *)

LEMMA InfoType ==
    ASSUME NEW m, NEW clock
    PROVE  TimeDimensionInfo(m, clock) \o ElevationDimensionInfo(m) \in Seq(Dimensions)
<1>1. ElevationDimensionInfo(m) \in Seq(Dimensions)
  BY WhenType DEF ElevationDimensionInfo, isOK, Dimensions
<1>2. TimeDimensionInfo(m, clock) \in Seq(Dimensions)
  <2>1. When(HasReferenceTimes(m), "reference_time") \in Seq(Dimensions)
    BY WhenType DEF Dimensions, HasReferenceTimes
  <2>2. <<"time">> \in Seq(Dimensions) /\ <<>> \in Seq(Dimensions)
    BY DEF Dimensions
  <2>3. QED
    BY <2>1, <2>2, ConcatProperties DEF TimeDimensionInfo
<1>3. QED
  BY <1>1, <1>2, ConcatProperties

(* The names that a request collects or stores, and those that are kept *)
LEMMA StepNames ==
    ASSUME Shape, SharedTypes, NEW c \in Clients, ProgressInv(c), Running(c), Step(c)
    PROVE  /\ \A l \in Layers : dimNames'[l] \in Seq(Dimensions) \cup {Absent}
           /\ \A d \in Clients : names'[d] \in Seq(Dimensions) \cup {Absent}
<1>1. CASE UNCHANGED <<dimNames, names>>
  BY <1>1 DEF SharedTypes
<1>2. CASE getLayer(c)
  <2>1. \/ UNCHANGED names
        \/ names' = [names EXCEPT ![c] =
              IF IsPublished(LayerOf(c))
              THEN TimeDimensionInfo(LayerOf(c), now) \o ElevationDimensionInfo(LayerOf(c)) ELSE <<>>]
    BY <1>2 DEF getLayer
  <2>2. /\ TimeDimensionInfo(LayerOf(c), now) \o ElevationDimensionInfo(LayerOf(c)) \in Seq(Dimensions)
        /\ <<>> \in Seq(Dimensions)
    BY InfoType
  <2>3. names' = names \/ \E ns \in Seq(Dimensions) : names' = [names EXCEPT ![c] = ns]
    BY <2>1, <2>2
  <2>4. dimNames' = dimNames
    BY <1>2 DEF getLayer
  <2>5. QED
    BY <2>3, <2>4 DEF SharedTypes, Shape
<1>3. CASE StoreDimNames(c)
  <2>1. /\ names[c] \in Seq(Dimensions) /\ names' = [names EXCEPT ![c] = Absent]
        /\ dimNames' = dimNames \/ dimNames' = [dimNames EXCEPT ![Subject(c)] = names[c]]
    BY <1>3 DEF StoreDimNames, try_emplace, SharedTypes
  <2>2. QED
    BY <2>1 DEF SharedTypes, Shape
<1>4. CASE UNCHANGED Others
  BY <1>1, <1>4 DEF Others
<1>5. QED
  BY <1>2, <1>3, <1>4
     DEF Step, isValidLayer, layerCustomer, json, init, isValidLayerImpl, at, Check,
         getDefaultInterval, LookAtTime, TakeCurrentTime, FindDimNames

LEMMA StepFound ==
    ASSUME SharedTypes, NEW c \in Clients, Step(c) PROVE found' \in [Clients -> BOOLEAN]
<1>1. \/ UNCHANGED found \/ \E b \in BOOLEAN : found' = [found EXCEPT ![c] = b]
  BY DEF Step, isValidLayer, layerCustomer, json, init, isValidLayerImpl, at, Check,
         getDefaultInterval, LookAtTime, TakeCurrentTime, FindDimNames, getLayer, StoreDimNames,
         Pass, Refuse, Fail, End, Return, WithoutTime, NotFound, Take, ReturnSkipping
<1>2. QED
  BY <1>1 DEF SharedTypes

LEMMA StepReply ==
    ASSUME Shape, SharedTypes, NEW c \in Clients, ClientAnswers(c), Running(c), KindOfStep(c),
           UNCHANGED Unshared
    PROVE  reply' \in [Clients -> Replies] /\ \A d \in Clients : d # c => reply'[d] = reply[d]
<1>1. CASE UNCHANGED <<todo, reply>>
  BY <1>1 DEF SharedTypes
<1>2. CASE GivesUp(c)
  BY <1>2, EndOfRequest DEF GivesUp
<1>3. CASE End(c, "image")
  BY <1>3, EndOfRequest
<1>4. CASE GoesOn(c)
  BY <1>4 DEF GoesOn, Replied
<1>5. QED
  BY <1>1, <1>2, <1>3, <1>4 DEF KindOfStep

LEMMA StepAnswers ==
    ASSUME AnswersInv, NEW c \in Clients, Running(c), Step(c)
    PROVE  SharedTypes' /\ \A d \in Clients : ClientAnswers(d)'
<1>1. Shape /\ SharedTypes /\ Effect(c) /\ KindOfStep(c) /\ ClientAnswers(c)
  BY StepEffect, StepKind DEF AnswersInv, Inv, ClientAnswers
<1>2. UNCHANGED Unshared /\ \A d \in Clients : d # c => todo'[d] = todo[d]
  BY <1>1 DEF Effect
<1>3. reply' \in [Clients -> Replies] /\ \A d \in Clients : d # c => reply'[d] = reply[d]
  BY <1>1, <1>2, StepReply
<1>4. SharedTypes'
  <2>1. /\ layers' = layers /\ changes' = changes /\ now' = now
        /\ steady' = steady /\ ever' = ever
    BY <1>2 DEF Unshared, published, history
  <2>2. /\ \A l \in Layers : dimNames'[l] \in Seq(Dimensions) \cup {Absent}
        /\ \A d \in Clients : names'[d] \in Seq(Dimensions) \cup {Absent}
    BY <1>1, StepNames DEF ClientAnswers
  <2>3. found' \in [Clients -> BOOLEAN]
    BY <1>1, StepFound
  <2>4. QED
    BY <1>1, <1>3, <2>1, <2>2, <2>3 DEF SharedTypes
<1>5. ASSUME NEW d \in Clients PROVE ClientAnswers(d)'
  <2>1. CASE d # c
    BY <1>2, <1>3, <2>1, SameKeeps DEF AnswersInv, ClientAnswers, Unshared, published, history
  <2>2. CASE d = c
    <3>1. CASE UNCHANGED <<todo, reply>>
      BY <1>1, <1>2, <2>2, <3>1, SameKeeps DEF Unshared, published, history
    <3>2. QED
      BY <1>1, <1>2, <2>2, <3>1, GivesUpKeeps, ImageKeeps, GoesOnKeeps DEF KindOfStep
  <2>3. QED
    BY <2>1, <2>2
<1>6. QED
  BY <1>4, <1>5

LEMMA RememberAnswers ==
    ASSUME AnswersInv, Remember,
           UNCHANGED <<dimNames, advertised, request, todo, found, names, reply>>,
           layers' \in [Layers -> {layers'[l] : l \in Layers}],
           \A l \in Layers : layers'[l] \in VersionsOf[l] \cup {Absent},
           changes' \in 0..MaxChanges, now' \in 0..changes'
    PROVE  SharedTypes' /\ \A c \in Clients : ClientAnswers(c)'
<1>1. /\ steady' \in [Clients -> BOOLEAN]
      /\ ever' \in [Clients -> {ever'[c] : c \in Clients}]
  BY DEF Remember, AnswersInv, SharedTypes
<1>2. SharedTypes'
  BY <1>1 DEF AnswersInv, SharedTypes
<1>3. \A c \in Clients : ClientAnswers(c)'
  BY RememberKeeps DEF AnswersInv, ClientAnswers
<1>4. QED
  BY <1>2, <1>3

LEMMA StartAnswers ==
    ASSUME AnswersInv, NEW c \in Clients, NEW r, IsSent(r), Start(c, r)
    PROVE  SharedTypes' /\ \A d \in Clients : ClientAnswers(d)'
<1>1. Shape /\ SharedTypes /\ layers' = layers /\ now' = now
  BY DEF AnswersInv, Inv, Start, published
<1>2. /\ reply' \in [Clients -> Replies] /\ steady' \in [Clients -> BOOLEAN]
      /\ ever' \in [Clients -> {ever'[d] : d \in Clients}]
  <2>1. [NoReply EXCEPT !.answer = "none"] \in Replies
    BY DEF NoReply, Replies
  <2>2. (\A l \in Asked(r) : Offers(layers[l], r, now)) \in BOOLEAN
    OBVIOUS
  <2>3. QED
    BY <1>1, <2>1, <2>2 DEF Start, SharedTypes
<1>3. SharedTypes'
  BY <1>1, <1>2 DEF Start, SharedTypes, published
<1>4. ASSUME NEW d \in Clients, d # c PROVE ClientAnswers(d)'
  <2>1. /\ request'[d] = request[d] /\ todo'[d] = todo[d] /\ reply'[d] = reply[d]
        /\ steady'[d] = steady[d] /\ ever'[d] = ever[d]
    BY <1>1, <1>4 DEF Start, Shape, SharedTypes
  <2>2. QED
    BY <1>1, <2>1, SameKeeps DEF AnswersInv, ClientAnswers
<1>5. ClientAnswers(c)'
  BY <1>1, StartKeeps
<1>6. QED
  BY <1>3, <1>4, <1>5

LEMMA InitAnswers == Init => AnswersInv
<1> SUFFICES ASSUME Init PROVE AnswersInv
  OBVIOUS
<1>1. SharedTypes
  <2>1. NoReply \in Replies
    BY DEF NoReply, Replies
  <2>2. QED
    BY <2>1, MaxChangesAssumption DEF Init, SharedTypes
<1>2. ASSUME NEW c \in Clients PROVE ProgressInv(c) /\ EverInv(c) /\ SettledInv(c)
  BY DEF Init, NoReply, ProgressInv, EverInv, SettledInv, Running, Answered
<1>3. QED
  BY <1>1, <1>2, InitInv DEF AnswersInv

LEMMA NextAnswers == AnswersInv /\ [Next]_vars => AnswersInv'
<1> SUFFICES ASSUME AnswersInv, [Next]_vars
             PROVE  SharedTypes' /\ \A c \in Clients : ClientAnswers(c)'
  BY NextInv DEF AnswersInv, ClientAnswers
<1>1. CASE Tick
  <2>1. /\ layers' = layers /\ changes' = changes + 1 /\ now' = now + 1 /\ changes < MaxChanges
        /\ Remember /\ UNCHANGED <<dimNames, advertised, request, todo, found, names, reply>>
    BY <1>1 DEF Tick
  <2>2. changes' \in 0..MaxChanges /\ now' \in 0..changes'
    BY <2>1, MaxChangesAssumption DEF AnswersInv, SharedTypes
  <2>3. QED
    BY <2>1, <2>2, RememberAnswers DEF AnswersInv, SharedTypes
<1>2. ASSUME NEW l \in Layers, Publish(l) PROVE SharedTypes' /\ \A c \in Clients : ClientAnswers(c)'
  <2>1. /\ \E m \in VersionsOf[l] \cup {Absent} : layers' = [layers EXCEPT ![l] = m]
        /\ changes' = changes + 1 /\ now' = now /\ changes < MaxChanges
        /\ Remember /\ UNCHANGED <<dimNames, advertised, request, todo, found, names, reply>>
    BY <1>2 DEF Publish
  <2>2. changes' \in 0..MaxChanges /\ now' \in 0..changes'
    BY <2>1, MaxChangesAssumption DEF AnswersInv, SharedTypes
  <2>3. /\ layers' \in [Layers -> {layers'[k] : k \in Layers}]
        /\ \A k \in Layers : layers'[k] \in VersionsOf[k] \cup {Absent}
    BY <2>1 DEF AnswersInv, SharedTypes
  <2>4. QED
    BY <2>1, <2>2, <2>3, RememberAnswers
<1>3. ASSUME NEW c \in Clients, NEW l \in Layers, GetCapabilities(c, l)
      PROVE  SharedTypes' /\ \A d \in Clients : ClientAnswers(d)'
  <2>1. UNCHANGED <<published, dimNames, request, todo, found, names, reply, history>>
    BY <1>3 DEF GetCapabilities
  <2>2. SharedTypes'
    BY <2>1 DEF AnswersInv, SharedTypes, published, history
  <2>3. \A d \in Clients : ClientAnswers(d)'
    BY <2>1, SameKeeps DEF AnswersInv, ClientAnswers, published, history
  <2>4. QED
    BY <2>2, <2>3
<1>4. ASSUME NEW c \in Clients, Ask(c) PROVE SharedTypes' /\ \A d \in Clients : ClientAnswers(d)'
  <2>1. PICK r \in Requests : Start(c, r)
    BY <1>4 DEF Ask
  <2>2. IsSent(r)
    BY RequestsAssumption DEF IsSent
  <2>3. QED
    BY <2>1, <2>2, StartAnswers
<1>5. ASSUME NEW c \in Clients, AskByPath(c) PROVE SharedTypes' /\ \A d \in Clients : ClientAnswers(d)'
  <2> DEFINE r == [front |-> "wmts", layers |-> <<advertised[c].layer>>, style |-> Default,
                   path |-> advertised[c].dimensions, time |-> NotADateTime,
                   reference |-> NotADateTime, elevation |-> -1]
  <2>1. Start(c, r)
    BY <1>5 DEF AskByPath
  <2>2. advertised[c].layer \in Layers /\ advertised[c].dimensions \in Seq(Dimensions)
    BY <1>5 DEF AskByPath, AnswersInv, Inv, ClientInv
  <2>3. /\ r.front = "wmts" /\ r.layers = <<advertised[c].layer>> /\ r.path = advertised[c].dimensions
        /\ r.time = NotADateTime /\ r.reference = NotADateTime /\ r.elevation = -1
    OBVIOUS
  <2> HIDE DEF r
  <2>4. r.layers \in Seq(Layers) /\ r.layers # <<>> /\ Len(r.layers) = 1
    BY <2>2, <2>3
  <2>5. IsSent(r)
    BY <2>2, <2>3, <2>4 DEF IsSent, IsRequest, Fronts
  <2>6. QED
    BY <2>1, <2>5, StartAnswers
<1>6. ASSUME NEW c \in Clients, Step(c) PROVE SharedTypes' /\ \A d \in Clients : ClientAnswers(d)'
  <2>1. Running(c)
    BY <1>6 DEF Step, isValidLayer, layerCustomer, json, init, isValidLayerImpl, at, Check,
                getDefaultInterval, LookAtTime, TakeCurrentTime, FindDimNames, getLayer,
                StoreDimNames, Found, Calling
  <2>2. QED
    BY <1>6, <2>1, StepAnswers
<1>7. CASE UNCHANGED vars
  <2>1. UNCHANGED <<published, dimNames, request, todo, found, names, reply, history>>
    BY <1>7 DEF vars
  <2>2. SharedTypes'
    BY <2>1 DEF AnswersInv, SharedTypes, published, history
  <2>3. \A d \in Clients : ClientAnswers(d)'
    BY <2>1, SameKeeps DEF AnswersInv, ClientAnswers, published, history
  <2>4. QED
    BY <2>2, <2>3
<1>8. QED
  BY <1>1, <1>2, <1>3, <1>4, <1>5, <1>6, <1>7 DEF Next

-----------------------------------------------------------------------------

THEOREM AnswersInvariant == Spec => []AnswersInv
BY InitAnswers, NextAnswers, PTL DEF Spec

(* The types of LayerRequests.  A request runs exactly as long as there    *)
(* are calls left to make, all of layers that are configured, and the      *)
(* names of dimensions it collects do not outlive it.                      *)
THEOREM RequestsTyped == Spec => []TypeOK
<1>1. ASSUME AnswersInv PROVE TypeOK
  <2>1. SharedTypes /\ Inv /\ \A c \in Clients : ClientAnswers(c)
    BY <1>1 DEF AnswersInv, ClientAnswers
  <2>2. now \in 0..MaxChanges
    BY <2>1, MaxChangesAssumption DEF SharedTypes
  <2>3. ASSUME NEW c \in Clients
        PROVE  /\ advertised[c] # Absent => advertised[c].layer \in Layers
               /\ request[c] # Absent => IsRequest(request[c])
               /\ \A i \in DOMAIN todo[c] : todo[c][i].layer \in Layers
               /\ Running(c) <=> todo[c] # <<>>
               /\ names[c] # Absent => Running(c) /\ names[c] \in Seq(Dimensions)
    <3>1. ProgressInv(c) /\ ClientInv(c)
      BY <2>1 DEF ClientAnswers, Inv
    <3>2. Running(c) <=> todo[c] # <<>>
      BY <3>1, NextCall DEF ProgressInv
    <3>3. \A i \in DOMAIN todo[c] : todo[c][i].layer \in Layers
      <4>1. CASE Running(c)
        <5>1. /\ CallsOf(request[c]) \in Seq(AnyCall(request[c])) /\ Count(c) \in Nat
              /\ Made(c) + 1 \in 1..(Count(c) + 1)
              /\ todo[c] = SubSeq(CallsOf(request[c]), Made(c) + 1, Count(c))
          BY <3>1, <4>1, NextCall DEF ProgressInv
        <5>2. todo[c] \in Seq(AnyCall(request[c]))
          BY <5>1, SuffixType DEF Count
        <5>3. \A call \in AnyCall(request[c]) : call.layer \in Layers
          BY <2>1, <3>1, <4>1, SubjectIsAsked DEF AnyCall, Fitting, Call
        <5>4. QED
          BY <5>2, <5>3
      <4>2. CASE ~Running(c)
        BY <3>1, <4>2 DEF ProgressInv
      <4>3. QED
        BY <4>1, <4>2
    <3>4. QED
      BY <2>1, <3>1, <3>2, <3>3 DEF ProgressInv, ClientInv, Calling, SharedTypes
  <2>4. QED
    BY <2>1, <2>2, <2>3 DEF TypeOK, SharedTypes, Replies
<1>2. QED
  BY <1>1, AnswersInvariant, PTL

(* Whatever is published between the calls of a request: an image is of    *)
(* layers, styles and, by GetMap, times, reference times and elevations    *)
(* that were all there at some moment of the request, each at its own.     *)
THEOREM ImagesWereAvailable == Spec => []AnswersWereAvailable
<1>1. AnswersInv => AnswersWereAvailable
  BY DEF AnswersInv, EverInv, AnswersWereAvailable
<1>2. QED
  BY <1>1, AnswersInvariant, PTL

(* Publications that leave alone what a request asks for do not disturb    *)
(* it: it is answered with an image of its own customer, for all layers,   *)
(* requests and numbers of publications between its calls.                 *)
THEOREM UndisturbedRequests == Spec => []UndisturbedAnswered
<1>1. AnswersInv => UndisturbedAnswered
  BY DEF AnswersInv, SettledInv, Undisturbed, UndisturbedAnswered
<1>2. QED
  BY <1>1, AnswersInvariant, PTL

=============================================================================
