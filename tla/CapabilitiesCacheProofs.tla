---------------------- MODULE CapabilitiesCacheProofs ----------------------
(***************************************************************************)
(* The answers of the capabilities cache, for any number of clients,       *)
(* requests and contents, any TTL and any size of the cache.               *)
(*                                                                         *)
(* The inductive invariant says of every document in the cache, in the     *)
(* hands of a thread or with a client when it was current, under which     *)
(* version, and for whose request; it follows a document on its way.       *)
(***************************************************************************)
EXTENDS CapabilitiesCache, TLAPS

(* An entry's document was current when the entry was stamped or later. *)
EntryOK(k, e) ==
    /\ \E s \in shown : e.body.content = s[1] /\ s[2] >= e.built
    /\ <<e.version, e.body.content>> \in since
    /\ k = <<e.body.listed, e.body.apikey>>

(* A document answers a request that asked at time t under version v. *)
Answers(d, r, t, v) ==
    /\ ShownSince(d, t)
    /\ <<v, d.content>> \in since
    /\ d = Render(d.content, r)

(* The history has the present. *)
HistoryOK ==
    /\ <<content, now>> \in shown
    /\ \A v \in 0 .. version : <<v, content>> \in since

CacheOK == \A k \in Keys : cache[k] # Nothing => EntryOK(k, cache[k])

ThreadOK(c) ==
    /\ pc[c] \in {"clock", "find", "render", "insert", "answer"} => current[c] <= version
    /\ pc[c] \in {"find", "render", "insert", "answer"} => asked[c] <= now
    /\ pc[c] = "insert" =>
          /\ body[c] \in Documents
          /\ \E s \in shown : body[c].content = s[1] /\ s[2] >= asked[c]
          /\ <<current[c], body[c].content>> \in since
          /\ body[c] = Render(body[c].content, request[c])
    /\ pc[c] = "answer" =>
          /\ body[c] \in Documents
          /\ Answers(body[c], request[c], asked[c], current[c])
    /\ Told(c) => Answers(copy[c], request[c], asked[c], current[c])

IInv == TypeOK /\ HistoryOK /\ CacheOK /\ \A c \in Clients : ThreadOK(c)

-----------------------------------------------------------------------------
LEMMA RenderType ==
    ASSUME NEW c \in Contents, NEW r \in Requests
    PROVE  /\ Render(c, r) \in Documents
           /\ Render(c, r).content = c
           /\ Render(c, r).listed = r.listed
           /\ Render(c, r).apikey = r.apikey
  BY DEF Render, Documents

(* A document in the cache under a request's key is one of that request. *)
LEMMA SameKey ==
    ASSUME NEW d \in Documents, NEW r, Key(r) = <<d.listed, d.apikey>>
    PROVE  d = Render(d.content, r)
  BY DEF Key, Render, Documents

(* What an insertion may do to an entry. *)
LEMMA InsertedEntries ==
    ASSUME cache \in [Keys -> Entry \cup {Nothing}], NEW k \in Keys, NEW e \in Entry,
           NEW map \in Inserted(k, e)
    PROVE  /\ map \in [Keys -> Entry \cup {Nothing}]
           /\ \A j \in Keys : map[j] \in {cache[j], Nothing} \/ (j = k /\ map[j] = e)
  BY DEF Inserted

(***************************************************************************)
(* Time passes: what was shown stays shown.                                *)
(***************************************************************************)
LEMMA OutsideStep ==
    ASSUME IInv, Outside, shown \subseteq shown', since \subseteq since',
           version <= version', now <= now', TypeOK', HistoryOK'
    PROVE  IInv'
  <1>1. CacheOK'
    BY DEF IInv, CacheOK, EntryOK, Outside
  <1>2. \A c \in Clients : ThreadOK(c)'
    <2> SUFFICES ASSUME NEW c \in Clients PROVE ThreadOK(c)'
      OBVIOUS
    <2>1. ThreadOK(c) /\ current[c] \in Nat /\ asked[c] \in Nat
      BY DEF IInv, TypeOK
    <2>2. UNCHANGED <<pc, request, current, asked, body, status, copy>>
      BY DEF Outside
    <2>3. version \in Nat /\ now \in Nat /\ version' \in Nat /\ now' \in Nat
      BY DEF IInv, TypeOK
    <2>4. (/\ pc[c] \in {"clock", "find", "render", "insert", "answer"} => current[c] <= version
           /\ pc[c] \in {"find", "render", "insert", "answer"} => asked[c] <= now)'
      BY <2>1, <2>2, <2>3 DEF ThreadOK
    <2>5. (pc[c] = "answer" => body[c] \in Documents /\ Answers(body[c], request[c], asked[c], current[c]))'
      BY <2>1, <2>2 DEF ThreadOK, Answers, ShownSince
    <2>6. (Told(c) => Answers(copy[c], request[c], asked[c], current[c]))'
      BY <2>1, <2>2 DEF ThreadOK, Answers, ShownSince, Told
    <2>7. QED
      BY <2>1, <2>2, <2>4, <2>5, <2>6 DEF ThreadOK
  <1>3. QED
    BY <1>1, <1>2 DEF IInv

LEMMA RegistryKeeps == IInv /\ ((\E c \in Contents : Publish(c)) \/ MoveVersion \/ Tick) => IInv'
  <1>1. ASSUME IInv, NEW c \in Contents, Publish(c) PROVE IInv'
    <2>1. TypeOK'
      BY <1>1 DEF IInv, TypeOK, Publish, Outside
    <2>2. HistoryOK'
      BY <1>1 DEF IInv, TypeOK, HistoryOK, Publish
    <2>3. version' = version /\ now' = now /\ shown \subseteq shown' /\ since \subseteq since'
      BY <1>1 DEF Publish
    <2>4. Outside /\ version <= version' /\ now <= now'
      BY <1>1, <2>3 DEF Publish, IInv, TypeOK
    <2>5. QED
      BY <1>1, <2>1, <2>2, <2>3, <2>4, OutsideStep
  <1>2. ASSUME IInv, MoveVersion PROVE IInv'
    <2>1. TypeOK'
      BY <1>2 DEF IInv, TypeOK, MoveVersion, Outside
    <2>2. HistoryOK'
      BY <1>2 DEF IInv, TypeOK, HistoryOK, MoveVersion
    <2>3. Outside /\ version <= version' /\ now <= now' /\ shown \subseteq shown' /\ since \subseteq since'
      BY <1>2 DEF MoveVersion, IInv, TypeOK
    <2>4. QED
      BY <1>2, <2>1, <2>2, <2>3, OutsideStep
  <1>3. ASSUME IInv, Tick PROVE IInv'
    <2>1. TypeOK'
      BY <1>3 DEF IInv, TypeOK, Tick, Outside
    <2>2. HistoryOK'
      BY <1>3 DEF IInv, TypeOK, HistoryOK, Tick
    <2>3. Outside /\ version <= version' /\ now <= now' /\ shown \subseteq shown' /\ since \subseteq since'
      BY <1>3 DEF Tick, IInv, TypeOK
    <2>4. QED
      BY <1>3, <2>1, <2>2, <2>3, OutsideStep
  <1>4. QED
    BY <1>1, <1>2, <1>3

(***************************************************************************)
(* The steps of one client's thread leave those of the others alone.       *)
(***************************************************************************)
LEMMA OthersKeep ==
    ASSUME IInv, UNCHANGED registry, NEW c \in Clients, NEW d \in Clients \ {c},
           pc'[d] = pc[d], request'[d] = request[d], current'[d] = current[d],
           asked'[d] = asked[d], body'[d] = body[d], status'[d] = status[d], copy'[d] = copy[d]
    PROVE  ThreadOK(d)'
  <1>1. ThreadOK(d)
    BY DEF IInv
  <1>2. QED
    BY <1>1 DEF ThreadOK, Told, Answers, ShownSince, registry

(* A thread that does not touch the cache keeps the invariant when what it *)
(* knows afterwards is right.                                              *)
LEMMA ThreadStep ==
    ASSUME IInv, UNCHANGED registry, cache' = cache, TypeOK', NEW c \in Clients, ThreadOK(c)',
           \A d \in Clients \ {c} :
              /\ pc'[d] = pc[d] /\ request'[d] = request[d] /\ current'[d] = current[d]
              /\ asked'[d] = asked[d] /\ body'[d] = body[d] /\ status'[d] = status[d]
              /\ copy'[d] = copy[d]
    PROVE  IInv'
  <1>1. \A d \in Clients : ThreadOK(d)'
    BY OthersKeep
  <1>2. HistoryOK' /\ CacheOK'
    BY DEF IInv, HistoryOK, CacheOK, EntryOK, registry
  <1>3. QED
    BY <1>1, <1>2 DEF IInv

LEMMA AskKeeps ==
    ASSUME IInv, NEW c \in Clients, Ask(c) \/ ReadClock(c)
    PROVE  IInv'
  <1>1. TypeOK'
    BY DEF IInv, TypeOK, Ask, ReadClock, Goto, registry
  <1>2. ThreadOK(c)
    BY DEF IInv
  <1>3. ThreadOK(c)'
    BY <1>2 DEF IInv, TypeOK, ThreadOK, Told, Ask, ReadClock, Goto, registry
  <1>4. QED
    BY <1>1, <1>3, ThreadStep DEF IInv, TypeOK, Ask, ReadClock, Goto

(* A hit is fresh: its document was current less than Ttl ago. *)
LEMMA FindKeeps ==
    ASSUME IInv, NEW c \in Clients, Find(c)
    PROVE  IInv'
  <1> DEFINE k == Key(request[c])
             e == cache[k]
  <1>0. request[c] \in Requests /\ k \in Keys /\ e \in Entry \cup {Nothing}
    BY DEF IInv, TypeOK, Keys
  <1>1. /\ ThreadOK(c)
        /\ current[c] \in Nat
        /\ asked[c] \in Nat
        /\ UNCHANGED <<cache, request, current, asked, status, copy, registry>>
    BY DEF IInv, TypeOK, Find
  <1>2. CASE e # Nothing /\ Fresh(e, c)
    <2>1. pc' = [pc EXCEPT ![c] = "answer"] /\ body' = [body EXCEPT ![c] = e.body]
      BY <1>2 DEF Find, Goto
    <2>2. e \in Entry /\ e.body \in Documents /\ e.built \in Nat /\ EntryOK(k, e)
      BY <1>0, <1>2 DEF Entry, IInv, CacheOK
    <2>3. e.version = current[c] /\ asked[c] - e.built < Ttl
      BY <1>2 DEF Fresh
    <2>4. TypeOK'
      BY <1>1, <2>1, <2>2 DEF IInv, TypeOK, registry
    <2>5. ShownSince(e.body, asked[c])
      <3>1. PICK s \in shown : e.body.content = s[1] /\ s[2] >= e.built
        BY <2>2 DEF EntryOK
      <3>2. s[2] \in Nat
        BY DEF IInv, TypeOK
      <3>3. s[2] + Ttl > asked[c]
        BY <1>1, <2>2, <2>3, <3>1, <3>2, NumbersAssumption
      <3>4. QED
        BY <3>1, <3>3 DEF ShownSince
    <2>6. e.body = Render(e.body.content, request[c])
      BY <2>2, SameKey DEF EntryOK
    <2>7. Answers(e.body, request[c], asked[c], current[c])
      BY <2>2, <2>3, <2>5, <2>6 DEF Answers, EntryOK
    <2>8. pc'[c] = "answer" /\ body'[c] = e.body /\ pc[c] = "find"
      BY <2>1 DEF IInv, TypeOK, Find
    <2>9. ThreadOK(c)'
      BY <1>1, <2>2, <2>7, <2>8 DEF ThreadOK, Told, Answers, ShownSince, registry
    <2>10. QED
      BY <1>1, <2>1, <2>4, <2>9, ThreadStep DEF IInv, TypeOK
  <1>3. CASE ~(e # Nothing /\ Fresh(e, c))
    <2>1. pc' = [pc EXCEPT ![c] = "render"] /\ body' = body /\ pc[c] = "find"
      BY <1>3 DEF Find, Goto
    <2>2. TypeOK'
      BY <1>1, <2>1 DEF IInv, TypeOK, registry
    <2>3. ThreadOK(c)'
      BY <1>1, <2>1 DEF IInv, TypeOK, ThreadOK, Told, registry
    <2>4. QED
      BY <1>1, <2>1, <2>2, <2>3, ThreadStep DEF IInv, TypeOK
  <1>4. QED
    BY <1>2, <1>3

(* A rendering shows what is published after the version and the clock     *)
(* were read.                                                              *)
LEMMA RenderKeeps ==
    ASSUME IInv, NEW c \in Clients, RenderDocument(c)
    PROVE  IInv'
  <1> DEFINE d == Render(content, request[c])
  <1>1. /\ ThreadOK(c)
        /\ current[c] \in Nat /\ asked[c] \in Nat /\ now \in Nat /\ version \in Nat
        /\ UNCHANGED <<cache, request, current, asked, status, copy, registry>>
        /\ pc[c] = "render"
        /\ pc' = [pc EXCEPT ![c] = "insert"]
        /\ body' = [body EXCEPT ![c] = d]
    BY DEF IInv, TypeOK, RenderDocument, Goto
  <1>2. d \in Documents /\ d.content = content /\ d = Render(d.content, request[c])
    BY RenderType DEF IInv, TypeOK
  <1>3. TypeOK'
    BY <1>1, <1>2 DEF IInv, TypeOK, registry
  <1>4. pc'[c] = "insert" /\ body'[c] = d
    BY <1>1 DEF IInv, TypeOK
  <1>5. \E s \in shown : d.content = s[1] /\ s[2] >= asked[c]
    BY <1>1, <1>2 DEF IInv, HistoryOK, ThreadOK
  <1>6. <<current[c], d.content>> \in since
    BY <1>1, <1>2 DEF IInv, HistoryOK, ThreadOK
  <1>7. ThreadOK(c)'
    <2> HIDE DEF d
    <2>1. QED
      BY <1>1, <1>2, <1>4, <1>5, <1>6 DEF ThreadOK, Told, registry
  <1>8. QED
    BY <1>1, <1>3, <1>7, ThreadStep DEF IInv, TypeOK

LEMMA FailureKeeps ==
    ASSUME IInv, NEW c \in Clients, RenderFails(c)
    PROVE  IInv'
  <1>1. TypeOK'
    BY DEF IInv, TypeOK, RenderFails, Goto, registry
  <1>2. ThreadOK(c)'
    BY DEF IInv, TypeOK, ThreadOK, Told, RenderFails, Goto
  <1>3. QED
    BY <1>1, <1>2, ThreadStep DEF IInv, TypeOK, RenderFails, Goto

LEMMA InsertKeeps ==
    ASSUME IInv, NEW c \in Clients, Insert(c)
    PROVE  IInv'
  <1> DEFINE k == Key(request[c])
             e == NewEntry(c)
  <1>1. /\ ThreadOK(c)
        /\ current[c] \in Nat /\ asked[c] \in Nat
        /\ UNCHANGED <<request, current, asked, body, status, copy, registry>>
        /\ pc[c] = "insert"
        /\ pc' = [pc EXCEPT ![c] = "answer"]
        /\ cache' \in Inserted(k, e)
        /\ cache \in [Keys -> Entry \cup {Nothing}]
        /\ request[c] \in Requests
    BY DEF IInv, TypeOK, Insert, Goto
  <1>2. /\ body[c] \in Documents
        /\ \E s \in shown : body[c].content = s[1] /\ s[2] >= asked[c]
        /\ <<current[c], body[c].content>> \in since
        /\ body[c] = Render(body[c].content, request[c])
    BY <1>1 DEF ThreadOK
  <1>3. e \in Entry /\ e.body = body[c] /\ e.version = current[c] /\ e.built = asked[c]
    BY <1>1, <1>2 DEF NewEntry, Entry
  <1>4. k \in Keys /\ k = <<body[c].listed, body[c].apikey>>
    BY <1>1, <1>2 DEF Keys, Key, Render
  <1>5. EntryOK(k, e)
    BY <1>2, <1>3, <1>4 DEF EntryOK
  <1> HIDE DEF e, k
  <1>6. /\ cache' \in [Keys -> Entry \cup {Nothing}]
        /\ \A j \in Keys : cache'[j] \in {cache[j], Nothing} \/ (j = k /\ cache'[j] = e)
    BY <1>1, <1>3, <1>4, InsertedEntries
  <1>7. CacheOK'
    BY <1>1, <1>5, <1>6 DEF IInv, CacheOK, EntryOK, registry
  <1>8. TypeOK'
    BY <1>1, <1>6 DEF IInv, TypeOK, registry
  <1>9. ThreadOK(c)'
    <2>1. ShownSince(body[c], asked[c])
      BY <1>1, <1>2, NumbersAssumption DEF ShownSince, IInv, TypeOK
    <2>2. pc'[c] = "answer"
      BY <1>1 DEF IInv, TypeOK
    <2>3. QED
      BY <1>1, <1>2, <2>1, <2>2 DEF ThreadOK, Told, Answers, ShownSince, registry
  <1>10. \A d \in Clients : ThreadOK(d)'
    BY <1>1, <1>9, OthersKeep DEF IInv, TypeOK
  <1>11. QED
    BY <1>1, <1>7, <1>8, <1>10 DEF IInv, HistoryOK, registry

(* The client's copy becomes the response's document, or is equal to it. *)
LEMMA AnswerKeeps ==
    ASSUME IInv, NEW c \in Clients, Answer(c)
    PROVE  IInv'
  <1>1. /\ ThreadOK(c)
        /\ UNCHANGED <<cache, request, current, asked, registry>>
        /\ pc[c] = "answer"
        /\ pc' = [pc EXCEPT ![c] = "done"]
        /\ body' = [body EXCEPT ![c] = Nothing]
    BY DEF IInv, TypeOK, Answer, Goto
  <1>2. PICK h \in Headers :
           /\ status' = [status EXCEPT ![c] = Status(c, h)]
           /\ copy' = [copy EXCEPT ![c] = IF Status(c, h) = "200" THEN body[c] ELSE @]
    BY DEF Answer
  <1>3. Status(c, h) \in {"200", "204", "304", "412"}
    BY DEF Status, Headers
  <1>4. Status(c, h) = "304" => copy[c] = body[c]
    BY DEF Status, Headers
  <1>5. body[c] \in Documents /\ Answers(body[c], request[c], asked[c], current[c])
    BY <1>1 DEF ThreadOK
  <1>6. TypeOK'
    BY <1>1, <1>2, <1>3, <1>5 DEF IInv, TypeOK, registry
  <1>7. pc'[c] = "done" /\ status'[c] = Status(c, h)
    BY <1>1, <1>2 DEF IInv, TypeOK
  <1>8. Status(c, h) \in {"200", "304"} => copy'[c] = body[c]
    BY <1>2, <1>4 DEF IInv, TypeOK
  <1>9. ThreadOK(c)'
    BY <1>1, <1>5, <1>7, <1>8 DEF ThreadOK, Told, Answers, ShownSince, registry
  <1>10. QED
    BY <1>1, <1>2, <1>6, <1>9, ThreadStep DEF IInv, TypeOK

-----------------------------------------------------------------------------
LEMMA Invariance == Spec => []IInv
  <1>1. Init => IInv
    <2> SUFFICES ASSUME Init PROVE IInv
      OBVIOUS
    <2>1. TypeOK
      BY DEF Init, TypeOK
    <2>2. HistoryOK /\ CacheOK /\ \A c \in Clients : ThreadOK(c)
      BY DEF Init, HistoryOK, CacheOK, ThreadOK, Told
    <2>3. QED
      BY <2>1, <2>2 DEF IInv
  <1>2. IInv /\ UNCHANGED vars => IInv'
    <2> SUFFICES ASSUME IInv, UNCHANGED vars PROVE IInv'
      OBVIOUS
    <2>1. TypeOK' /\ Outside /\ UNCHANGED registry
      BY DEF IInv, TypeOK, Outside, vars, registry
    <2>2. HistoryOK'
      BY <2>1 DEF IInv, HistoryOK, registry
    <2>3. shown \subseteq shown' /\ since \subseteq since' /\ version <= version' /\ now <= now'
      BY <2>1 DEF IInv, TypeOK, registry
    <2>4. QED
      BY <2>1, <2>2, <2>3, OutsideStep
  <1>3. IInv /\ [Next]_vars => IInv'
    BY <1>2, RegistryKeeps, AskKeeps, FindKeeps, RenderKeeps, FailureKeeps, InsertKeeps,
       AnswerKeeps DEF Next
  <1>4. QED
    BY <1>1, <1>3, PTL DEF Spec

(* Every variable of the handler, its threads and its cache keeps its type. *)
THEOREM CacheTypes == Spec => []TypeOK
  BY Invariance, PTL DEF IInv

(* The TTL bounds the staleness of every answer, whatever the threads do   *)
(* between the lookup and the insertion (Handler::wmsGetCapabilitiesQuery).*)
THEOREM Staleness == Spec => []BoundedStaleness
  <1>1. IInv => BoundedStaleness
    BY DEF IInv, ThreadOK, BoundedStaleness, Answers
  <1>2. QED
    BY <1>1, Invariance, PTL

(* No document of an older map is answered under a newer capabilities time *)
(* than the map's replacement (current_version is read before the map).    *)
THEOREM Fence == Spec => []VersionFence
  <1>1. IInv => VersionFence
    BY DEF IInv, ThreadOK, VersionFence, Answers
  <1>2. QED
    BY <1>1, Invariance, PTL

(* A client gets the document of its own apikey and parameters             *)
(* (computeCapabilitiesCacheKey has all that GetCapabilities::response     *)
(* depends on).                                                            *)
THEOREM Ownership == Spec => []OwnDocument
  <1>1. IInv => OwnDocument
    BY DEF IInv, ThreadOK, OwnDocument, Answers
  <1>2. QED
    BY <1>1, Invariance, PTL

=============================================================================
