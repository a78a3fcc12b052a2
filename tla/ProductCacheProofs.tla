------------------------- MODULE ProductCacheProofs -------------------------
(***************************************************************************)
(* The answers to product requests, for any clients, products, interfaces, *)
(* data and failures.                                                      *)
(*                                                                         *)
(* The inductive invariant says of a hash and an image that go together -  *)
(* in the cache, in the hands of a thread, with a client - that the hash   *)
(* vouches for the image.                                                  *)
(***************************************************************************)
EXTENDS ProductCache, TLAPS

(* What a product's hash says of an image stored or sent under it *)
Vouched(h, i) ==
    h.kind = "product" =>
        /\ i.product = h.of.product
        /\ i.model = h.of.model
        /\ i.file >= h.of.file

CacheOK == \A e \in cache : Vouched(e.key, e.image)

(* A thread's hash is that of its product, and not of the future. *)
HashOK(c) ==
    Hashed(c) => hash[c].of.product = Product(c) /\ hash[c].of.file <= file

CopyOK(c) ==
    tag[c] # Nothing => copy[c] \in Image /\ Vouched(tag[c], copy[c])

(* An answer of status 200 *)
AnswerOK(c) ==
    \/ copy[c].state = "exception" /\ copy[c].product = Product(c)
    \/ Vouched(hash[c], copy[c])

ThreadOK(c) ==
    /\ pc[c] # "idle" => request[c] \in Requests
    /\ pc[c] = "hash" => hash[c] = Nothing
    /\ pc[c] \in {"look", "generate", "format"} => hash[c] \in Hash
    /\ HashOK(c)
    /\ pc[c] \in {"look", "generate"} /\ Hashed(c) => pinned[c] = hash[c].of.model
    /\ pc[c] = "format" => image[c] \in Image /\ Vouched(hash[c], image[c])
    /\ CopyOK(c)
    /\ pc[c] = "done" /\ status[c] = "200" /\ Hashed(c) => AnswerOK(c)
    /\ pc[c] = "done" /\ status[c] = "304" => tag[c] = hash[c]
    /\ status[c] # "none" => pc[c] = "done"

IInv == TypeOK /\ CacheOK /\ \A c \in Clients : ThreadOK(c)

-----------------------------------------------------------------------------
(* Hashes are told from each other by their kind. *)
LEMMA HashKinds ==
    /\ \A p \in Products, m, f \in Nat :
          LET h == ProductHash([product |-> p, model |-> m, file |-> f]) IN
          /\ h \in Hash /\ h.kind = "product"
          /\ h.of.product = p /\ h.of.model = m /\ h.of.file = f
    /\ \A i \in Image : ImageHash(i) \in Hash /\ ImageHash(i).kind = "image"
    /\ BadHash \in Hash /\ BadHash.kind = "bad"
    /\ FailedHash \in Hash /\ FailedHash.kind = "failed"
    /\ \A h \in Hash : h.kind = "product" => h.of \in Stamp
  BY DEF Hash, Stamp, ProductHash, ImageHash, BadHash, FailedHash

LEMMA RequestTypes ==
    ASSUME NEW c \in Clients, request[c] \in Requests
    PROVE  Product(c) \in Products /\ Product(c).format \in Formats /\ Front(c) \in Fronts
  BY ProductsAssumption DEF Product, Front

(* The thread's variables but its client's own are as they were. *)
Only(c) ==
    \A d \in Clients \ {c} :
        /\ pc'[d] = pc[d] /\ request'[d] = request[d] /\ pinned'[d] = pinned[d]
        /\ hash'[d] = hash[d] /\ image'[d] = image[d] /\ status'[d] = status[d]
        /\ tag'[d] = tag[d] /\ copy'[d] = copy[d]

LEMMA OtherThreads ==
    ASSUME IInv, NEW c \in Clients, Only(c), file' = file,
           NEW d \in Clients \ {c}
    PROVE  ThreadOK(d)'
  <1>1. ThreadOK(d)
    BY DEF IInv
  <1>2. QED
    BY <1>1 DEF Only, ThreadOK, HashOK, Hashed, CopyOK, AnswerOK, Product, Vouched

(* A step of one client's thread, from what it does to that client. *)
LEMMA ThreadStep ==
    ASSUME IInv, NEW c \in Clients, Only(c), file' = file, TypeOK', CacheOK', ThreadOK(c)'
    PROVE  IInv'
  <1>1. \A d \in Clients : ThreadOK(d)'
    BY OtherThreads
  <1>2. QED
    BY <1>1 DEF IInv

(* An image stored under a hash that vouches for it *)
LEMMA StoredKeeps ==
    ASSUME cache \subseteq [key : Hash, image : Image], CacheOK,
           NEW h \in Hash, NEW i \in Image, Vouched(h, i), cache' \in Stored(h, i)
    PROVE  cache' \subseteq [key : Hash, image : Image] /\ CacheOK'
  <1>1. \A e \in cache' : e \in cache \/ e = [key |-> h, image |-> i]
    BY DEF Stored
  <1>2. QED
    BY <1>1 DEF CacheOK, Vouched

-----------------------------------------------------------------------------
(* New data: what was hashed is not of the future. *)
LEMMA DataKeeps == IInv /\ (NewModel \/ TouchFile \/ Evict) => IInv'
  <1> SUFFICES ASSUME IInv, NewModel \/ TouchFile \/ Evict PROVE IInv'
    OBVIOUS
  <1>1. UNCHANGED Threads
    BY DEF NewModel, TouchFile, Evict
  <1>2. file \in Nat /\ file' \in Nat /\ file <= file' /\ model' \in Nat /\ cache' \subseteq cache
    BY DEF NewModel, TouchFile, Evict, IInv, TypeOK
  <1>3. TypeOK'
    BY <1>1, <1>2 DEF IInv, TypeOK, Threads
  <1>4. CacheOK'
    BY <1>2 DEF IInv, CacheOK, Vouched
  <1>5. ASSUME NEW c \in Clients PROVE ThreadOK(c)'
    <2>1. ThreadOK(c) /\ hash[c] \in Hash \cup {Nothing}
      BY DEF IInv, TypeOK
    <2>2. HashOK(c)'
      <3>1. Hashed(c) => hash[c].of.file \in Nat
        BY <2>1, HashKinds DEF Hashed, Stamp
      <3>2. QED
        BY <2>1, <3>1, <1>1, <1>2 DEF ThreadOK, HashOK, Hashed, Product, Threads
    <2>3. QED
      BY <2>1, <2>2, <1>1 DEF ThreadOK, Hashed, CopyOK, AnswerOK, Product, Vouched, Threads
  <1>6. QED
    BY <1>3, <1>4, <1>5 DEF IInv

LEMMA AskKeeps == ASSUME IInv, NEW c \in Clients, Ask(c) PROVE IInv'
  <1>1. PICK r \in Requests : request' = [request EXCEPT ![c] = r]
    BY DEF Ask
  <1>2. TypeOK'
    BY <1>1 DEF IInv, TypeOK, Ask, Goto
  <1>3. Only(c)
    BY DEF IInv, TypeOK, Ask, Goto, Only
  <1>4. CacheOK' /\ file' = file
    BY DEF IInv, CacheOK, Ask, Vouched
  <1>5. /\ pc'[c] = "hash" /\ request'[c] = r /\ hash'[c] = Nothing /\ status'[c] = "none"
        /\ \/ tag'[c] = tag[c] /\ copy'[c] = copy[c]
           \/ tag'[c] = Nothing
    BY <1>1 DEF IInv, TypeOK, Ask, Goto
  <1>6. CopyOK(c)'
    BY <1>5 DEF IInv, ThreadOK, CopyOK, Vouched
  <1>7. ThreadOK(c)'
    BY <1>5, <1>6 DEF ThreadOK, HashOK, Hashed
  <1>8. QED
    BY <1>2, <1>3, <1>4, <1>7, ThreadStep

LEMMA ComputeHashKeeps == ASSUME IInv, NEW c \in Clients, ComputeHash(c) PROVE IInv'
  <1>1. ThreadOK(c) /\ request[c] \in Requests /\ model \in Nat /\ file \in Nat
    BY DEF IInv, TypeOK, ThreadOK, ComputeHash
  <1>2. HashOf(Product(c)) \in Hash
    BY <1>1, RequestTypes, HashKinds DEF HashOf
  <1>3. TypeOK'
    BY <1>1, <1>2 DEF IInv, TypeOK, ComputeHash, Goto
  <1>4. Only(c) /\ CacheOK' /\ file' = file
    BY DEF IInv, TypeOK, CacheOK, ComputeHash, Goto, Only, Vouched
  <1>5. /\ pc'[c] = "look" /\ hash'[c] = HashOf(Product(c)) /\ pinned'[c] = model
        /\ UNCHANGED <<request, image, status, tag, copy, model, file>>
    BY DEF IInv, TypeOK, ComputeHash, Goto
  <1>6. HashOf(Product(c)).kind = "product" =>
           /\ HashOf(Product(c)).of.product = Product(c)
           /\ HashOf(Product(c)).of.model = model
           /\ HashOf(Product(c)).of.file = file
    BY <1>1, RequestTypes, HashKinds DEF HashOf
  <1>7. HashOK(c)' /\ (Hashed(c)' => pinned'[c] = hash'[c].of.model)
    BY <1>1, <1>5, <1>6 DEF HashOK, Hashed, Product
  <1>8. ThreadOK(c)'
    BY <1>1, <1>2, <1>5, <1>7 DEF ThreadOK, CopyOK, Vouched, ComputeHash
  <1>9. QED
    BY <1>3, <1>4, <1>8, ThreadStep

LEMMA HashFailsKeeps == ASSUME IInv, NEW c \in Clients, HashFailsInTile(c) PROVE IInv'
  <1>1. ThreadOK(c) /\ request[c] \in Requests /\ model \in Nat /\ faults \in Nat
    BY DEF IInv, TypeOK, ThreadOK, HashFailsInTile
  <1>2. PICK m \in {model, Nothing} : pinned' = [pinned EXCEPT ![c] = m]
    BY DEF HashFailsInTile
  <1>3. TypeOK'
    BY <1>1, <1>2, HashKinds DEF IInv, TypeOK, HashFailsInTile, Goto, Fail
  <1>4. Only(c) /\ CacheOK' /\ file' = file
    BY DEF IInv, TypeOK, CacheOK, HashFailsInTile, Goto, Only, Vouched
  <1>5. /\ pc'[c] = "look" /\ hash'[c] = FailedHash
        /\ UNCHANGED <<request, image, status, tag, copy, file>>
    BY DEF IInv, TypeOK, HashFailsInTile, Goto
  <1>6. ~Hashed(c)'
    BY <1>5, HashKinds DEF Hashed
  <1>7. ThreadOK(c)'
    BY <1>1, <1>5, <1>6, HashKinds DEF ThreadOK, HashOK, CopyOK, Vouched, HashFailsInTile
  <1>8. QED
    BY <1>3, <1>4, <1>7, ThreadStep

(* A response without a body; 304 only if the copy's tag is the hash. *)
LEMMA RefuseKeeps ==
    ASSUME IInv, NEW c \in Clients, NEW s \in {"204", "304", "412", "error"}, Refuse(c, s),
           pc[c] # "idle", s = "304" => tag[c] = hash[c], faults' \in Nat,
           UNCHANGED <<model, file, cache, request, hash>>
    PROVE  IInv'
  <1>1. ThreadOK(c)
    BY DEF IInv
  <1>2. TypeOK'
    BY DEF IInv, TypeOK, Refuse, Leave, Goto
  <1>3. Only(c) /\ CacheOK'
    BY DEF IInv, TypeOK, CacheOK, Refuse, Leave, Goto, Only, Vouched
  <1>4. pc'[c] = "done" /\ status'[c] = s /\ UNCHANGED <<request, hash, tag, copy, file>>
    BY DEF IInv, TypeOK, Refuse, Leave, Goto
  <1>5. ThreadOK(c)'
    BY <1>1, <1>4 DEF ThreadOK, HashOK, Hashed, CopyOK, Vouched, Product
  <1>6. QED
    BY <1>2, <1>3, <1>5, ThreadStep

LEMMA RevalidateKeeps == ASSUME IInv, NEW c \in Clients, Revalidate(c) PROVE IInv'
  <1>1. pc[c] # "idle" /\ faults' \in Nat /\ UNCHANGED <<model, file, cache, request, hash>>
    BY DEF Revalidate, IInv, TypeOK
  <1>2. PICK s \in {"204", "304", "412", "error"} : Refuse(c, s) /\ (s = "304" => tag[c] = hash[c])
    BY DEF Revalidate
  <1>3. QED
    BY <1>1, <1>2, RefuseKeeps

LEMMA RequestFailsKeeps == ASSUME IInv, NEW c \in Clients, RequestFails(c) PROVE IInv'
  <1>1. /\ pc[c] # "idle" /\ faults' \in Nat /\ Refuse(c, "error")
        /\ UNCHANGED <<model, file, cache, request, hash>>
    BY DEF RequestFails, IInv, TypeOK, Fail
  <1>2. QED
    BY <1>1, RefuseKeeps

(* A response with an image the hash vouches for, or of an exception *)
LEMMA DeliverKeeps ==
    ASSUME IInv, NEW c \in Clients, NEW i \in Image, NEW t \in Hash \cup {Nothing},
           Deliver(c, i, t), pc[c] # "idle", faults' \in Nat,
           t # Nothing => Vouched(t, i),
           Hashed(c) => \/ i.state = "exception" /\ i.product = Product(c)
                        \/ Vouched(hash[c], i),
           cache' \subseteq [key : Hash, image : Image], CacheOK',
           UNCHANGED <<model, file, request, hash>>
    PROVE  IInv'
  <1>1. ThreadOK(c)
    BY DEF IInv
  <1>2. TypeOK'
    BY DEF IInv, TypeOK, Deliver, Leave, Goto
  <1>3. Only(c)
    BY DEF IInv, TypeOK, Deliver, Leave, Goto, Only
  <1>4. /\ pc'[c] = "done" /\ status'[c] = "200" /\ copy'[c] = i /\ tag'[c] = t
        /\ UNCHANGED <<request, hash, file>>
    BY DEF IInv, TypeOK, Deliver, Leave, Goto
  <1>5. CopyOK(c)'
    BY <1>4 DEF CopyOK, Vouched
  <1>6. Hashed(c)' => AnswerOK(c)'
    BY <1>4 DEF Hashed, AnswerOK, Vouched, Product
  <1>7. ThreadOK(c)'
    BY <1>1, <1>4, <1>5, <1>6 DEF ThreadOK, HashOK, Hashed, Product
  <1>8. QED
    BY <1>2, <1>3, <1>7, ThreadStep

LEMMA FindKeeps == ASSUME IInv, NEW c \in Clients, Find(c) PROVE IInv'
  <1>1. PICK e \in cache : e.key = hash[c] /\ Deliver(c, e.image, HeaderTag(c))
    BY DEF Find
  <1>2. e.image \in Image /\ e.key \in Hash /\ Vouched(hash[c], e.image)
    BY <1>1 DEF IInv, TypeOK, CacheOK
  <1>3. HeaderTag(c) \in Hash \cup {Nothing} /\ (HeaderTag(c) # Nothing => HeaderTag(c) = hash[c])
    BY <1>1, <1>2 DEF HeaderTag
  <1>4. /\ pc[c] # "idle" /\ faults' \in Nat /\ UNCHANGED <<model, file, request, hash>>
        /\ cache' \subseteq [key : Hash, image : Image] /\ CacheOK'
    BY DEF Find, IInv, TypeOK, CacheOK, Vouched
  <1>5. QED
    BY <1>1, <1>2, <1>3, <1>4, DeliverKeeps

LEMMA MissKeeps == ASSUME IInv, NEW c \in Clients, Miss(c) PROVE IInv'
  <1>1. TypeOK' /\ Only(c) /\ CacheOK' /\ file' = file
    BY DEF IInv, TypeOK, CacheOK, Miss, Goto, Only, Vouched
  <1>2. /\ pc[c] = "look" /\ pc'[c] = "generate"
        /\ UNCHANGED <<request, pinned, hash, image, status, tag, copy, file>>
    BY DEF IInv, TypeOK, Miss, Goto
  <1>3. ThreadOK(c)'
    BY <1>2 DEF IInv, ThreadOK, HashOK, Hashed, CopyOK, Vouched, Product
  <1>4. QED
    BY <1>1, <1>3, ThreadStep

(* What is generated: of the product, the pinned querydata and the files. *)
LEMMA NewImageOK ==
    ASSUME IInv, NEW c \in Clients, pc[c] = "generate", NEW s \in {"complete", "incomplete"}
    PROVE  NewImage(c, s) \in Image /\ Vouched(hash[c], NewImage(c, s))
  <1>1. ThreadOK(c) /\ request[c] \in Requests /\ hash[c] \in Hash
    BY DEF IInv, ThreadOK
  <1>2. model \in Nat /\ file \in Nat /\ ModelOf(c) \in Nat
    BY DEF IInv, TypeOK, ModelOf
  <1>3. NewImage(c, s) \in Image
    BY <1>1, <1>2, RequestTypes DEF NewImage, Image
  <1>4. ASSUME hash[c].kind = "product" PROVE Vouched(hash[c], NewImage(c, s))
    <2>1. Hashed(c) /\ hash[c].of \in Stamp
      BY <1>1, <1>4, NothingAssumption, HashKinds DEF Hashed
    <2>2. /\ hash[c].of.product = Product(c) /\ hash[c].of.file <= file
          /\ pinned[c] = hash[c].of.model
      BY <1>1, <2>1 DEF ThreadOK, HashOK
    <2>3. ModelOf(c) = hash[c].of.model
      BY <2>1, <2>2, NothingAssumption DEF ModelOf, Stamp
    <2>4. QED
      BY <1>2, <2>1, <2>2, <2>3 DEF Vouched, NewImage, Stamp
  <1>5. QED
    BY <1>3, <1>4 DEF Vouched

LEMMA ImageStep ==
    ASSUME IInv, NEW c \in Clients, pc[c] = "generate", NEW i \in Image, Vouched(hash[c], i),
           image' = [image EXCEPT ![c] = i], Goto(c, "format"), faults' \in Nat,
           UNCHANGED <<model, file, cache, request, pinned, hash, status, tag, copy>>
    PROVE  IInv'
  <1>1. TypeOK' /\ Only(c) /\ CacheOK'
    BY DEF IInv, TypeOK, CacheOK, Goto, Only, Vouched
  <1>2. pc'[c] = "format" /\ image'[c] = i
    BY DEF IInv, TypeOK, Goto
  <1>3. ThreadOK(c)'
    BY <1>2 DEF IInv, ThreadOK, HashOK, Hashed, CopyOK, Vouched, Product
  <1>4. QED
    BY <1>1, <1>3, ThreadStep

LEMMA GenerateKeeps ==
    ASSUME IInv, NEW c \in Clients, Generate(c) \/ GenerateFailsInWms(c)
    PROVE  IInv'
  <1>1. PICK s \in {"complete", "incomplete"} : image' = [image EXCEPT ![c] = NewImage(c, s)]
    BY DEF Generate, GenerateFailsInWms
  <1>2. /\ pc[c] = "generate" /\ Goto(c, "format") /\ faults' \in Nat
        /\ UNCHANGED <<model, file, cache, request, pinned, hash, status, tag, copy>>
    BY DEF Generate, GenerateFailsInWms, Fail, IInv, TypeOK
  <1>3. QED
    BY <1>1, <1>2, NewImageOK, ImageStep

LEMMA ExceptionKeeps == ASSUME IInv, NEW c \in Clients, ExceptionImage(c) PROVE IInv'
  <1> DEFINE i == [product |-> Product(c), model |-> 0, file |-> 0, state |-> "exception"]
  <1>1. /\ pc[c] # "idle" /\ faults' \in Nat /\ UNCHANGED <<model, file, request, hash>>
        /\ Deliver(c, i, ImageHash(i))
        /\ cache' \in Stored(ImageHash(i), i) \/ cache' = cache
    BY DEF ExceptionImage, Fail, IInv, TypeOK
  <1>2. Product(c) \in Products
    BY <1>1, RequestTypes DEF IInv, ThreadOK
  <1>3. i \in Image /\ i.state = "exception" /\ i.product = Product(c)
    BY <1>2 DEF Image
  <1> HIDE DEF i
  <1>4. ImageHash(i) \in Hash /\ Vouched(ImageHash(i), i)
    BY <1>3, HashKinds DEF Vouched
  <1>5. cache' \subseteq [key : Hash, image : Image] /\ CacheOK'
    <2>1. cache \subseteq [key : Hash, image : Image] /\ CacheOK
      BY DEF IInv, TypeOK
    <2>2. CASE cache' = cache
      BY <2>1, <2>2 DEF CacheOK, Vouched
    <2>3. QED
      BY <1>1, <1>3, <1>4, <2>1, <2>2, StoredKeeps
  <1>6. QED
    BY <1>1, <1>3, <1>4, <1>5, DeliverKeeps

LEMMA FormatKeeps == ASSUME IInv, NEW c \in Clients, Format(c) PROVE IInv'
  <1> DEFINE t == IF Formatted(c) /\ hash[c] = BadHash THEN ImageHash(image[c]) ELSE HeaderTag(c)
  <1>1. /\ pc[c] = "format" /\ Deliver(c, image[c], t) /\ faults' \in Nat
        /\ UNCHANGED <<model, file, request, hash>>
    BY DEF Format, IInv, TypeOK
  <1>2. image[c] \in Image /\ hash[c] \in Hash /\ Vouched(hash[c], image[c])
    BY <1>1 DEF IInv, ThreadOK
  <1>3. ImageHash(image[c]) \in Hash /\ Vouched(ImageHash(image[c]), image[c])
    BY <1>2, HashKinds DEF Vouched
  <1>4. (t \in Hash /\ Vouched(t, image[c])) \/ t = Nothing
    BY <1>2, <1>3 DEF HeaderTag
  <1>5. \A h \in Keys(c) : h \in Hash /\ Vouched(h, image[c])
    BY <1>2, <1>3 DEF Keys
  <1>6. cache' \subseteq [key : Hash, image : Image] /\ CacheOK'
    <2>1. cache \subseteq [key : Hash, image : Image] /\ CacheOK
      BY DEF IInv, TypeOK
    <2>2. cache' = cache \/ \E h \in Keys(c) : cache' \in Stored(h, image[c])
      BY DEF Format
    <2>3. CASE cache' = cache
      BY <2>1, <2>3 DEF CacheOK, Vouched
    <2>4. QED
      BY <1>2, <1>5, <2>1, <2>2, <2>3, StoredKeeps
  <1> HIDE DEF t
  <1>7. QED
    BY <1>1, <1>2, <1>4, <1>6, DeliverKeeps

-----------------------------------------------------------------------------
LEMMA Invariance == Spec => []IInv
  <1>1. Init => IInv
    <2> SUFFICES ASSUME Init PROVE IInv
      OBVIOUS
    <2>1. TypeOK
      BY DEF Init, TypeOK
    <2>2. CacheOK /\ \A c \in Clients : ThreadOK(c)
      BY DEF Init, CacheOK, ThreadOK, HashOK, Hashed, CopyOK
    <2>3. QED
      BY <2>1, <2>2 DEF IInv
  <1>2. IInv /\ UNCHANGED vars => IInv'
    <2> SUFFICES ASSUME IInv, UNCHANGED vars PROVE IInv'
      OBVIOUS
    <2>1. TypeOK' /\ CacheOK'
      BY DEF IInv, TypeOK, CacheOK, Vouched, vars
    <2>2. \A c \in Clients : ThreadOK(c)'
      BY DEF IInv, ThreadOK, HashOK, Hashed, CopyOK, AnswerOK, Product, Vouched, vars
    <2>3. QED
      BY <2>1, <2>2 DEF IInv
  <1>3. IInv /\ [Next]_vars => IInv'
    BY <1>2, DataKeeps, AskKeeps, ComputeHashKeeps, HashFailsKeeps, RevalidateKeeps, FindKeeps,
       MissKeeps, GenerateKeeps, RequestFailsKeeps, ExceptionKeeps, FormatKeeps DEF Next
  <1>4. QED
    BY <1>1, <1>3, PTL DEF Spec

(* Every variable of the threads and the cache keeps its type; an image is *)
(* stored or sent only once there is one.                                  *)
THEOREM ProductTypes == Spec => []TypeOK
  BY Invariance, PTL DEF IInv

(* What a client takes for the answer: a body the hash vouches for, or the *)
(* image of its own request's exception.                                   *)
LEMMA Answers ==
    ASSUME IInv, NEW c \in Clients, Told(c), Hashed(c)
    PROVE  AnswerOK(c)
  <1>1. ThreadOK(c)
    BY DEF IInv
  <1>2. CASE status[c] = "200"
    BY <1>1, <1>2 DEF ThreadOK, Told
  <1>3. CASE status[c] \in {"304", "204"}
    <2>1. tag[c] = hash[c] /\ tag[c] # Nothing
      BY <1>1, <1>3 DEF ThreadOK, Told, Hashed
    <2>2. QED
      BY <1>1, <2>1 DEF ThreadOK, CopyOK, AnswerOK
  <1>4. QED
    BY <1>2, <1>3 DEF Told

(* The product's hash, kept together with its image through the shared     *)
(* cache, makes every answer an image of the product that was asked.       *)
THEOREM Ownership == Spec => []OwnImage
  <1>1. IInv => OwnImage
    <2> SUFFICES ASSUME IInv, NEW c \in Clients, Told(c), Hashed(c)
                 PROVE  copy[c].product = Product(c)
      BY DEF OwnImage
    <2>1. hash[c].of.product = Product(c) /\ hash[c].kind = "product"
      BY DEF IInv, ThreadOK, HashOK, Hashed
    <2>2. QED
      BY <2>1, Answers DEF AnswerOK, Vouched
  <1>2. QED
    BY <1>1, Invariance, PTL

(* The hash is computed before the image is made, and the querydata kept:  *)
(* no answer is of older data than its own request hashed.                 *)
THEOREM Freshness == Spec => []NeverStale
  <1>1. IInv => NeverStale
    BY Answers DEF NeverStale, AnswerOK, Vouched, Hashed
  <1>2. QED
    BY <1>1, Invariance, PTL

-----------------------------------------------------------------------------
(***************************************************************************)
(* A server that makes every image anew would have answered the same.      *)
(* Beside what IInv says, an image that goes with a product's hash is none *)
(* of an exception, and of files that have been there already.             *)
(***************************************************************************)
MadeUnder(h, i) == h.kind = "product" => i.state # "exception" /\ i.file <= file

ThreadMade(c) ==
    /\ pc[c] = "format" => MadeUnder(hash[c], image[c])
    /\ tag[c] # Nothing => MadeUnder(tag[c], copy[c])

MadeInv ==
    /\ \A e \in cache : MadeUnder(e.key, e.image)
    /\ \A c \in Clients : ThreadMade(c)

LEMMA MadeStays ==
    ASSUME NEW h, NEW i \in Image, MadeUnder(h, i), file \in Nat, file' \in Nat, file <= file'
    PROVE  MadeUnder(h, i)'
  BY DEF MadeUnder, Image

LEMMA OthersMade ==
    ASSUME MadeInv, NEW c \in Clients, Only(c), file' = file, NEW d \in Clients \ {c}
    PROVE  ThreadMade(d)'
  BY DEF MadeInv, ThreadMade, MadeUnder, Only

LEMMA MadeStep ==
    ASSUME MadeInv, NEW c \in Clients, Only(c), file' = file, ThreadMade(c)',
           \A e \in cache' : e \in cache \/ MadeUnder(e.key, e.image)
    PROVE  MadeInv'
  <1>1. \A e \in cache' : MadeUnder(e.key, e.image)'
    BY DEF MadeInv, MadeUnder
  <1>2. \A d \in Clients : ThreadMade(d)'
    BY OthersMade
  <1>3. QED
    BY <1>1, <1>2 DEF MadeInv

LEMMA StoredMade ==
    ASSUME NEW h, NEW i, MadeUnder(h, i), cache' \in Stored(h, i)
    PROVE  \A e \in cache' : e \in cache \/ MadeUnder(e.key, e.image)
  <1>1. \A e \in cache' : e \in cache \/ e = [key |-> h, image |-> i]
    BY DEF Stored
  <1>2. QED
    BY <1>1

LEMMA DataMade == ASSUME IInv, MadeInv, NewModel \/ TouchFile \/ Evict PROVE MadeInv'
  <1>1. UNCHANGED Threads /\ cache' \subseteq cache
    BY DEF NewModel, TouchFile, Evict
  <1>2. file \in Nat /\ file' \in Nat /\ file <= file'
    BY DEF NewModel, TouchFile, Evict, IInv, TypeOK
  <1>3. \A e \in cache' : MadeUnder(e.key, e.image)'
    <2> SUFFICES ASSUME NEW e \in cache' PROVE MadeUnder(e.key, e.image)'
      OBVIOUS
    <2>1. e.image \in Image /\ MadeUnder(e.key, e.image)
      BY <1>1 DEF IInv, TypeOK, MadeInv
    <2>2. QED
      BY <1>2, <2>1, MadeStays
  <1>4. ASSUME NEW c \in Clients PROVE ThreadMade(c)'
    <2>1. /\ pc[c] = "format" => image[c] \in Image /\ MadeUnder(hash[c], image[c])
          /\ tag[c] # Nothing => copy[c] \in Image /\ MadeUnder(tag[c], copy[c])
      BY DEF IInv, ThreadOK, CopyOK, MadeInv, ThreadMade
    <2>2. UNCHANGED <<pc, hash, image, tag, copy>>
      BY <1>1 DEF Threads
    <2>3. QED
      BY <1>2, <2>1, <2>2 DEF ThreadMade, MadeUnder, Image
  <1>5. QED
    BY <1>3, <1>4 DEF MadeInv

(* Steps that deliver nothing and make nothing *)
LEMMA QuietMade ==
    ASSUME IInv, MadeInv, NEW c \in Clients,
           \/ Ask(c) \/ ComputeHash(c) \/ HashFailsInTile(c) \/ Miss(c)
           \/ Revalidate(c) \/ RequestFails(c)
    PROVE  MadeInv'
  <1>1. Only(c) /\ file' = file /\ cache' = cache
    BY DEF IInv, TypeOK, Only, Ask, ComputeHash, HashFailsInTile, Miss, Revalidate, RequestFails,
           Refuse, Leave, Goto
  <1>2. pc'[c] # "format" /\ (tag'[c] = Nothing \/ (tag'[c] = tag[c] /\ copy'[c] = copy[c]))
    BY DEF IInv, TypeOK, Ask, ComputeHash, HashFailsInTile, Miss, Revalidate, RequestFails,
           Refuse, Leave, Goto
  <1>3. ThreadMade(c)'
    BY <1>1, <1>2 DEF MadeInv, ThreadMade, MadeUnder
  <1>4. QED
    BY <1>1, <1>3, MadeStep

LEMMA GenerateMade ==
    ASSUME IInv, MadeInv, NEW c \in Clients, Generate(c) \/ GenerateFailsInWms(c)
    PROVE  MadeInv'
  <1>1. PICK s \in {"complete", "incomplete"} : image' = [image EXCEPT ![c] = NewImage(c, s)]
    BY DEF Generate, GenerateFailsInWms
  <1>2. Only(c) /\ UNCHANGED <<file, cache, hash, tag, copy>>
    BY DEF IInv, TypeOK, Only, Generate, GenerateFailsInWms, Goto
  <1>3. image'[c] = NewImage(c, s) /\ file \in Nat
    BY <1>1 DEF IInv, TypeOK
  <1>4. ThreadMade(c)'
    BY <1>2, <1>3 DEF MadeInv, ThreadMade, MadeUnder, NewImage
  <1>5. QED
    BY <1>2, <1>4, MadeStep

(* What Deliver does to its client, and to what it has *)
LEMMA DeliverDoes ==
    ASSUME IInv, NEW c \in Clients, NEW i, NEW t, Deliver(c, i, t), UNCHANGED <<request, hash>>
    PROVE  /\ Only(c) /\ pc'[c] = "done" /\ status' = [status EXCEPT ![c] = "200"]
           /\ copy' = [copy EXCEPT ![c] = i] /\ copy'[c] = i /\ tag'[c] = t
  BY DEF IInv, TypeOK, Deliver, Leave, Goto, Only

LEMMA DeliverMade ==
    ASSUME IInv, MadeInv, NEW c \in Clients, NEW i, NEW t, Deliver(c, i, t),
           UNCHANGED <<file, request, hash>>, t # Nothing => MadeUnder(t, i),
           \A e \in cache' : e \in cache \/ MadeUnder(e.key, e.image)
    PROVE  MadeInv'
  <1>1. Only(c) /\ pc'[c] = "done" /\ copy'[c] = i /\ tag'[c] = t
    BY DeliverDoes
  <1>2. ThreadMade(c)'
    BY <1>1 DEF ThreadMade, MadeUnder
  <1>3. QED
    BY <1>1, <1>2, MadeStep

(* The image found *)
LEMMA FindDoes ==
    ASSUME IInv, MadeInv, NEW c \in Clients, Find(c)
    PROVE  \E i \in Image :
              /\ Deliver(c, i, HeaderTag(c)) /\ Vouched(hash[c], i) /\ MadeUnder(hash[c], i)
              /\ UNCHANGED <<model, file, cache, request, hash>>
  <1>1. PICK e \in cache : e.key = hash[c] /\ Deliver(c, e.image, HeaderTag(c))
    BY DEF Find
  <1>2. e.image \in Image /\ Vouched(hash[c], e.image) /\ MadeUnder(hash[c], e.image)
    BY <1>1 DEF IInv, TypeOK, CacheOK, MadeInv
  <1>3. QED
    BY <1>1, <1>2 DEF Find

LEMMA FindMade == ASSUME IInv, MadeInv, NEW c \in Clients, Find(c) PROVE MadeInv'
  <1>1. PICK i \in Image :
            /\ Deliver(c, i, HeaderTag(c)) /\ MadeUnder(hash[c], i)
            /\ UNCHANGED <<file, cache, request, hash>>
    BY FindDoes
  <1>2. HeaderTag(c) # Nothing => MadeUnder(HeaderTag(c), i)
    BY <1>1 DEF HeaderTag
  <1>3. QED
    BY <1>1, <1>2, DeliverMade

LEMMA ExceptionMade == ASSUME IInv, MadeInv, NEW c \in Clients, ExceptionImage(c) PROVE MadeInv'
  <1> DEFINE i == [product |-> Product(c), model |-> 0, file |-> 0, state |-> "exception"]
  <1>1. /\ Deliver(c, i, ImageHash(i)) /\ UNCHANGED <<file, request, hash>>
        /\ cache' \in Stored(ImageHash(i), i) \/ cache' = cache
    BY DEF ExceptionImage
  <1> HIDE DEF i
  <1>2. MadeUnder(ImageHash(i), i)
    BY DEF MadeUnder, ImageHash
  <1>3. \A e \in cache' : e \in cache \/ MadeUnder(e.key, e.image)
    BY <1>1, <1>2, StoredMade
  <1>4. QED
    BY <1>1, <1>2, <1>3, DeliverMade

LEMMA FormatMade == ASSUME IInv, MadeInv, NEW c \in Clients, Format(c) PROVE MadeInv'
  <1> DEFINE t == IF Formatted(c) /\ hash[c] = BadHash THEN ImageHash(image[c]) ELSE HeaderTag(c)
  <1>1. /\ pc[c] = "format" /\ Deliver(c, image[c], t) /\ UNCHANGED <<file, request, hash>>
    BY DEF Format
  <1>2. MadeUnder(hash[c], image[c]) /\ MadeUnder(ImageHash(image[c]), image[c])
    BY <1>1 DEF MadeInv, ThreadMade, MadeUnder, ImageHash
  <1>3. t # Nothing => MadeUnder(t, image[c])
    BY <1>2 DEF HeaderTag
  <1>4. \A h \in Keys(c) : MadeUnder(h, image[c])
    BY <1>2 DEF Keys
  <1>5. cache' = cache \/ \E h \in Keys(c) : cache' \in Stored(h, image[c])
    BY DEF Format
  <1>6. \A e \in cache' : e \in cache \/ MadeUnder(e.key, e.image)
    BY <1>4, <1>5, StoredMade
  <1> HIDE DEF t
  <1>7. QED
    BY <1>1, <1>3, <1>6, DeliverMade

LEMMA MadeInvariant == Spec => [](IInv /\ MadeInv)
  <1>1. Init => MadeInv
    BY DEF Init, MadeInv, ThreadMade
  <1>2. IInv /\ MadeInv /\ [Next]_vars => MadeInv'
    <2>1. MadeInv /\ UNCHANGED vars => MadeInv'
      BY DEF MadeInv, ThreadMade, MadeUnder, vars
    <2>2. QED
      BY <2>1, DataMade, QuietMade, GenerateMade, FindMade, ExceptionMade, FormatMade DEF Next
  <1>3. QED
    BY <1>1, <1>2, Invariance, PTL DEF Spec

(* A step of one client's thread changes the mapped state of that client.  *)
LEMMA MapUpdate ==
    ASSUME NEW c \in Clients, Only(c)
    PROVE  /\ [d \in Clients |-> Phase(d)]' =
                 [[d \in Clients |-> Phase(d)] EXCEPT ![c] = Phase(c)']
           /\ [d \in Clients |-> DataHashed(d)]' =
                 [[d \in Clients |-> DataHashed(d)] EXCEPT ![c] = DataHashed(c)']
  <1>1. \A d \in Clients \ {c} : Phase(d)' = Phase(d) /\ DataHashed(d)' = DataHashed(d)
    BY DEF Only, Phase, DataHashed, Hashed
  <1>2. QED
    BY <1>1

LEMMA SameLook ==
    ASSUME UNCHANGED hash
    PROVE  [d \in Clients |-> DataHashed(d)]' = [d \in Clients |-> DataHashed(d)]
  BY DEF DataHashed, Hashed

LEMMA ServerAnswers ==
    ASSUME NEW c \in Clients, NEW s, Only(c), pc'[c] = "done",
           status' = [status EXCEPT ![c] = s], UNCHANGED <<model, file, request, hash>>
    PROVE  Server!Answer(c, s)
  <1>1. Phase(c)' = "done"
    BY DEF Phase
  <1>2. QED
    BY <1>1, MapUpdate, SameLook DEF Server!Answer

(* An image the hash vouches for is one the server could have made. *)
LEMMA ServerMade ==
    ASSUME IInv, NEW c \in Clients, NEW i \in Image, Vouched(hash[c], i), MadeUnder(hash[c], i),
           DataHashed(c) # Nothing
    PROVE  Server!MadeFor(c, i)
  <1>1. Hashed(c) /\ HashOK(c)
    BY DEF DataHashed, IInv, ThreadOK
  <1>2. /\ i.product = Product(c) /\ i.model = hash[c].of.model /\ i.file >= hash[c].of.file
        /\ i.state # "exception" /\ i.file <= file
    BY <1>1 DEF Hashed, HashOK, Vouched, MadeUnder
  <1>3. hash[c].of.file \in Nat /\ i.file \in Nat
    BY <1>1, HashKinds DEF IInv, TypeOK, Hashed, Stamp, Image
  <1>4. hash[c].of.file <= i.file
    BY <1>2, <1>3
  <1>5. /\ [d \in Clients |-> DataHashed(d)][c].model = hash[c].of.model
        /\ [d \in Clients |-> DataHashed(d)][c].file = hash[c].of.file
    BY <1>1 DEF DataHashed
  <1>6. QED
    BY <1>2, <1>4, <1>5 DEF Server!MadeFor, Product

LEMMA ServerImage == Image = Server!Image
  BY DEF Image, Server!Image

LEMMA ServerData ==
    ASSUME IInv, NewModel \/ TouchFile \/ Evict
    PROVE  Server!NewData
  <1>1. UNCHANGED Threads /\ model' \in Nat /\ model <= model' /\ file' \in Nat /\ file <= file'
    BY DEF NewModel, TouchFile, Evict, IInv, TypeOK
  <1>2. /\ [d \in Clients |-> Phase(d)]' = [d \in Clients |-> Phase(d)]
        /\ [d \in Clients |-> DataHashed(d)]' = [d \in Clients |-> DataHashed(d)]
    BY <1>1 DEF Threads, Phase, DataHashed, Hashed
  <1>3. QED
    BY <1>1, <1>2 DEF Server!NewData, Threads

LEMMA ServerAsk ==
    ASSUME IInv, NEW c \in Clients, Ask(c)
    PROVE  Server!Ask(c)
  <1>1. PICK r \in Requests :
            /\ request' = [request EXCEPT ![c] = r]
            /\ IF r = request[c] THEN UNCHANGED <<tag, copy>>
               ELSE copy' = [copy EXCEPT ![c] = Nothing]
    BY DEF Ask
  <1>2. request'[c] = r
    BY <1>1 DEF IInv, TypeOK
  <1>3. copy' = [copy EXCEPT ![c] = IF request'[c] = request[c] THEN @ ELSE Nothing]
    BY <1>1, <1>2 DEF IInv, TypeOK
  <1>4. Only(c) /\ pc'[c] = "hash" /\ hash'[c] = Nothing /\ pc[c] \in {"idle", "done"}
        /\ status' = [status EXCEPT ![c] = "none"] /\ UNCHANGED <<model, file>>
    BY DEF Ask, Goto, Only, IInv, TypeOK
  <1>5. Phase(c)' = "asked" /\ DataHashed(c)' = Nothing /\ Phase(c) \in {"idle", "done"}
    BY <1>4 DEF Phase, DataHashed, Hashed
  <1>6. QED
    BY <1>1, <1>2, <1>3, <1>4, <1>5, MapUpdate DEF Server!Ask

LEMMA ServerLook ==
    ASSUME IInv, NEW c \in Clients, ComputeHash(c) \/ HashFailsInTile(c)
    PROVE  Server!Look(c)
  <1>1. /\ Only(c) /\ pc[c] = "hash" /\ pc'[c] = "look" /\ hash[c] = Nothing
        /\ UNCHANGED <<model, file, request, status, copy>>
    BY DEF ComputeHash, HashFailsInTile, Goto, Only, IInv, TypeOK, ThreadOK
  <1>2. Phase(c) = "asked" /\ Phase(c)' = "looked" /\ DataHashed(c) = Nothing
    BY <1>1 DEF Phase, DataHashed, Hashed
  <1>3. request[c] \in Requests /\ model \in Nat /\ file \in Nat
    BY <1>1 DEF IInv, TypeOK, ThreadOK
  <1>4. \/ DataHashed(c)' = [model |-> model, file |-> file]
        \/ DataHashed(c)' = Nothing /\ Server!MayLackHash(request[c])
    <2>1. CASE HashFailsInTile(c)
      <3>1. hash'[c] = FailedHash
        BY <2>1 DEF HashFailsInTile, IInv, TypeOK
      <3>2. DataHashed(c)' = Nothing
        BY <3>1, HashKinds DEF DataHashed, Hashed
      <3>3. QED
        BY <2>1, <3>2 DEF HashFailsInTile, Server!MayLackHash, Front
    <2>2. CASE ComputeHash(c) /\ Product(c).observed
      <3>1. hash'[c] = BadHash
        BY <2>2 DEF ComputeHash, HashOf, IInv, TypeOK
      <3>2. DataHashed(c)' = Nothing
        BY <3>1, HashKinds DEF DataHashed, Hashed
      <3>3. QED
        BY <2>2, <3>2 DEF Server!MayLackHash, Product
    <2>3. CASE ComputeHash(c) /\ ~Product(c).observed
      <3> DEFINE h == ProductHash([product |-> Product(c), model |-> model, file |-> file])
      <3>1. hash'[c] = h
        BY <2>3 DEF ComputeHash, HashOf, IInv, TypeOK
      <3>2. h \in Hash /\ h.kind = "product" /\ h.of.model = model /\ h.of.file = file
        BY <1>3, RequestTypes, HashKinds
      <3> HIDE DEF h
      <3>3. QED
        BY <3>1, <3>2, NothingAssumption DEF DataHashed, Hashed
    <2>4. QED
      BY <2>1, <2>2, <2>3
  <1> DEFINE seen == [d \in Clients |-> DataHashed(d)]
  <1>5. /\ seen' = [seen EXCEPT ![c] = DataHashed(c)']
        /\ [d \in Clients |-> Phase(d)]' = [[d \in Clients |-> Phase(d)] EXCEPT ![c] = "looked"]
        /\ [d \in Clients |-> Phase(d)][c] = "asked"
    BY <1>1, <1>2, MapUpdate
  <1>6. \/ seen' = [seen EXCEPT ![c] = [model |-> model, file |-> file]]
        \/ Server!MayLackHash(request[c]) /\ seen' = seen
    <2>1. CASE DataHashed(c)' = [model |-> model, file |-> file]
      BY <1>5, <2>1
    <2>2. CASE DataHashed(c)' = Nothing /\ Server!MayLackHash(request[c])
      BY <1>2, <1>5, <2>2
    <2>3. QED
      BY <1>4, <2>1, <2>2
  <1>7. QED
    BY <1>1, <1>5, <1>6 DEF Server!Look

(* Steps that clients do not see: the cache, and making the image *)
LEMMA ServerSleeps ==
    ASSUME IInv, NEW c \in Clients, Miss(c) \/ Generate(c) \/ GenerateFailsInWms(c)
    PROVE  UNCHANGED Server!vars
  <1>1. /\ Only(c) /\ pc[c] \in {"look", "generate"} /\ pc'[c] \in {"generate", "format"}
        /\ UNCHANGED <<model, file, request, hash, status, copy>>
    BY DEF Miss, Generate, GenerateFailsInWms, Goto, Only, IInv, TypeOK
  <1>2. Phase(c)' = Phase(c)
    BY <1>1 DEF Phase
  <1>3. \A d \in Clients : Phase(d)' = Phase(d)
    BY <1>1, <1>2 DEF Only, Phase
  <1>4. [d \in Clients |-> Phase(d)]' = [d \in Clients |-> Phase(d)]
    BY <1>3
  <1>5. QED
    BY <1>1, <1>4, SameLook DEF Server!vars

(* A body the hash vouches for, sent or confirmed *)
LEMMA ServerShows ==
    ASSUME IInv, NEW c \in Clients, NEW i \in Image, NEW t, Deliver(c, i, t),
           pc[c] \in {"look", "format"}, UNCHANGED <<model, file, request, hash>>,
           Vouched(hash[c], i), MadeUnder(hash[c], i)
    PROVE  Server!Show(c)
  <1>1. /\ Only(c) /\ pc'[c] = "done" /\ status' = [status EXCEPT ![c] = "200"]
        /\ copy' = [copy EXCEPT ![c] = i] /\ copy'[c] = i
    BY DeliverDoes
  <1>2. Server!Answer(c, "200")
    BY <1>1, ServerAnswers
  <1>3. Phase(c) = "looked"
    BY DEF Phase
  <1>4. DataHashed(c) # Nothing => Server!MadeFor(c, i)
    BY ServerMade
  <1>5. DataHashed(c) # Nothing => Server!MadeFor(c, copy'[c])
    BY <1>1, <1>4
  <1>6. QED
    BY <1>1, <1>2, <1>3, <1>5, ServerImage DEF Server!Show

LEMMA ServerFind ==
    ASSUME IInv, MadeInv, NEW c \in Clients, Find(c)
    PROVE  Server!Show(c)
  <1>1. PICK i \in Image :
            /\ Deliver(c, i, HeaderTag(c)) /\ Vouched(hash[c], i) /\ MadeUnder(hash[c], i)
            /\ UNCHANGED <<model, file, cache, request, hash>>
    BY FindDoes
  <1>2. pc[c] = "look"
    BY DEF Find
  <1>3. QED
    BY <1>1, <1>2, ServerShows

LEMMA ServerFormat ==
    ASSUME IInv, MadeInv, NEW c \in Clients, Format(c)
    PROVE  Server!Show(c)
  <1> DEFINE t == IF Formatted(c) /\ hash[c] = BadHash THEN ImageHash(image[c]) ELSE HeaderTag(c)
  <1>1. /\ pc[c] = "format" /\ Deliver(c, image[c], t)
        /\ UNCHANGED <<model, file, request, hash>>
    BY DEF Format
  <1>2. image[c] \in Image /\ Vouched(hash[c], image[c]) /\ MadeUnder(hash[c], image[c])
    BY <1>1 DEF IInv, ThreadOK, MadeInv, ThreadMade
  <1> HIDE DEF t
  <1>3. QED
    BY <1>1, <1>2, ServerShows

LEMMA ServerException ==
    ASSUME IInv, NEW c \in Clients, ExceptionImage(c)
    PROVE  Server!ShowException(c)
  <1> DEFINE i == [product |-> Product(c), model |-> 0, file |-> 0, state |-> "exception"]
  <1>1. /\ pc[c] \in {"hash", "generate"} /\ Front(c) = "wms" /\ Deliver(c, i, ImageHash(i))
        /\ UNCHANGED <<model, file, request, hash>>
    BY DEF ExceptionImage
  <1>2. Product(c) \in Products
    BY <1>1, RequestTypes DEF IInv, ThreadOK
  <1>3. i \in Image /\ i.state = "exception" /\ i.product = Product(c)
    BY <1>2 DEF Image
  <1> HIDE DEF i
  <1>4. /\ Only(c) /\ pc'[c] = "done" /\ status' = [status EXCEPT ![c] = "200"]
        /\ copy' = [copy EXCEPT ![c] = i] /\ copy'[c] = i
    BY <1>1, DeliverDoes
  <1>5. Server!Answer(c, "200")
    BY <1>1, <1>4, ServerAnswers
  <1>6. Phase(c) \in {"asked", "looked"}
    BY <1>1 DEF Phase
  <1>7. QED
    BY <1>1, <1>3, <1>4, <1>5, <1>6, ServerImage DEF Server!ShowException, Front, Product

(* What Refuse does to its client *)
LEMMA ServerRefusal ==
    ASSUME IInv, NEW c \in Clients, NEW s, Refuse(c, s), UNCHANGED <<model, file, request, hash>>
    PROVE  Server!Answer(c, s) /\ UNCHANGED copy
  <1>1. /\ Only(c) /\ pc'[c] = "done" /\ status' = [status EXCEPT ![c] = s] /\ UNCHANGED copy
    BY DEF Refuse, Leave, Goto, Only, IInv, TypeOK
  <1>2. QED
    BY <1>1, ServerAnswers

LEMMA ServerRevalidate ==
    ASSUME IInv, MadeInv, NEW c \in Clients, Revalidate(c)
    PROVE  Server!Refuse(c) \/ Server!Confirm(c)
  <1>1. /\ pc[c] = "look" /\ hash[c] \in Hash /\ hash[c] # Nothing
        /\ UNCHANGED <<model, file, request, hash>>
    BY NothingAssumption DEF Revalidate, IInv, ThreadOK
  <1>2. Phase(c) = "looked"
    BY <1>1 DEF Phase
  <1>3. CASE Refuse(c, "204") \/ Refuse(c, "412")
    BY <1>1, <1>2, <1>3, ServerRefusal DEF Server!Refuse
  <1>4. CASE tag[c] = hash[c] /\ Refuse(c, "304")
    <2>1. copy[c] \in Image /\ Vouched(hash[c], copy[c]) /\ MadeUnder(hash[c], copy[c])
      BY <1>1, <1>4 DEF IInv, ThreadOK, CopyOK, MadeInv, ThreadMade
    <2>2. DataHashed(c) # Nothing => Server!MadeFor(c, copy[c])
      BY <2>1, ServerMade
    <2>3. Server!Answer(c, "304") /\ UNCHANGED copy
      BY <1>1, <1>4, ServerRefusal
    <2>4. QED
      BY <1>2, <2>1, <2>2, <2>3, ServerImage DEF Server!Confirm
  <1>5. QED
    BY <1>3, <1>4 DEF Revalidate

LEMMA ServerFails ==
    ASSUME IInv, NEW c \in Clients, RequestFails(c)
    PROVE  Server!Refuse(c)
  <1>1. Server!Answer(c, "error") /\ UNCHANGED copy
    BY ServerRefusal DEF RequestFails
  <1>2. Phase(c) \in {"asked", "looked"}
    BY DEF RequestFails, Phase
  <1>3. QED
    BY <1>1, <1>2 DEF Server!Refuse

(* The cache, the tags and the hashes can't be seen by the clients: every  *)
(* step of the requests is one of a server that keeps no images, looks at  *)
(* the data once for each request and makes its answer from what it saw.   *)
THEOREM Implementation == Spec => ImplementsServer
  <1>1. Init => Server!Init
    BY DEF Init, Server!Init, Phase, DataHashed, Hashed
  <1>2. IInv /\ MadeInv /\ [Next]_vars => [Server!Next]_(Server!vars)
    <2> SUFFICES ASSUME IInv, MadeInv, [Next]_vars PROVE [Server!Next]_(Server!vars)
      OBVIOUS
    <2>1. CASE UNCHANGED vars
      BY <2>1 DEF vars, Server!vars, Phase, DataHashed, Hashed
    <2>2. CASE NewModel \/ TouchFile \/ Evict
      BY <2>2, ServerData DEF Server!Next
    <2>3. ASSUME NEW c \in Clients,
                 \/ Ask(c) \/ ComputeHash(c) \/ HashFailsInTile(c) \/ Revalidate(c)
                 \/ Find(c) \/ Miss(c) \/ Generate(c) \/ GenerateFailsInWms(c)
                 \/ RequestFails(c) \/ ExceptionImage(c) \/ Format(c)
          PROVE  [Server!Next]_(Server!vars)
      <3>1. CASE Miss(c) \/ Generate(c) \/ GenerateFailsInWms(c)
        BY <3>1, ServerSleeps
      <3>2. CASE Ask(c) \/ ComputeHash(c) \/ HashFailsInTile(c)
        BY <3>2, ServerAsk, ServerLook DEF Server!Next
      <3>3. CASE Find(c) \/ Format(c) \/ ExceptionImage(c)
        BY <3>3, ServerFind, ServerFormat, ServerException DEF Server!Next
      <3>4. CASE Revalidate(c) \/ RequestFails(c)
        BY <3>4, ServerRevalidate, ServerFails DEF Server!Next
      <3>5. QED
        BY <2>3, <3>1, <3>2, <3>3, <3>4
    <2>4. QED
      BY <2>1, <2>2, <2>3 DEF Next
  <1>3. QED
    BY <1>1, <1>2, MadeInvariant, PTL DEF Spec, ImplementsServer, Server!Spec

=============================================================================
