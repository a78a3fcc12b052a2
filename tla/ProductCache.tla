---------------------------- MODULE ProductCache ----------------------------
(***************************************************************************)
(* Answers to product requests (images, tiles, raw data) and the image     *)
(* cache they share: Plugin::daliQuery, WMS Handler::wmsGenerateProduct,   *)
(* the generateTile of WMTS and Tiles, and Plugin::formatResponse.         *)
(*                                                                         *)
(* A request hashes its product, then looks in the cache under that hash,  *)
(* then generates and stores, while the data changes.  The hash names what *)
(* the image depends on: the querydata, which the request's State keeps    *)
(* from the first look at it, and the files (symbols, filters, patterns,   *)
(* the OSM timestamp), whose modification time is hashed and which are     *)
(* read again when the image is made.                                      *)
(***************************************************************************)
EXTENDS Integers

CONSTANTS
    Clients,    \* each keeps its last response and sends one request at a time
    Products,   \* what may be asked, by any of the interfaces
    Requests,   \* front and product
    MaxModel,   \* bound on new querydata
    MaxFile,    \* bound on new modification times of files
    MaxFaults,  \* bound on failures
    Nothing     \* no image, no hash, no request

Fronts == {"dali", "wms", "tile"}

(* raw: GeoTIFF, MVT and data tiles; text: SVG, GeoJSON and the like *)
Formats == {"raw", "text", "image"}

ASSUME ProductsAssumption ==
    /\ Products \subseteq [layers : STRING, format : Formats, observed : BOOLEAN,
                           animated : BOOLEAN]
    /\ Requests \subseteq [front : Fronts, product : Products]

ASSUME BoundsAssumption == MaxModel \in Nat /\ MaxFile \in Nat /\ MaxFaults \in Nat

(***************************************************************************)
(* What a hash stands for.  A product's hash tells the product and the     *)
(* times of its data, an image's own hash the image.  BadHash is           *)
(* Fmi::bad_hash; FailedHash is the initial 0 of product_hash, which is    *)
(* not bad_hash: bad_hash stays when combined, and the hashes of lists are *)
(* combined from 0 on.                                                     *)
(***************************************************************************)
Stamp == [product : Products, model : Nat, file : Nat]

Image == [product : Products, model : Nat, file : Nat,
          state : {"complete", "incomplete", "exception"}]

ProductHash(s) == [kind |-> "product", of |-> s]
ImageHash(i) == [kind |-> "image", of |-> i]
BadHash == [kind |-> "bad", of |-> Nothing]
FailedHash == [kind |-> "failed", of |-> Nothing]

Hash ==
    [kind : {"product"}, of : Stamp] \cup [kind : {"image"}, of : Image]
        \cup [kind : {"bad", "failed"}, of : {Nothing}]

ASSUME NothingAssumption ==
    /\ Nothing \notin Image
    /\ Nothing \notin Hash
    /\ Nothing \notin Requests
    /\ Nothing \notin Nat

VARIABLES
    model,    \* the newest querydata
    file,     \* the newest modification time of the files
    cache,    \* itsImageCache: hashes with their images
    pc,       \* where the thread of each client's request is
    request,  \* theRequest, and the product made of it
    pinned,   \* the querydata in the State's itsQCache
    hash,     \* product_hash
    image,    \* what was generated
    status,   \* status of the response
    tag,      \* ETag of the response the client keeps
    copy,     \* its body
    faults    \* failures so far

vars == <<model, file, cache, pc, request, pinned, hash, image, status, tag, copy, faults>>

TypeOK ==
    /\ model \in Nat /\ file \in Nat /\ faults \in Nat
    /\ cache \subseteq [key : Hash, image : Image]
    /\ pc \in [Clients -> {"idle", "hash", "look", "generate", "format", "done"}]
    /\ request \in [Clients -> Requests \cup {Nothing}]
    /\ pinned \in [Clients -> Nat \cup {Nothing}]
    /\ hash \in [Clients -> Hash \cup {Nothing}]
    /\ image \in [Clients -> Image \cup {Nothing}]
    /\ status \in [Clients -> {"none", "200", "204", "304", "412", "error"}]
    /\ tag \in [Clients -> Hash \cup {Nothing}]
    /\ copy \in [Clients -> Image \cup {Nothing}]

Init ==
    /\ model = 0 /\ file = 0 /\ faults = 0
    /\ cache = {}
    /\ pc = [c \in Clients |-> "idle"]
    /\ request = [c \in Clients |-> Nothing]
    /\ pinned = [c \in Clients |-> Nothing]
    /\ hash = [c \in Clients |-> Nothing]
    /\ image = [c \in Clients |-> Nothing]
    /\ status = [c \in Clients |-> "none"]
    /\ tag = [c \in Clients |-> Nothing]
    /\ copy = [c \in Clients |-> Nothing]

-----------------------------------------------------------------------------
(***************************************************************************)
(* The data, and the cache's own making room.                              *)
(***************************************************************************)

Threads == <<pc, request, pinned, hash, image, status, tag, copy, faults>>

NewModel ==
    /\ model < MaxModel
    /\ model' = model + 1
    /\ UNCHANGED <<file, cache>> /\ UNCHANGED Threads

(* A file is written with a new modification time, which counts seconds:   *)
(* Spine::FileCache can't tell two files of the same time apart.           *)
TouchFile ==
    /\ file < MaxFile
    /\ file' = file + 1
    /\ UNCHANGED <<model, cache>> /\ UNCHANGED Threads

Evict ==
    /\ \E e \in cache : cache' = cache \ {e}
    /\ UNCHANGED <<model, file>> /\ UNCHANGED Threads

(* An image of that hash is replaced, or kept. *)
Stored(h, i) ==
    LET others == {e \in cache : e.key # h} IN
    {others \cup {[key |-> h, image |-> i]}} \cup (IF others = cache THEN {} ELSE {cache})

-----------------------------------------------------------------------------
(***************************************************************************)
(* One request.                                                            *)
(***************************************************************************)

Goto(c, l) == pc' = [pc EXCEPT ![c] = l]

Product(c) == request[c].product
Front(c) == request[c].front

(* Only the WMS makes animations. *)
Animated(c) == Front(c) = "wms" /\ Product(c).animated

(* formatResponse is called for what a template has made. *)
Formatted(c) == Product(c).format # "raw" /\ ~Animated(c)

(* The request is over: its State and its image are gone. *)
Leave(c) ==
    /\ Goto(c, "done")
    /\ pinned' = [pinned EXCEPT ![c] = Nothing]
    /\ image' = [image EXCEPT ![c] = Nothing]

(* A response of status 200, which the client keeps *)
Deliver(c, i, t) ==
    /\ Leave(c)
    /\ status' = [status EXCEPT ![c] = "200"]
    /\ copy' = [copy EXCEPT ![c] = i]
    /\ tag' = [tag EXCEPT ![c] = t]

(* Any other response *)
Refuse(c, s) ==
    /\ Leave(c)
    /\ status' = [status EXCEPT ![c] = s]
    /\ UNCHANGED <<copy, tag>>

(* Conditions name the response to the same request, if it is kept. *)
Ask(c) ==
    /\ pc[c] \in {"idle", "done"}
    /\ \E r \in Requests :
          /\ request' = [request EXCEPT ![c] = r]
          /\ IF r = request[c] THEN UNCHANGED <<tag, copy>>
             ELSE /\ tag' = [tag EXCEPT ![c] = Nothing]
                  /\ copy' = [copy EXCEPT ![c] = Nothing]
    /\ hash' = [hash EXCEPT ![c] = Nothing]
    /\ status' = [status EXCEPT ![c] = "none"]
    /\ Goto(c, "hash")
    /\ UNCHANGED <<model, file, cache, pinned, image, faults>>

(* Faulty: the hash does not tell the format of the product. *)
HashOfLayers(p) ==
    IF p.observed THEN BadHash
    ELSE ProductHash([product |-> [p EXCEPT !.format = "image"], model |-> model, file |-> file])

(* Product::hash_value; a layer of observations has no hash *)
HashOf(p) ==
    IF p.observed THEN BadHash
    ELSE ProductHash([product |-> p, model |-> model, file |-> file])

ComputeHash(c) ==
    /\ pc[c] = "hash"
    /\ hash' = [hash EXCEPT ![c] = HashOf(Product(c))]
    /\ pinned' = [pinned EXCEPT ![c] = model]
    /\ Goto(c, "look")
    /\ UNCHANGED <<model, file, cache, request, image, status, tag, copy, faults>>

Fail == faults < MaxFaults /\ faults' = faults + 1

(* generateTile goes on when the hash can't be computed, before or after   *)
(* the querydata was looked up.                                            *)
HashFailsInTile(c) ==
    /\ pc[c] = "hash"
    /\ Front(c) = "tile"
    /\ Fail
    /\ hash' = [hash EXCEPT ![c] = FailedHash]
    /\ \E m \in {model, Nothing} : pinned' = [pinned EXCEPT ![c] = m]
    /\ Goto(c, "look")
    /\ UNCHANGED <<model, file, cache, request, image, status, tag, copy>>

(* Header X-Request-ETag, which tiles ignore; else If-None-Match or If-Match *)
Revalidate(c) ==
    /\ pc[c] = "look"
    /\ hash[c] # BadHash
    /\ \/ Front(c) # "tile" /\ Refuse(c, "204")
       \/ tag[c] = hash[c] /\ Refuse(c, "304")
       \/ tag[c] \notin {hash[c], Nothing} /\ Refuse(c, "412")
    /\ UNCHANGED <<model, file, cache, request, hash, faults>>

(* The header set once the hash is known *)
HeaderTag(c) == IF hash[c] = BadHash THEN Nothing ELSE hash[c]

(* The cache is asked for any hash, bad_hash too. *)
Find(c) ==
    /\ pc[c] = "look"
    /\ ~Animated(c)
    /\ \E e \in cache : e.key = hash[c] /\ Deliver(c, e.image, HeaderTag(c))
    /\ UNCHANGED <<model, file, cache, request, hash, faults>>

Miss(c) ==
    /\ pc[c] = "look"
    /\ Animated(c) \/ \A e \in cache : e.key # hash[c]
    /\ Goto(c, "generate")
    /\ UNCHANGED <<model, file, cache, request, pinned, hash, image, status, tag, copy, faults>>

(* State::getModel *)
ModelOf(c) == IF pinned[c] = Nothing THEN model ELSE pinned[c]

NewImage(c, s) == [product |-> Product(c), model |-> ModelOf(c), file |-> file, state |-> s]

Generate(c) ==
    /\ pc[c] = "generate"
    /\ image' = [image EXCEPT ![c] = NewImage(c, "complete")]
    /\ Goto(c, "format")
    /\ UNCHANGED <<model, file, cache, request, pinned, hash, status, tag, copy, faults>>

(* Faulty: every interface goes on with what generate() has made, if any. *)
GenerateSwallowed(c) ==
    /\ pc[c] = "generate"
    /\ Fail
    /\ Goto(c, "format")
    /\ UNCHANGED <<model, file, cache, request, pinned, hash, image, status, tag, copy>>

(* wmsGenerateProduct goes on with the layers generate() has made. *)
GenerateFailsInWms(c) ==
    /\ pc[c] = "generate"
    /\ Front(c) = "wms" /\ Product(c).format # "raw"
    /\ Fail
    /\ image' = [image EXCEPT ![c] = NewImage(c, "incomplete")]
    /\ Goto(c, "format")
    /\ UNCHANGED <<model, file, cache, request, pinned, hash, status, tag, copy>>

(* Any other failure: to make the product of the request, to hash it, to   *)
(* find the template, to generate, to convert.                             *)
RequestFails(c) ==
    /\ pc[c] \in {"hash", "generate", "format"}
    /\ Fail
    /\ Refuse(c, "error")
    /\ UNCHANGED <<model, file, cache, request, hash>>

(* Faulty: the image of the exception gets the tag of the product. *)
ExceptionImageTagged(c) ==
    /\ pc[c] \in {"hash", "generate"}
    /\ Front(c) = "wms" /\ Product(c).format # "raw"
    /\ Fail
    /\ Deliver(c, [product |-> Product(c), model |-> 0, file |-> 0, state |-> "exception"], hash[c])
    /\ UNCHANGED <<model, file, cache, request, hash>>

(* handleWmsException: the client has asked for an image of the exception. *)
ExceptionImage(c) ==
    /\ pc[c] \in {"hash", "generate"}
    /\ Front(c) = "wms" /\ Product(c).format # "raw"
    /\ Fail
    /\ LET i == [product |-> Product(c), model |-> 0, file |-> 0, state |-> "exception"] IN
          /\ Deliver(c, i, ImageHash(i))
          /\ IF Product(c).format = "image" THEN cache' \in Stored(ImageHash(i), i)
             ELSE UNCHANGED cache
    /\ UNCHANGED <<model, file, request, hash>>

(* Faulty: the product is hashed again when its image is stored. *)
KeysLate(c) ==
    IF Formatted(c) /\ Product(c).format = "image" THEN {HashOf(Product(c))} ELSE {hash[c]}

(* The hash an image is stored under, if it is stored.  Only daliQuery     *)
(* stores raw data without a look at the hash.                             *)
Keys(c) ==
    CASE Formatted(c) /\ Product(c).format = "image" ->
            {IF hash[c] = BadHash THEN ImageHash(image[c]) ELSE hash[c]}
      [] Product(c).format = "raw" -> IF Front(c) = "dali" THEN {hash[c]} ELSE {hash[c]} \ {BadHash}
      [] OTHER -> {}

(* formatResponse, or what raw data and animations have instead of it *)
Format(c) ==
    /\ pc[c] = "format"
    /\ IF Keys(c) = {} THEN UNCHANGED cache
       ELSE \E h \in Keys(c) : cache' \in Stored(h, image[c])
    /\ Deliver(c, image[c],
               IF Formatted(c) /\ hash[c] = BadHash THEN ImageHash(image[c]) ELSE HeaderTag(c))
    /\ UNCHANGED <<model, file, request, hash, faults>>

Next ==
    \/ NewModel \/ TouchFile \/ Evict
    \/ \E c \in Clients :
          Ask(c) \/ ComputeHash(c) \/ HashFailsInTile(c) \/ Revalidate(c) \/ Find(c) \/ Miss(c)
              \/ Generate(c) \/ GenerateFailsInWms(c) \/ RequestFails(c) \/ ExceptionImage(c)
              \/ Format(c)

Spec == Init /\ [][Next]_vars

-----------------------------------------------------------------------------
(***************************************************************************)
(* Properties.                                                             *)
(***************************************************************************)

(* The client has a body it takes for the answer: a new one, or the one it *)
(* kept, which a 304, or the answer to an ETag probe, has confirmed.       *)
Told(c) ==
    /\ pc[c] = "done"
    /\ \/ status[c] \in {"200", "304"}
       \/ status[c] = "204" /\ tag[c] = hash[c]

Hashed(c) == hash[c] # Nothing /\ hash[c].kind = "product"

(* Whoever made the image, by whatever interface, and however the data and *)
(* the cache changed since: the answer to a product that has a hash is an  *)
(* image of that product, in its format, or of an exception the request    *)
(* itself met.                                                             *)
OwnImage == \A c \in Clients : Told(c) /\ Hashed(c) => copy[c].product = Product(c)

(* The answer was made of the very querydata that was hashed, and of files *)
(* no older than those hashed: a hash is computed before the image is      *)
(* made, and the State looks querydata up once.  So a stored image, and a  *)
(* 304, never takes a client back before its own request.                  *)
NeverStale ==
    \A c \in Clients : Told(c) /\ Hashed(c) /\ copy[c].state # "exception" =>
        copy[c].model = hash[c].of.model /\ copy[c].file >= hash[c].of.file

(* The cache and the tags can't be seen: clients get what they would from  *)
(* a server that makes every image anew, of the data it found when it      *)
(* looked at them for this request, and of files no later than the answer. *)
Phase(c) ==
    CASE pc[c] = "hash" -> "asked"
      [] pc[c] \in {"look", "generate", "format"} -> "looked"
      [] OTHER -> pc[c]

DataHashed(c) ==
    IF Hashed(c) THEN [model |-> hash[c].of.model, file |-> hash[c].of.file] ELSE Nothing

Server == INSTANCE ProductServer WITH
    phase <- [c \in Clients |-> Phase(c)], look <- [c \in Clients |-> DataHashed(c)]

ImplementsServer == Server!Spec

(* "hash failure disables caching" (generateTile): a tile that has no hash *)
(* is not answered with another product's image.                           *)
HashFailureDisablesCaching ==
    \A c \in Clients : Told(c) /\ hash[c] = FailedHash => copy[c].product = Product(c)

(* "Disable caching of observation layers" (NumberLayer::hash_value): a    *)
(* product with such a layer is not answered with another's image.         *)
ObservationsNotCached ==
    \A c \in Clients : Told(c) /\ hash[c] = BadHash => copy[c].product = Product(c)

(* "If the request processing fails for some reason then the Dali plugin   *)
(* returns an HTTP error message" (README): an image that lacks layers is  *)
(* not an answer of status 200.                                            *)
FailuresAreErrors ==
    \A c \in Clients : pc[c] = "done" /\ status[c] = "200" => copy[c].state # "incomplete"

=============================================================================
