---------------------------- MODULE ProductHash ----------------------------
(***************************************************************************)
(* Whether the hash of a product names its image.  Requests for a product  *)
(* come one after the other, with other settings or after new data; the    *)
(* image is kept under the hash of the settings that the hash_value        *)
(* functions combine, and depends on those that the generate functions     *)
(* read (Plugin::daliQuery, and formatResponse with the image cache).      *)
(*                                                                         *)
(* Which settings these are is told by the constants; ProductSettings has  *)
(* what the code says.  A hash that depends on too little answers a        *)
(* request with the image of another one, until the cache drops it, and a  *)
(* browser with a 304 to the end of its days.                              *)
(*                                                                         *)
(* A request is here the set of the settings in which it differs from the  *)
(* first request; the cache drops nothing, as it does in ProductCache.     *)
(***************************************************************************)

EXTENDS Naturals, FiniteSets

CONSTANTS
    Products,    \* the products
    Settings,    \* the settings of each product
    Hashed,      \* those that its hash depends on
    Read,        \* those that its image depends on
    Uncached,    \* the products that have no hash, as their data changes at any time
    Gaps,        \* those that are known to be read and not hashed
    MaxChanged   \* in how many settings two requests may differ

VARIABLES
    product,     \* the product that is asked
    changed,     \* the settings that differ from those of the first request
    imageCache,  \* the images that are kept, under their hashes
    answer       \* the last answer, with the image that would be made for it

vars == <<product, changed, imageCache, answer>>

(* Two requests have the same hash, or image, when they agree on these. *)
HashOf(p, request) == request \cap Hashed[p]

(* Faulty: an image depends on settings that are not read. *)
ImageOfAll(p, request) == request

ImageOf(p, request) == request \cap Read[p]

NoAnswer == [sent |-> {}, wanted |-> {}]

-----------------------------------------------------------------------------

Init ==
    /\ product \in Products
    /\ changed = {}
    /\ imageCache = {}
    /\ answer = NoAnswer

(* The next request has another setting, or the data or a file is a new one. *)
Change(setting) ==
    /\ changed' = changed \cup {setting}
    /\ changed' # changed
    /\ Cardinality(changed') <= MaxChanged
    /\ UNCHANGED <<product, imageCache, answer>>

(* The hash is in the cache, and the image there is the answer. *)
Find(kept) ==
    /\ product \notin Uncached
    /\ kept.hash = HashOf(product, changed)
    /\ answer' = [sent |-> kept.image, wanted |-> ImageOf(product, changed)]
    /\ UNCHANGED <<product, changed, imageCache>>

(* The image is made, and kept if it has a hash. *)
Generate ==
    /\ product \in Uncached \/ \A kept \in imageCache : kept.hash # HashOf(product, changed)
    /\ answer' = [sent |-> ImageOf(product, changed), wanted |-> ImageOf(product, changed)]
    /\ imageCache' = IF product \in Uncached THEN imageCache
                     ELSE imageCache \cup {[hash |-> HashOf(product, changed),
                                            image |-> ImageOf(product, changed)]}
    /\ UNCHANGED <<product, changed>>

Next ==
    \/ \E setting \in Settings[product] : Change(setting)
    \/ \E kept \in imageCache : Find(kept)
    \/ Generate

Spec == Init /\ [][Next]_vars

-----------------------------------------------------------------------------

TypeOK ==
    /\ product \in Products
    /\ changed \subseteq Settings[product]
    /\ imageCache \subseteq [hash : SUBSET Hashed[product], image : SUBSET Read[product]]
    /\ answer \in [sent : SUBSET Read[product], wanted : SUBSET Read[product]]

(* Where an answer differs from the image its request asks for *)
Wrong == (answer.sent \cup answer.wanted) \ (answer.sent \cap answer.wanted)

(* An answer is the image the request asks for, but for the settings that  *)
(* are known to be missing from the hashes: every other setting that a     *)
(* generate function reads is combined by the hash_value functions of all  *)
(* objects it is in.                                                       *)
WrongOnlyInGaps == Wrong \subseteq Gaps[product]

=============================================================================
