----------------------------- MODULE Catalogue -----------------------------
(***************************************************************************)
(* What the layer registry promises its readers.  The map of layers is     *)
(* replaced as a whole.  Each layer of a new map was made from a version   *)
(* the layer's product file had at some moment since the map before it was *)
(* published, under a name that version defines, or it is the layer that   *)
(* was already published under that name and its kind allows to keep it.   *)
(* Nothing is said of scans, of their order or of how long they take.      *)
(***************************************************************************)
EXTENDS Integers

CONSTANTS Files, Ignored, Names, Products, NoFile, NoLayer

Version == [product : Products, mtime : Nat]

Layer == [file : Files, version : Version, built : Nat]

VARIABLES
    disk,    \* the product files
    layers,  \* the published map
    seen     \* versions of each file since the map was published

vars == <<disk, layers, seen>>

Init ==
    /\ disk \in [Files -> Version \cup {NoFile}]
    /\ layers = [n \in Names |-> NoLayer]
    /\ seen = [f \in Files |-> {disk[f]}]

Edit ==
    \E f \in Files :
        LET v == disk'[f] IN
        /\ v \in Version \cup {NoFile}
        /\ disk' = [disk EXCEPT ![f] = v]
        /\ seen' = [seen EXCEPT ![f] = @ \cup {v}]
        /\ UNCHANGED layers

MadeFrom(l, n) ==
    /\ l.file \in Files \ Ignored
    /\ l.version \in seen[l.file] \ {NoFile}
    /\ n \in l.version.product.names

Kept(l, n) ==
    /\ l = layers[n]
    /\ l.version.product.kind = "postgis"

Publish ==
    /\ \A n \in Names :
          layers'[n] # NoLayer => MadeFrom(layers'[n], n) \/ Kept(layers'[n], n)
    /\ layers' \in [Names -> Layer \cup {NoLayer}]
    /\ seen' = [f \in Files |-> {disk[f]}]
    /\ UNCHANGED disk

Next == Edit \/ Publish

Spec == Init /\ [][Next]_vars

=============================================================================
