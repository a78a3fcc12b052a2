-------------------------- MODULE MCLayerRegistry --------------------------
(***************************************************************************)
(* Instances of LayerRegistry.  In the scanning instance product files of  *)
(* two customers may define each other's names, one product has two        *)
(* variants and is made from a database, so that its layers may be kept.   *)
(* In the instance for liveness one file is the backup copy of another,    *)
(* and one product does not parse.                                         *)
(***************************************************************************)
EXTENDS LayerRegistry

CONSTANTS a, b

MCFiles == {"a.json", "b.json"}
MCIgnored == {}
MCCustomers == {"fmi", "ely"}
MCCustomerOf == [f \in MCFiles |-> IF f = "b.json" THEN "ely" ELSE "fmi"]
MCNames == {a, b}
MCFullName == [f \in MCFiles |-> IF f = "b.json" THEN b ELSE a]

Product(ns, k) == [names |-> ns, kind |-> k]

MCProducts == {Product({a, b}, "postgis"), Product({b}, "map")}

LiveFiles == {"a.json", "a.json~"}
LiveIgnored == {"a.json~"}
LiveCustomers == {"fmi"}
LiveCustomerOf == [f \in LiveFiles |-> "fmi"]
LiveFullName == [f \in LiveFiles |-> a]
LiveProducts == {Product({a, b}, "query"), Product({}, "map")}

=============================================================================
