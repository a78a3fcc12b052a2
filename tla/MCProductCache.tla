--------------------------- MODULE MCProductCache ---------------------------
(***************************************************************************)
(* Two clients.  One product is asked by all interfaces, as an image and   *)
(* as raw data; another is of observations, in two formats; and a third is *)
(* an animation when the WMS makes it.                                     *)
(***************************************************************************)
EXTENDS ProductCache, TLC

CONSTANTS c1, c2

MCClients == {c1, c2}

Make(l, f, o, a) == [layers |-> l, format |-> f, observed |-> o, animated |-> a]

Map == Make("map", "image", FALSE, FALSE)
MapRaw == Make("map", "raw", FALSE, FALSE)
Moving == Make("moving", "image", FALSE, TRUE)
Obs == Make("obs", "image", TRUE, FALSE)
ObsRaw == Make("obs", "raw", TRUE, FALSE)
MapSvg == Make("map", "text", FALSE, FALSE)

Req(f, p) == [front |-> f, product |-> p]

MCProducts == {Map, MapRaw, Moving, Obs, ObsRaw, MapSvg}

(* For runs on time and failures: one product, asked by two interfaces; for *)
(* an image daliQuery does nothing that wmsGenerateProduct does not do.     *)
ImageRequests == {Req("wms", Map), Req("tile", Map)}

(* For runs on formats: the products of one set of layers, and an animation *)
FormatRequests ==
    {Req("wms", Map), Req("tile", MapRaw), Req("dali", MapRaw), Req("wms", Moving),
     Req("wms", MapSvg)}

(* Two tiles, for the failure to hash them *)
TileRequests == {Req("tile", Map), Req("tile", MapRaw)}

(* Observations, which are not to be cached, as they are asked from /dali and /wms *)
ObservedRequests == {Req("dali", ObsRaw), Req("wms", Obs)}

Symmetry == Permutations(MCClients)

=============================================================================
