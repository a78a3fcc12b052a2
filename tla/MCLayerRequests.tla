--------------------------- MODULE MCLayerRequests ---------------------------
(***************************************************************************)
(* LayerRequests with a forecast whose runs, levels and times change, and  *)
(* a map without time.                                                     *)
(***************************************************************************)
EXTENDS LayerRequests, TLC

CONSTANTS c1, c2

forecast == "fmi:forecast"
roads == "osm:roads"

MCLayers == {forecast, roads}

MCCustomerOf == (forecast :> "fmi") @@ (roads :> "osm")

Version == [hidden |-> FALSE, runs |-> <<>>, untilNow |-> FALSE, shown |-> 9, levels |-> {},
            levelTyped |-> TRUE, styles |-> {}]

OneRun == [Version EXCEPT !.runs = 0 :> {0, 1}, !.levels = {1, 2}, !.styles = {"wide"}]
TwoRuns == [OneRun EXCEPT !.runs = (0 :> {0, 1}) @@ (1 :> {1, 2}), !.levels = {0}]
Observed == [Version EXCEPT !.runs = NotADateTime :> {0, 1}, !.untilNow = TRUE, !.shown = 0]

MCVersionsOf == (forecast :> {OneRun, TwoRuns, Observed}) @@ (roads :> {Version})

Request == [front |-> "map", layers |-> <<forecast>>, style |-> Default, path |-> <<>>,
            time |-> NotADateTime, reference |-> NotADateTime, elevation |-> -1]

MCRequests ==
    {[Request EXCEPT !.reference = 0],
     [Request EXCEPT !.layers = <<forecast, roads>>, !.time = 1, !.elevation = 1],
     [Request EXCEPT !.front = "wmts", !.style = "wide"],
     [Request EXCEPT !.front = "tiles", !.layers = <<roads>>]}

Symmetric == Permutations(Clients)

(* Only requests with dimensions in their paths share more than the map, which *)
(* no request changes: any other is checked while no other client asks.        *)
Alone ==
    \A c, d \in Clients :
        c # d /\ reply[c].answer # "idle" /\ reply[d].answer # "idle" => request[c].path # <<>>

=============================================================================
