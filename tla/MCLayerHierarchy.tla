-------------------------- MODULE MCLayerHierarchy --------------------------
(***************************************************************************)
(* LayerHierarchy with a namespace of three layers beside a layer.         *)
(***************************************************************************)
EXTENDS LayerHierarchy, TLC

MCNames == {<<"fmi", "ec", "pressure">>, <<"fmi", "ec", "rain">>, <<"fmi", "ec", "wind">>,
            <<"fmi", "radar">>}

MCPosition == (<<"fmi", "ec", "pressure">> :> 1) @@ (<<"fmi", "ec", "rain">> :> 2)
                  @@ (<<"fmi", "ec", "wind">> :> 3) @@ (<<"fmi", "radar">> :> 4)

BaseMap == [geo |-> [geo |-> 1], runs |-> Nothing, interval |-> Nothing, elevation |-> Nothing,
            crs |-> ("EPSG:3067" :> 1) @@ ("EPSG:4326" :> 1)]

Forecast == [BaseMap EXCEPT !.runs = (1 :> {1, 2}) @@ (2 :> {2, 3}),
                            !.elevation = [elevation |-> {1, 2}]]
Surface == [Forecast EXCEPT !.elevation = Nothing]
Observed == [BaseMap EXCEPT !.runs = NoRun :> {2, 3},
                            !.interval = [interval_start |-> 5],
                            !.crs = ("EPSG:3067" :> 2) @@ ("EPSG:4326" :> 1)]
Hourly == [Observed EXCEPT !.interval = [interval_start |-> 60]]
Hidden == [BaseMap EXCEPT !.geo = Nothing, !.crs = Nothing]

MCAttributes == {BaseMap, Forecast, Surface, Observed, Hourly, Hidden}

MCReferences == {NoRun, 1}

=============================================================================
