--------------------------- MODULE MCProductHash ---------------------------
(***************************************************************************)
(* ProductHash with the settings that the code hashes and reads.           *)
(***************************************************************************)

EXTENDS ProductSettings, ProductHash

AllSettings == [p \in AllProducts |-> SettingsOf(p)] @@ <<>>

AllHashed == [p \in AllProducts |-> HashedSettings(p)] @@ <<>>

AllRead == [p \in AllProducts |-> ReadSettings(p)] @@ <<>>

WithoutHash == {p \in AllProducts : HasNoHash(p)}

-----------------------------------------------------------------------------
(* The fields that are known to be read and not hashed.  First settings of *)
(* a layer or an object that its hash_value leaves out:                    *)

UnhashedSettings ==
    {<<"Product", "language">>,              \* the title, Product.cpp:246
     <<"Product", "projection">>,            \* of a vector tile, Product.cpp:310
     <<"Defs", "csss">>,                     \* Defs.cpp:131
     <<"View", "optimizesize">>, <<"Layers", "optimizesize">>,    \* Layers.cpp:233
     <<"Projection", "latlon_center">>,      \* Projection.cpp:592
     <<"AttributeSelection", "translations">>,  \* used at LegendLayer.cpp:263
     <<"Label", "locale">>,
     <<"Intersection", "smoother">>,
     <<"PostGISLayerFilter", "text_attributes">>,  \* IceMapLayer.cpp:677
     <<"CircleLayer", "features">>, <<"CircleLayer", "lines">>,
     <<"CloudCeilingLayer", "keyword">>, <<"CloudCeilingLayer", "fmisid">>,
     <<"ColorPainter_border", "step_increase">>, <<"ColorPainter_border", "steps">>,
     <<"ColorPainter_rain", "step_x">>,
     <<"FeatureSet", "attributes">>, <<"FeatureSet", "fieldnames">>,
     <<"FrameLayer", "itsPattern">>,
     <<"IceMapLayer", "lines">>, <<"PostGISLayer", "lines">>,
     <<"IsolineLayer", "areaunit">>, <<"IsolabelLayer", "areaunit">>,
     <<"RasterLayer", "direction">>, <<"RasterLayer", "speed">>,
     <<"StreamLayer", "u_parameter">>, <<"StreamLayer", "v_parameter">>,
     <<"SymbolLayer", "minvalues">>,
     <<"WeatherFrontsLayer", "itsSource">>, <<"WeatherFrontsLayer", "itsStyles">>,
     <<"WeatherObject", "css_class">>, <<"WeatherObject", "object_css">>,
     <<"WeatherObject", "max_points">>, <<"WeatherObject", "max_lines">>}
    \cup {"HovmoellerLayer"} \X {"direction", "latitude", "longitude", "lon_min", "lon_max",
                                 "lat_min", "lat_max", "nx", "isobands"}

(* Data that the layer draws, or takes its projection from, and whose      *)
(* generation its hash_value leaves out                                    *)
UnhashedData ==
    ({"BackgroundLayer", "CircleLayer", "GraticuleLayer", "GridLayer", "HovmoellerLayer",
      "LocationLayer", "TagLayer", "WKTLayer", "WeatherObjectsLayer"} \X {"querydata"})
    \cup ({"CloudCeilingLayer", "FinnishRoadObservationLayer", "IsobandLayer",
           "PresentWeatherObservationLayer", "SymbolLayer", "WindRoseLayer"} \X {"observations"})
    \cup {<<"Intersection", "other_griddata">>, <<"MetarLayer", "messages">>}

(* Files that are read when the image is made; the name is hashed *)
UnhashedFiles ==
    {<<"Product", "svg_tmpl_file">>, <<"Attributes", "parametric_file">>,
     <<"FeatureSet", "css_file">>, <<"WeatherObjectsLayer", "object_css_file">>}

(* Databases, which have no generation to hash *)
Unversioned == {"shapes", "places", "database"}

IsGap(field) ==
    field \in UnhashedSettings \cup UnhashedData \cup UnhashedFiles \/ field[2] \in Unversioned

AllGaps ==
    [p \in AllProducts |-> {s \in SettingsOf(p) : \E i \in DOMAIN s : IsGap(s[i])}] @@ <<>>

(* None of them is listed in vain. *)
ASSUME \A field \in UnhashedSettings \cup UnhashedData \cup UnhashedFiles :
          \E p \in AllProducts \ WithoutHash :
             \E s \in AllRead[p] \ AllHashed[p] : \E i \in DOMAIN s : s[i] = field

-----------------------------------------------------------------------------

(* Constants of the configuration are evaluated at every use, definitions  *)
(* without parameters once: so these are names of such definitions.        *)

MCProducts == AllProducts
MCSettings == AllSettings
MCHashed == AllHashed
MCRead == AllRead
MCUncached == WithoutHash
MCGaps == AllGaps

-----------------------------------------------------------------------------

inlineStyles == << <<"Product", "defs">>, <<"Defs", "csss">> >>

(* A style that the request gives as defs.css is in the image that answers *)
(* it: it "overrides the file-based CSS" (docs/examples/dali.md:2059).      *)
InlineStylesOverride == inlineStyles \notin Wrong

=============================================================================
