-------------------------- MODULE ProductSettings --------------------------
(***************************************************************************)
(* The settings of whole products: which of them the hash of a product     *)
(* depends on and which its images do, from what the functions of each     *)
(* class set, hash and read (ProductFields and the modules of the layers). *)
(*                                                                         *)
(* A setting is named by its path from the product, as in                  *)
(*                                                                         *)
(*   << <<"Product", "views">>, <<"Views", "views">>, <<"View", "layers">>,*)
(*      <<"Layers", "layers">>, <<"IsobandLayer", "smoother">>,            *)
(*      <<"Smoother", "size">> >>                                          *)
(*                                                                         *)
(* and is in the hash when every class on the path hashes its field.  A    *)
(* product has one view with one layer here, of any class: a layer neither *)
(* sets nor hashes anything of the layers beside it.                       *)
(***************************************************************************)

EXTENDS PointLayerFields, GridLayerFields, MapLayerFields, Sequences, FiniteSets, TLC

-----------------------------------------------------------------------------
(* The layers: what init sets beside the settings of every layer *)

LayerInit ==
    [ArrowLayer |-> ArrowLayer_init,
     BackgroundLayer |-> {},
     CircleLayer |-> CircleLayer_init,
     CloudCeilingLayer |-> CloudCeilingLayer_init,
     FinnishRoadObservationLayer |-> ObservationLayer_init,
     FrameLayer |-> FrameLayer_init,
     GraticuleLayer |-> GraticuleLayer_init,
     GridLayer |-> {},
     GroupLayer |-> GroupLayer_init,
     HovmoellerLayer |-> HovmoellerLayer_init,
     IceMapLayer |-> IceMapLayer_init,
     IsobandLayer |-> IsobandLayer_init,
     IsolabelLayer |-> IsolabelLayer_init,
     IsolineLayer |-> IsolineLayer_init,
     LegendLayer |-> LegendLayer_init,
     LocationLayer |-> LocationLayer_init,
     MapLayer |-> MapLayer_init,
     MetarLayer |-> MetarLayer_init,
     NullLayer |-> {},
     NumberLayer |-> NumberLayer_init,
     OSMLayer |-> OSMLayer_init,
     PostGISLayer |-> PostGISLayerBase_init,
     PresentWeatherObservationLayer |-> ObservationLayer_init,
     RasterLayer |-> RasterLayer_init,
     StreamLayer |-> StreamLayer_init,
     SymbolLayer |-> SymbolLayer_init,
     TagLayer |-> TagLayer_init,
     TimeLayer |-> TimeLayer_init,
     TranslationLayer |-> TranslationLayer_init,
     WKTLayer |-> WKTLayer_init,
     WeatherFrontsLayer |-> WeatherFrontsLayer_init,
     WeatherObjectsLayer |-> WeatherObjectsLayer_init,
     WindRoseLayer |-> WindRoseLayer_init]

LayerClasses == DOMAIN LayerInit

(* What hash_value combines beside the hash of every layer *)
LayerHash(source) ==
    [ArrowLayer |-> ArrowLayer_hash_value(source),
     BackgroundLayer |-> {},
     CircleLayer |-> CircleLayer_hash_value,
     CloudCeilingLayer |-> NumberLayer_hash_value(source),
     FinnishRoadObservationLayer |-> ObservationLayer_hash_value,
     FrameLayer |-> FrameLayer_hash_value,
     GraticuleLayer |-> GraticuleLayer_hash_value,
     GridLayer |-> {},
     GroupLayer |-> GroupLayer_hash_value,
     HovmoellerLayer |-> {},
     IceMapLayer |-> IceMapLayer_hash_value,
     IsobandLayer |-> IsobandLayer_hash_value(source),
     IsolabelLayer |-> IsolabelLayer_hash_value(source),
     IsolineLayer |-> IsolineLayer_hash_value(source),
     LegendLayer |-> LegendLayer_hash_value,
     LocationLayer |-> LocationLayer_hash_value,
     MapLayer |-> MapLayer_hash_value(source),
     MetarLayer |-> MetarLayer_hash_value,
     NullLayer |-> {},
     NumberLayer |-> NumberLayer_hash_value(source),
     OSMLayer |-> OSMLayer_hash_value,
     PostGISLayer |-> PostGISLayer_hash_value,
     PresentWeatherObservationLayer |-> ObservationLayer_hash_value,
     RasterLayer |-> RasterLayer_hash_value(source),
     StreamLayer |-> StreamLayer_hash_value(source),
     SymbolLayer |-> SymbolLayer_hash_value(source),
     TagLayer |-> TagLayer_hash_value,
     TimeLayer |-> TimeLayer_hash_value(source),
     TranslationLayer |-> TranslationLayer_hash_value,
     WKTLayer |-> WKTLayer_hash_value,
     WeatherFrontsLayer |-> WeatherFrontsLayer_hash_value,
     WeatherObjectsLayer |-> WeatherObjectsLayer_hash_value,
     WindRoseLayer |-> WindRoseLayer_hash_value]

(* What generate reads, for an image *)
LayerGenerate(source) ==
    [ArrowLayer |-> ArrowLayer_generate(source),
     BackgroundLayer |-> BackgroundLayer_generate(source),
     CircleLayer |-> CircleLayer_generate(source),
     CloudCeilingLayer |-> CloudCeilingLayer_generate,
     FinnishRoadObservationLayer |-> ObservationLayer_generate,
     FrameLayer |-> FrameLayer_generate,
     GraticuleLayer |-> GraticuleLayer_generate(source),
     GridLayer |-> GridLayer_generate(source),
     GroupLayer |-> GroupLayer_generate,
     HovmoellerLayer |-> HovmoellerLayer_generate(source),
     IceMapLayer |-> IceMapLayer_generate,
     IsobandLayer |-> IsobandLayer_generate(source),
     IsolabelLayer |-> IsolabelLayer_generate(source),
     IsolineLayer |-> IsolineLayer_generate(source),
     LegendLayer |-> LegendLayer_generate,
     LocationLayer |-> LocationLayer_generate(source),
     MapLayer |-> MapLayer_generate(source),
     MetarLayer |-> MetarLayer_generate,
     NullLayer |-> NullLayer_generate,
     NumberLayer |-> NumberLayer_generate(source),
     OSMLayer |-> OSMLayer_generate,
     PostGISLayer |-> PostGISLayer_generate,
     PresentWeatherObservationLayer |-> ObservationLayer_generate,
     RasterLayer |-> RasterLayer_generate(source),
     StreamLayer |-> StreamLayer_generate(source),
     SymbolLayer |-> SymbolLayer_generate(source),
     TagLayer |-> TagLayer_generate(source),
     TimeLayer |-> TimeLayer_generate(source),
     TranslationLayer |-> TranslationLayer_generate,
     WKTLayer |-> WKTLayer_generate(source),
     WeatherFrontsLayer |-> WeatherFrontsLayer_generate,
     WeatherObjectsLayer |-> WeatherObjectsLayer_generate,
     WindRoseLayer |-> WindRoseLayer_generate]

(* What addMVTLayer and getRawMVTBytes read, for a vector tile *)
LayerMVT(source) ==
    [ArrowLayer |-> ArrowLayer_addMVTLayer(source),
     CircleLayer |-> CircleLayer_addMVTLayer(source),
     CloudCeilingLayer |-> NumberLayer_addMVTLayer(source),
     IsobandLayer |-> IsobandLayer_addMVTLayer(source),
     IsolabelLayer |-> IsolineLayer_addMVTLayer(source),
     IsolineLayer |-> IsolineLayer_addMVTLayer(source),
     MapLayer |-> MapLayer_addMVTLayer,
     NumberLayer |-> NumberLayer_addMVTLayer(source),
     OSMLayer |-> OSMLayer_addMVTLayer \cup OSMLayer_getRawMVTBytes,
     SymbolLayer |-> SymbolLayer_addMVTLayer(source)]

(* What generateGeoTiff and generateDataTile read, both of the grid engine *)
LayerGeoTiff ==
    [ArrowLayer |-> ArrowLayer_generateGeoTiff,
     IsobandLayer |-> IsobandLayer_generateGeoTiff,
     IsolabelLayer |-> IsolineLayer_generateGeoTiff,
     IsolineLayer |-> IsolineLayer_generateGeoTiff,
     NumberLayer |-> NumberLayer_generateGeoTiff,
     RasterLayer |-> RasterLayer_generateGeoTiff,
     SymbolLayer |-> SymbolLayer_generateGeoTiff]

LayerDataTile ==
    [ArrowLayer |-> ArrowLayer_generateDataTile,
     IsobandLayer |-> IsobandLayer_generateDataTile,
     IsolabelLayer |-> IsolineLayer_generateDataTile,
     IsolineLayer |-> IsolineLayer_generateDataTile,
     NumberLayer |-> NumberLayer_generateDataTile,
     RasterLayer |-> RasterLayer_generateDataTile,
     SymbolLayer |-> SymbolLayer_generateDataTile]


-----------------------------------------------------------------------------
(* The objects in a product, its views and its layers: what they set, what *)
(* of it they hash, and what is read of them                               *)

ObjectInit ==
    [Attributes |-> Attributes_init,
     AttributeSelection |-> AttributeSelection_init,
     Circle |-> Circle_init,
     CircleLabels |-> CircleLabels_init,
     ColorPainter_ARGB |-> ColorPainter_ARGB_init,
     ColorPainter_border |-> ColorPainter_init \cup ColorPainter_border_initBorder,
     ColorPainter_rain |-> ColorPainter_init \cup ColorPainter_rain_initStream,
     ColorPainter_range |-> ColorPainter_init \cup ColorPainter_range_initRange,
     ColorPainter_shadow |-> ColorPainter_init \cup ColorPainter_shadow_initShadow,
     ColorPainter_stream |-> ColorPainter_init \cup ColorPainter_stream_initStream,
     Connector |-> Connector_init,
     Defs |-> Defs_init,
     FeatureSet |-> OSMLayer_FeatureSet,
     FrameDimension |-> FrameDimension_hash_value,
     FrameScale |-> FrameLayer_init_scale,
     FrontStyle |-> parseStyle,
     Graticule |-> remove_graticule,
     GraticuleLabels |-> remove_graticule_labels,
     Heatmap |-> Heatmap_init,
     Intersection |-> Intersection_init,
     Intersections |-> Intersections_init,
     Isoband |-> Isoband_init,
     Isoline |-> Isoline_init,
     IsolineFilter |-> IsolineFilter_init,
     Label |-> Label_init,
     LabelConfig |-> parseLabelConfig,
     LegendLabels |-> LegendLabels_init,
     LegendSymbols |-> LegendSymbols_init,
     Location |-> Location_init,
     Locations |-> Locations_init,
     Map |-> Map_init,
     MapStyles |-> MapStyles_init,
     Observation |-> Observation_init,
     Observations |-> Observations_init,
     ParameterInfo |-> ParameterInfo_hash_value,
     Png |-> Png_init,
     PointValueOptions |-> PointValueOptions_init,
     Positions |-> Positions_init,
     PostGISLayerFilter |-> PostGISLayerFilter_init,
     Projection |-> Projection_init,
     Sampling |-> Sampling_init,
     Smoother |-> Smoother_init,
     Station |-> Station_init,
     Stations |-> Stations_init,
     Styles |-> Styles_init,
     Text |-> Text_init,
     TicInfo |-> TicInfo_hash_value,
     Title |-> Title_init,
     WeatherObject |-> WeatherObjectsLayer_parseObject,
     Webp |-> Webp_init,
     WindRose |-> WindRose_init]

ObjectHash ==
    [Attributes |-> Attributes_hash_value,
     AttributeSelection |-> AttributeSelection_hash_value,
     Circle |-> Circle_hash_value,
     CircleLabels |-> CircleLabels_hash_value,
     ColorPainter_ARGB |-> ColorPainter_ARGB_hash_value,
     ColorPainter_border |-> ColorPainter_border_hash_value,
     ColorPainter_rain |-> ColorPainter_rain_hash_value,
     ColorPainter_range |-> ColorPainter_range_hash_value,
     ColorPainter_shadow |-> ColorPainter_shadow_hash_value,
     ColorPainter_stream |-> ColorPainter_stream_hash_value,
     Connector |-> Connector_hash_value,
     Defs |-> Defs_hash_value,
     FeatureSet |-> OSMLayer_FeatureSet_hash_value,
     FrameDimension |-> FrameDimension_hash_value,
     FrameScale |-> FrameScale_hash_value,
     FrontStyle |-> {},
     Graticule |-> GraticuleLayer_hash_value_graticule,
     GraticuleLabels |-> GraticuleLayer_hash_value_labels,
     Heatmap |-> Heatmap_hash_value,
     Intersection |-> Intersection_hash_value,
     Intersections |-> Intersections_hash_value,
     Isoband |-> Isoband_hash_value,
     Isoline |-> Isoline_hash_value,
     IsolineFilter |-> IsolineFilter_hash_value,
     Label |-> Label_hash_value,
     LabelConfig |-> hashLabelConfig,
     LegendLabels |-> LegendLabels_hash_value,
     LegendSymbols |-> LegendSymbols_hash_value,
     Location |-> Location_hash_value,
     Locations |-> Locations_hash_value,
     Map |-> Map_hash_value,
     MapStyles |-> MapStyles_hash_value,
     Observation |-> Observation_hash_value,
     Observations |-> Observations_hash_value,
     ParameterInfo |-> ParameterInfo_hash_value,
     Png |-> Png_hash_value,
     PointValueOptions |-> PointValueOptions_hash_value,
     Positions |-> Positions_hash_value,
     PostGISLayerFilter |-> PostGISLayerFilter_hash_value,
     Projection |-> Projection_hash_value,
     Sampling |-> Sampling_hash_value,
     Smoother |-> Smoother_hash_value,
     Station |-> Station_hash_value,
     Stations |-> Stations_hash_value,
     Styles |-> Styles_hash_value,
     Text |-> Text_hash_value,
     TicInfo |-> TicInfo_hash_value,
     Title |-> Title_hash_value,
     WeatherObject |-> WeatherObjectsLayer_hash_value_object,
     Webp |-> Webp_hash_value,
     WindRose |-> WindRose_hash_value]

(* Where it is not all that was set that is read, or more *)
ObjectRead(source) ==
    [Attributes |-> State_addAttributes,
     AttributeSelection |->
         AttributeSelection_matches \cup Plugin_getSymbol \cup {"attributes", "translations"},
     CircleLabels |-> CircleLabels_format \cup {"layout", "dx", "dy", "attributes", "textattributes"},
     ColorPainter_ARGB |-> ColorPainter_ARGB_setImageColors,
     ColorPainter_border |-> ColorPainter_border_setImageColors,
     ColorPainter_rain |-> ColorPainter_rain_setImageColors,
     ColorPainter_range |-> ColorPainter_range_setImageColors,
     ColorPainter_shadow |-> ColorPainter_shadow_setImageColors,
     ColorPainter_stream |->
         ColorPainter_stream_setImageColors \cup ColorPainter_stream_setImageColors_speed,
     Defs |-> Defs_generate \cup {"csss"},
     FeatureSet |-> OSMLayer_FeatureSet \cup {"css_file"},
     Graticule |-> generate_lines \cup generate_labels \cup {"attributes"},
     Heatmap |-> Heatmap_getStamp \cup {"resolution", "radius"},
     Intersection |->
         Intersection_intersect \cup Intersection_inside \cup Intersections_inside_values \cup
         (IF source = "grid" THEN Intersection_init_grid ELSE Intersection_init_querydata(source)),
     Intersections |-> Intersections_intersect \cup Intersections_inside,
     Isoband |-> Isoband_getQid \cup {"lolimit", "hilimit", "attributes", "label"},
     Isoline |-> Isoline_getQid \cup {"value", "attributes", "label"},
     IsolineFilter |-> IsolineFilter_bbox \cup IsolineFilter_apply \cup IsolineFilter_fitWithCache,
     Label |-> Label_print \cup {"dx", "dy", "orientation", "unit_conversion"},
     LegendSymbols |-> LegendSymbols_init \cup {"css_file", "symbol_file", "start_file", "end_file",
                                               "missing_file"},
     PointValueOptions |-> prioritize,
     Positions |-> IF source = "grid" THEN Positions_getPoints_grid \cup Positions_init_shapes
                   ELSE Positions_getPoints \cup Positions_init_shapes \cup Positions_inside_values,
     Projection |-> Projection_update \cup Projection_prepareCRS,
     Sampling |-> Sampling_getResolution,
     Styles |-> Styles_generate,
     Text |-> Text_translate \cup {"attributes"},
     Title |-> Title_translate \cup {"qid", "dx", "dy", "attributes"},
     WeatherObject |-> WeatherObjectsLayer_parseObject \ {"level"}]

ObjectClasses == DOMAIN ObjectInit

-----------------------------------------------------------------------------
(* All classes *)

Outputs == {"svg", "mvt", "geotiff", "datatile"}

(* A product by the class of its layer, where that has its data from, and  *)
(* what is asked of it                                                     *)
AllProducts ==
    [layer : LayerClasses, source : Sources, output : {"svg"}]
        \cup [layer : DOMAIN LayerMVT("grid"), source : Sources, output : {"mvt"}]
        \cup [layer : DOMAIN LayerGeoTiff, source : {"grid"}, output : {"geotiff"}]
        \cup [layer : DOMAIN LayerDataTile, source : {"grid"}, output : {"datatile"}]

Classes == {"Product", "Views", "View", "Layers"} \cup LayerClasses \cup ObjectClasses

Sets(c) ==
    CASE c = "Product" -> Product_init
      [] c = "Views" -> {"views"}
      [] c = "View" -> View_init
      [] c = "Layers" -> Layers_init
      [] c \in LayerClasses -> Layer_init \cup LayerInit[c]
      [] OTHER -> ObjectInit[c]

HashedBy(c, p) ==
    CASE c = "Product" -> Product_hash_value
      [] c = "Views" -> Views_hash_value
      [] c = "View" -> View_hash_value(p.source)
      [] c = "Layers" -> Layers_hash_value
      [] c \in LayerClasses -> Layer_hash_value(p.source) \cup LayerHash(p.source)[c]
      [] OTHER -> ObjectHash[c]

ReadForSvg(c, p) ==
    CASE c = "Product" -> Product_generate \cup Plugin_getTemplate
      [] c = "Views" -> Views_generate
      [] c = "View" -> View_generate
      [] c = "Layers" -> Layers_generate
      [] c \in LayerClasses -> LayerGenerate(p.source)[c]

ReadForData(c, p) ==
    CASE c = "Product" -> (CASE p.output = "mvt" -> Product_generateMVT
                             [] p.output = "geotiff" -> Product_generateGeoTiff
                             [] p.output = "datatile" -> Product_generateDataTile)
      [] c = "Views" -> {"views"}
      [] c \in {"View", "Layers"} -> {"layers"}
      [] c \in LayerClasses -> (CASE p.output = "mvt" -> LayerMVT(p.source)[c]
                                  [] p.output = "geotiff" -> LayerGeoTiff[c]
                                  [] p.output = "datatile" -> LayerDataTile[c])

ReadBy(c, p) ==
    IF c \in ObjectClasses
    THEN IF c \in DOMAIN ObjectRead(p.source) THEN ObjectRead(p.source)[c] ELSE ObjectInit[c]
    ELSE IF p.output = "svg" THEN ReadForSvg(c, p) ELSE ReadForData(c, p)

-----------------------------------------------------------------------------
(* The settings of a product, as paths *)

(* The classes of the objects a field holds, which are the same wherever   *)
(* the field is but for OwnObjects                                         *)
Objects ==
    [arrows |-> {"AttributeSelection"},
     attributes |-> {"Attributes"},
     circles |-> {"Circle"},
     connector |-> {"Connector"},
     data_attributes |-> {"AttributeSelection"},
     dataBorderPainter |-> {"ColorPainter_border"},
     dataPainter |-> {"ColorPainter_ARGB", "ColorPainter_border", "ColorPainter_rain",
                      "ColorPainter_range", "ColorPainter_shadow", "ColorPainter_stream"},
     dataShadowPainter |-> {"ColorPainter_shadow"},
     defs |-> {"Defs"},
     dimension |-> {"FrameDimension"},
     feature_attributes |-> {"Attributes"},
     feature_sets |-> {"FeatureSet"},
     filter |-> {"IsolineFilter"},
     filters |-> {"PostGISLayerFilter"},
     graticules |-> {"Graticule"},
     heatmap |-> {"Heatmap"},
     inside |-> {"Map"},
     insidemap |-> {"Map"},
     intermediateTic |-> {"TicInfo"},
     intersections |-> {"Intersections"},
     isobands |-> {"Isoband"},
     isolines |-> {"Isoline"},
     itsInnerBorder |-> {"FrameDimension"},
     itsOuterBorder |-> {"FrameDimension"},
     itsScale |-> {"FrameScale"},
     itsScaleAttributes |-> {"Attributes"},
     itsStyles |-> {"FrontStyle"},
     label |-> {"Label"},
     label_config |-> {"LabelConfig"},
     landBorderPainter |-> {"ColorPainter_border"},
     landPainter |-> {"ColorPainter_range"},
     limits |-> {"AttributeSelection"},
     locations |-> {"Locations"},
     longTic |-> {"TicInfo"},
     map |-> {"Map"},
     numbers |-> {"AttributeSelection"},
     objects |-> {"WeatherObject"},
     observation_list |-> {"Observations"},
     outside |-> {"Map"},
     outsidemap |-> {"Map"},
     paraminfo |-> {"ParameterInfo"},
     png |-> {"Png"},
     point_value_options |-> {"PointValueOptions"},
     positions |-> {"Positions"},
     projection |-> {"Projection"},
     sampling |-> {"Sampling"},
     seaPainter |-> {"ColorPainter_range"},
     smallTic |-> {"TicInfo"},
     smoother |-> {"Smoother"},
     stations |-> {"Stations"},
     styles |-> {"MapStyles"},
     symbol_vector |-> {"AttributeSelection"},
     symbols |-> {"AttributeSelection"},
     text |-> {"Text"},
     textattributes |-> {"Attributes"},
     title |-> {"Text"},
     views |-> {"Views"},
     webp |-> {"Webp"},
     windrose |-> {"WindRose"}]

OwnObjects ==
    [Attributes |-> [attributes |-> {}],
     CircleLayer |-> [labels |-> {"CircleLabels"}],
     Defs |-> [styles |-> {"Styles"}],
     Graticule |-> [labels |-> {"GraticuleLabels"}],
     Intersections |-> [intersections |-> {"Intersection"}],
     Isoband |-> [label |-> {"Text"}],
     Isoline |-> [label |-> {"Text"}],
     LegendLayer |-> [labels |-> {"LegendLabels"}, symbols |-> {"LegendSymbols"}],
     Locations |-> [locations |-> {"Location"}],
     Observations |-> [observations |-> {"Observation"}],
     Station |-> [title |-> {"Title"}],
     Stations |-> [stations |-> {"Station"}],
     Styles |-> [styles |-> {}],
     TagLayer |-> [cdata |-> {"Text"}],
     View |-> [layers |-> {"Layers"}],
     Views |-> [views |-> {"View"}]]

ObjectsOf(c, field, p) ==
    CASE c = "Layers" -> {p.layer}
      [] c \in DOMAIN OwnObjects /\ field \in DOMAIN OwnObjects[c] -> OwnObjects[c][field]
      [] OTHER -> IF field \in DOMAIN Objects THEN Objects[field] ELSE {}

(* The classes that a product may have objects of *)
ClassesOf(p) == (Classes \ LayerClasses) \cup {p.layer}

(* What each of them hashes and reads; @@ makes TLC evaluate it once. *)
HashedByClass(p) == [c \in ClassesOf(p) |-> HashedBy(c, p)] @@ <<>>

ReadByClass(p) == [c \in ClassesOf(p) |-> ReadBy(c, p)] @@ <<>>

(* The data a function looks at are fields as well. *)
Fields(p) ==
    LET hashed == HashedByClass(p)
        read == ReadByClass(p)
    IN [c \in ClassesOf(p) |-> (Sets(c) \cup hashed[c] \cup read[c]) \ {"bad_hash"}] @@ <<>>

(* The paths from each class to the settings below it *)
SettingsBelow(p) ==
    LET fields == Fields(p)
        below[c \in ClassesOf(p)] ==
            UNION {LET objects == ObjectsOf(c, field, p)
                       step == << <<c, field>> >>
                   IN IF objects = {} THEN {step}
                      ELSE {step \o rest : rest \in UNION {below[d] : d \in objects}} :
                   field \in fields[c]}
    IN below

SettingsOf(p) == SettingsBelow(p)["Product"]

(* The settings whose path the classes handle all the way *)
SettingsOn(p, handled) ==
    {s \in SettingsOf(p) : \A i \in DOMAIN s : s[i][2] \in handled[s[i][1]]}

HashedSettings(p) == SettingsOn(p, HashedByClass(p))

ReadSettings(p) == SettingsOn(p, ReadByClass(p))

(* A product with a layer that has no hash has none. *)
HasNoHash(p) == "bad_hash" \in LayerHash(p.source)[p.layer]

=============================================================================
