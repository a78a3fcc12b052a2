--------------------------- MODULE MapLayerFields ---------------------------
(***************************************************************************)
(* The layers that draw maps, shapes, texts, legends and frames, function  *)
(* by function: see ProductFields for what the sets are.                   *)
(***************************************************************************)

EXTENDS ProductFields

-----------------------------------------------------------------------------
(* MapLayer: a map, or its features coloured by a parameter *)

MapLayer_init == {"precision", "map", "styles"}

MapLayer_generate_full_map ==
    {"projection", "map", "css", "qid", "attributes", "precision", "shapes"}
        \cup Layer_getClipBox \cup Plugin_getStyle \cup Layer_addClipRect

MapLayer_generate_styled_map(source) ==
    {"paraminfo", "styles", "projection", "map", "css", "qid", "attributes", "precision", "shapes"}
        \cup Layer_getModel(source) \cup Properties_getValidTime \cup Layer_getClipBox
        \cup Plugin_getStyle \cup Layer_addClipRect

(* A map is not drawn from the grid engine. *)
MapLayer_generate(source) ==
    Layer_validLayer \cup {"projection", "styles"} \cup
    (IF source = "grid" THEN {}
     ELSE Layer_getModel(source) \cup MapLayer_generate_full_map
              \cup MapLayer_generate_styled_map(source))

MapLayer_addMVTLayer ==
    {"projection", "map", "qid", "styles", "shapes"} \cup Layer_validLayer \cup Layer_getClipBox

MapLayer_hash_value(source) ==
    {"map", "precision", "styles"} \cup (IF source = "querydata" THEN {"querydata"} ELSE {})

-----------------------------------------------------------------------------
(* The layers of a PostGIS table *)

(* The condition on the time is made from the valid time. *)
PostGISLayerBase_init ==
    {"pgname", "schema", "table", "precision", "time_column", "lines", "filters"}

PostGISLayerBase_getShape == {"database"}

PostGISLayerBase_getFeatures == {"database"}

PostGISLayerBase_hash_value ==
    {"pgname", "schema", "table", "precision", "time_column", "filters"}
        \cup Properties_getValidTime

PostGISLayer_generate ==
    {"projection", "pgname", "schema", "table", "time_column", "filters", "lines", "qid", "css",
     "attributes", "precision"}
        \cup Properties_getValidTime \cup Layer_validLayer \cup Layer_getClipBox
        \cup Layer_addClipRect \cup Plugin_getStyle \cup PostGISLayerBase_getShape

PostGISLayer_hash_value == PostGISLayerBase_hash_value

(* The remaining settings are parameters, by name. *)
IceMapLayer_init == PostGISLayerBase_init \cup {"itsParameters"}

IceMapLayer_getParameterValue == {"itsParameters"}

IceMapLayer_handleSymbol == {"itsParameters", "filters", "projection"}

IceMapLayer_handleTextField == {"itsParameters", "filters", "language"}

IceMapLayer_handleNamedLocation == {"itsParameters", "filters", "projection", "precision"}

IceMapLayer_handleLabel == {"itsParameters", "filters", "projection"}

IceMapLayer_handleMeanTemperature ==
    {"itsParameters", "filters", "projection"} \cup Properties_getValidTime

IceMapLayer_handleTrafficRestrictions == {"itsParameters", "filters"}

IceMapLayer_handleIceEgg == {"itsParameters", "filters"}

IceMapLayer_addLocationName == {"itsParameters", "filters"}

IceMapLayer_handleGeometry ==
    {"precision", "qid", "css", "attributes", "filters", "projection"} \cup Layer_getClipBox

IceMapLayer_getAttributeColumns == {"itsParameters"} \cup Properties_getValidTime

IceMapLayer_handleResultItem ==
    IceMapLayer_handleSymbol \cup IceMapLayer_handleTextField \cup IceMapLayer_handleNamedLocation
        \cup IceMapLayer_handleLabel \cup IceMapLayer_handleMeanTemperature
        \cup IceMapLayer_handleTrafficRestrictions \cup IceMapLayer_handleIceEgg
        \cup IceMapLayer_handleGeometry \cup IceMapLayer_addLocationName

IceMapLayer_generate ==
    {"projection", "css", "pgname", "schema", "table", "time_column", "filters", "attributes",
     "itsParameters", "lines", "qid", "precision"}
        \cup Layer_validLayer \cup Plugin_getStyle \cup Layer_addClipRect
        \cup IceMapLayer_getAttributeColumns \cup PostGISLayerBase_getFeatures
        \cup IceMapLayer_handleResultItem

IceMapLayer_hash_value == PostGISLayerBase_hash_value \cup {"itsParameters"}

-----------------------------------------------------------------------------
(* OSMLayer *)

(* What init reads of one of the feature_sets *)
OSMLayer_FeatureSet ==
    {"pgname", "schema", "table", "where", "minarea", "mindistance", "lines", "labels",
     "fieldnames", "css", "mvt_layer_name", "attributes"}

OSMLayer_FeatureSet_hash_value ==
    {"pgname", "schema", "table", "where", "minarea", "mindistance", "lines", "labels",
     "mvt_layer_name", "css"}

OSMLayer_init == {"precision", "backend", "source", "timestamp_file", "feature_sets"}

(* The time stamp stands for the data; the one of a database is a file that *)
(* whoever imports the data touches.                                        *)
OSMLayer_getDataTimestamp == {"backend", "source", "osmdata", "timestamp_file"}

OSMLayer_generate ==
    {"projection", "attributes", "feature_sets", "qid", "precision", "database"}
        \cup Layer_validLayer \cup Layer_getClipBox

OSMLayer_addMVTLayer ==
    {"backend", "projection", "feature_sets", "database"} \cup Layer_validLayer
        \cup Layer_getClipBox

OSMLayer_getRawMVTTile == {"backend", "source", "osmdata"}

(* The tile's number tells the projection. *)
OSMLayer_getRawMVTBytes == {"projection"} \cup OSMLayer_getRawMVTTile

OSMLayer_hash_value ==
    {"backend", "source", "precision", "timestamp_file", "feature_sets"}
        \cup OSMLayer_getDataTimestamp

-----------------------------------------------------------------------------
(* Layers of one object *)

WKTLayer_init == {"wkt", "resolution", "relativeresolution", "precision"}

WKTLayer_generate(source) ==
    {"wkt", "resolution", "relativeresolution", "projection", "css", "qid", "attributes",
     "precision"}
        \cup Layer_validLayer \cup Layer_getModel(source) \cup Layer_getClipBox
        \cup Layer_addClipRect \cup Plugin_getStyle

WKTLayer_hash_value == {"wkt", "resolution", "relativeresolution", "precision"}

TagLayer_init == {"tag", "cdata"}

(* The attributes x and y, or longitude and latitude, are rewritten. *)
TagLayer_generate(source) ==
    {"tag", "projection", "attributes", "layers", "cdata", "language"}
        \cup Layer_validLayer \cup Layer_getModel(source) \cup Plugin_getStyle

TagLayer_hash_value == {"tag", "cdata"}

TranslationLayer_init == {"tag", "translations"}

TranslationLayer_generate ==
    {"tag", "language", "translations", "attributes"} \cup Layer_validLayer \cup Plugin_getStyle

TranslationLayer_hash_value == {"tag", "translations"}

(* A NullLayer draws nothing. *)
NullLayer_generate == {}

BackgroundLayer_generate(source) ==
    {"projection", "attributes"} \cup Layer_validLayer \cup Layer_getModel(source)
        \cup Plugin_getStyle

(* The compression is kept for nothing. *)
GroupLayer_init == {"compression"}

GroupLayer_generate == {"attributes", "layers"} \cup Layer_validLayer \cup Plugin_getStyle

GroupLayer_hash_value == {"compression"}

-----------------------------------------------------------------------------
(* TimeLayer *)

TimeLayer_init ==
    {"timezone", "prefix", "suffix", "timestamp", "formatter", "format", "x", "y", "longitude",
     "latitude", "now"}

TimeLayer_generate_gridEngine ==
    {"projection", "paraminfo", "origintime", "css", "attributes", "x", "y", "longitude",
     "latitude", "timezone", "timestamp", "format", "prefix", "suffix", "formatter", "now",
     "interval_start", "interval_end", "griddata"}
        \cup Properties_getValidTime \cup Layer_validLayer \cup Plugin_getStyle

TimeLayer_generate_qEngine(source) ==
    {"projection", "paraminfo", "origintime", "css", "attributes", "x", "y", "longitude",
     "latitude", "timezone", "timestamp", "format", "prefix", "suffix", "formatter", "now",
     "interval_start", "interval_end"}
        \cup Properties_getValidTime \cup Layer_validLayer \cup Plugin_getStyle
        \cup Layer_getModel(source)

TimeLayer_generate(source) ==
    IF source = "grid" THEN TimeLayer_generate_gridEngine ELSE TimeLayer_generate_qEngine(source)

TimeLayer_hash_value(source) ==
    {"timezone", "prefix", "suffix", "timestamp", "formatter", "format", "x", "y", "longitude",
     "latitude", "now"}
        \cup (IF source # "grid" THEN {"querydata"} ELSE {})

-----------------------------------------------------------------------------
(* LegendLayer *)

LegendLayer_init ==
    {"x", "y", "dx", "dy", "symbols", "symbol_vector", "labels", "isobands", "isolines"}

apply_text_conversions == {"labels"}

(* The text of an isoband or of an isoline, or the one it is given *)
legend_text == {"isobands", "isolines", "labels", "language"}

(* The translation of a symbol is one of the AttributeSelection. *)
nonconverted_symbol_text == {"symbol_vector", "language"}

LegendLayer_generate_from_symbol_vector ==
    {"symbol_vector", "labels", "x", "y", "dx", "dy"}
        \cup nonconverted_symbol_text \cup apply_text_conversions

LegendLayer_generate ==
    {"x", "y", "dx", "dy", "symbols", "labels", "isobands", "isolines", "attributes", "layers",
     "language"}
        \cup Layer_validLayer \cup Plugin_getStyle \cup legend_text \cup apply_text_conversions
        \cup LegendLayer_generate_from_symbol_vector

LegendLayer_hash_value ==
    {"x", "y", "dx", "dy", "symbols", "symbol_vector", "labels", "isobands", "isolines"}

-----------------------------------------------------------------------------
(* FrameLayer *)

(* What is read of scale, with the tics for the steps there are *)
FrameLayer_init_scale ==
    {"smallTic", "intermediateTic", "longTic", "ticPosition", "labelStep", "labelPosition"}

FrameLayer_init ==
    {"itsPrecision", "itsPattern", "itsScaleAttributes", "itsInnerBorder", "itsOuterBorder",
     "itsScale"}

(* The geometry that init makes of the borders is drawn. *)
FrameLayer_generate ==
    {"projection", "attributes", "qid", "itsInnerBorder", "itsOuterBorder", "itsPrecision",
     "itsPattern", "itsScale", "itsScaleAttributes"}

FrameLayer_addScaleNumber == {"itsScaleAttributes"}

FrameLayer_addScale ==
    {"itsScale", "itsInnerBorder", "itsScaleAttributes", "projection"}

FrameDimension_hash_value ==
    {"bottomLatitude", "leftLongitude", "topLatitude", "rightLongitude"}

TicInfo_hash_value == {"step", "length"}

(* The missing tics are skipped, so that one small tic is hashed as one    *)
(* long tic.                                                               *)
FrameScale_hash_value ==
    {"dimension", "smallTic", "intermediateTic", "longTic", "ticPosition", "labelStep",
     "labelPosition"}

FrameLayer_hash_value ==
    {"itsPrecision", "itsInnerBorder", "itsOuterBorder", "itsScale", "itsScaleAttributes"}

-----------------------------------------------------------------------------
(* GraticuleLayer *)

GraticuleLayer_init == {"precision", "mask", "mask_id", "graticules"}

(* The settings of one graticule; those of its labels are a part of it. *)
remove_graticule == {"layout", "step", "length", "except", "attributes", "labels"}

remove_graticule_labels ==
    {"layout", "step", "orientation", "degree_sign", "minus_sign", "dx", "dy", "attributes",
     "textattributes"}

generate_lines == {"layout", "step", "except", "length", "labels"}

generate_labels == {"labels"}

GraticuleLayer_generate(source) ==
    {"projection", "graticules", "css", "qid", "attributes", "precision", "mask_id"}
        \cup Layer_getModel(source) \cup Layer_getClipBox \cup Layer_addClipRect
        \cup Plugin_getStyle

GraticuleLayer_hash_value == {"graticules", "mask", "mask_id", "precision"}

(* What of a graticule, and of its labels, is in it *)
GraticuleLayer_hash_value_graticule ==
    {"layout", "step", "except", "length", "attributes", "labels"}

GraticuleLayer_hash_value_labels ==
    {"layout", "step", "orientation", "degree_sign", "minus_sign", "dx", "dy", "attributes",
     "textattributes"}

-----------------------------------------------------------------------------
(* Weather fronts and objects *)

(* A style of each type of front, and the fronts themselves *)
WeatherFrontsLayer_init == {"itsStyles", "itsSourceType", "itsSource"}

(* What is read of a style *)
parseStyle == {"line_css", "glyph_css", "glyph1", "glyph2", "font_size", "spacing"}

WeatherFrontsLayer_renderFrontLine == {"itsStyles", "qid"}

WeatherFrontsLayer_generate ==
    {"projection", "itsSource", "qid"} \cup Properties_getValidTime \cup Plugin_getStyle
        \cup WeatherFrontsLayer_renderFrontLine

(* It adds nothing to the hash of any layer. *)
WeatherFrontsLayer_hash_value == {}

WeatherObjectsLayer_init == {"objects"}

(* One of the objects; object_css is the name of its own style sheet. *)
WeatherObjectsLayer_parseObject ==
    {"kind", "css_class", "object_css", "u", "v", "producer", "level", "smoothing_passes",
     "max_points", "max_lines"}

WeatherObjectsLayer_resolveQ == {"objects", "querydata"}

(* The level is not used. *)
WeatherObjectsLayer_runLineDetector == {"objects"} \cup WeatherObjectsLayer_resolveQ

WeatherObjectsLayer_generate ==
    {"projection", "qid", "objects", "css", "object_css_file"} \cup Properties_getValidTime
        \cup WeatherObjectsLayer_runLineDetector

WeatherObjectsLayer_hash_value == {"objects"}

(* What of an object is in it *)
WeatherObjectsLayer_hash_value_object ==
    {"kind", "u", "v", "producer", "level", "smoothing_passes"}

=============================================================================
