--------------------------- MODULE ProductFields ---------------------------
(***************************************************************************)
(* What the parts of a product depend on, function by function.            *)
(*                                                                         *)
(* A product, its views, its layers and the objects in them are made from  *)
(* JSON and from the parameters of the request by init(); hash_value()     *)
(* names the product, and so the image that is cached; and generate()      *)
(* makes the image.  Here each of these functions stands for the set of    *)
(* settings it handles: what init sets, what hash_value combines, what     *)
(* generate and the functions it calls read.  A set also names the data    *)
(* that a function looks at:                                               *)
(*                                                                         *)
(*   querydata, griddata   the newest generation of the layer's producer   *)
(*   other_griddata        that of producers a grid parameter names        *)
(*   observations, shapes, places, database, osmdata, messages             *)
(*   x_file                the content of the file that setting x names    *)
(*                                                                         *)
(* source tells where a layer has its data from; an observation is of the  *)
(* last five minutes or old.  contour_threads, the logging of              *)
(* IsolineFilter and the animation effects of a layer are left out: they   *)
(* leave a cached image as it is.  So is tz, which is used up when init    *)
(* reads the time.                                                         *)
(***************************************************************************)

Sources == {"querydata", "grid", "observation", "old_observation"}

isObservation(source) == source \in {"observation", "old_observation"}

-----------------------------------------------------------------------------
(* Properties: what a product, its views and its layers inherit *)

Properties_init ==
    {"language", "origintime", "timestep", "time", "time_offset", "interval_start",
     "interval_end", "xmargin", "ymargin", "clip", "paraminfo", "projection"}

Properties_getValidTime == {"time", "time_offset"}

Properties_getValidTimePeriod == Properties_getValidTime \cup {"interval_start", "interval_end"}

Properties_getProducerHash(source) == IF source = "grid" THEN {"griddata"} ELSE {}

Properties_countParameterHash(source) == IF source = "grid" THEN {"other_griddata"} ELSE {}

Properties_hash_value(source) ==
    {"language", "paraminfo", "origintime", "time", "time_offset", "interval_start",
     "interval_end", "xmargin", "ymargin", "clip", "projection"}
        \cup Properties_getProducerHash(source)

ParameterInfo_hash_value ==
    {"parameter", "source", "producer", "forecastType", "forecastNumber", "geometryId",
     "levelId", "level", "pressure", "elevation_unit"}

(* A geoid or a place sets the centre, and that it is in degrees. *)
Projection_init ==
    {"crs", "bboxcrs", "size", "xsize", "ysize", "x1", "y1", "x2", "y2", "cx", "cy",
     "resolution", "latlon_center"}

Projection_update ==
    {"crs", "x1", "y1", "x2", "y2", "cx", "cy", "resolution", "bboxcrs", "size", "xsize",
     "ysize"}

Projection_prepareCRS ==
    {"crs", "xsize", "ysize", "size", "x1", "y1", "x2", "y2", "cx", "cy", "resolution",
     "bboxcrs", "latlon_center"}

Projection_hash_value ==
    {"crs", "size", "xsize", "ysize", "x1", "y1", "x2", "y2", "cx", "cy", "resolution",
     "bboxcrs"}

-----------------------------------------------------------------------------
(* Attributes, and the files they refer to: iri_file for url(#name), and   *)
(* parametric_file for url(#name?parameters), whose name getLocalIri takes *)
(* with its parameters, so that no file is found for it.                   *)

Attributes_init == {"attributes"}

Attributes_generate == {"attributes"}

Attributes_getLocalIri == {"iri_file"}

Attributes_getLocalIriAndParameters == {"iri_file", "parametric_file"}

Attributes_hash_value == {"attributes"} \cup Attributes_getLocalIri

State_addAttributes == Attributes_generate \cup Attributes_getLocalIriAndParameters

AttributeSelection_init == {"value", "lolimit", "hilimit", "symbol", "attributes", "translations"}

AttributeSelection_matches == {"value", "lolimit", "hilimit"}

(* hash_symbol is of the name and of the file, or of the inline definition. *)
AttributeSelection_hash_value ==
    {"value", "lolimit", "hilimit", "symbol", "symbol_file", "attributes"}

Text_init == {"translations", "attributes"}

Text_translate == {"translations"}

Text_hash_value == {"attributes", "translations"}

Title_init == {"qid", "dx", "dy", "text", "attributes"}

Title_translate == {"text"}

Title_hash_value == {"qid", "dx", "dy", "attributes", "text"}

(* The locale goes into the formatter. *)
Label_init ==
    {"dx", "dy", "unit_conversion", "multiplier", "offset", "missing", "locale", "precision",
     "multiple", "rounding", "prefix", "suffix", "plusprefix", "minusprefix", "orientation",
     "padding_char", "padding_length"}

Label_print ==
    {"missing", "multiplier", "offset", "rounding", "multiple", "plusprefix", "minusprefix",
     "locale", "precision", "prefix", "suffix", "padding_length", "padding_char"}

Label_hash_value ==
    {"dx", "dy", "orientation", "unit_conversion", "multiplier", "offset", "missing",
     "precision", "multiple", "rounding", "prefix", "suffix", "plusprefix", "minusprefix",
     "padding_char", "padding_length"}

PointValueOptions_init == {"mindistance", "rendering_order", "priority", "priorities"}

prioritize == {"priorities", "priority", "mindistance", "rendering_order"}

PointValueOptions_hash_value == {"mindistance", "priority", "priorities", "rendering_order"}

-----------------------------------------------------------------------------
(* Places and areas *)

Location_init == {"longitude", "latitude", "dx", "dy"}

Location_hash_value == {"longitude", "latitude", "dx", "dy"}

Locations_init == {"locations"}

Locations_hash_value == {"locations"}

Station_init ==
    {"fmisid", "lpnn", "wmo", "geoid", "longitude", "latitude", "symbol", "attributes", "title",
     "dx", "dy"}

Station_hash_value ==
    {"fmisid", "lpnn", "wmo", "geoid", "longitude", "latitude", "symbol", "symbol_file",
     "attributes", "title", "dx", "dy"}

Stations_init == {"stations"}

Stations_hash_value == {"stations"}

(* The options of a map are settings of their own here. *)
Map_init ==
    {"lines", "pgname", "schema", "table", "where", "mindistance", "minarea",
     "amalgamation_length", "amalgamation_area", "amalgamation_mainland_area",
     "amalgamation_mainland_amalgamate", "simplifier", "tolerance"}

Map_hash_value ==
    {"lines", "pgname", "schema", "table", "where", "minarea", "mindistance",
     "amalgamation_length", "amalgamation_area", "amalgamation_mainland_area",
     "amalgamation_mainland_amalgamate", "simplifier", "tolerance"}

MapStyles_init == {"field", "parameter", "data_attributes", "features", "feature_attributes"}

MapStyles_hash_value == {"field", "parameter", "features", "feature_attributes", "data_attributes"}

Intersection_init ==
    {"lolimit", "hilimit", "value", "level", "producer", "parameter", "interpolation", "smoother",
     "unit_conversion", "multiplier", "offset"}

(* The isoband from the grid engine, of the data of the layer unless the   *)
(* parameter names another producer                                        *)
Intersection_init_grid ==
    {"parameter", "hilimit", "lolimit", "smoother", "interpolation", "offset", "other_griddata"}

(* The isoband from querydata, none for observations *)
Intersection_init_querydata(source) ==
    IF isObservation(source) THEN {"parameter"}
    ELSE {"parameter", "producer", "level", "lolimit", "hilimit", "unit_conversion", "multiplier",
          "offset", "smoother", "interpolation", "querydata"}

Intersection_intersect == {"parameter"}

Intersection_inside == {"parameter"}

(* The producer of the layer has its data hashed by the layer: querydata   *)
(* here is of the intersection's own producer.                             *)
Intersection_hash_value ==
    {"querydata", "lolimit", "hilimit", "value", "level", "producer", "parameter",
     "interpolation", "unit_conversion", "multiplier", "offset"}

Intersections_init == {"intersections"}

Intersections_intersect == {"intersections"}

(* By the values at a point, which were read from the same data *)
Intersections_inside == {"intersections"}

Intersections_inside_values == {"parameter", "multiplier", "offset", "value", "lolimit", "hilimit"}

Intersections_hash_value == {"intersections"}

-----------------------------------------------------------------------------
(* Grids and curves *)

Smoother_init ==
    {"size", "degree", "method", "radius", "passes", "boundary", "morphology", "preserve_missing"}

(* trax_options has all of the settings but size and degree. *)
Smoother_hash_value ==
    {"size", "degree", "method", "radius", "passes", "boundary", "morphology", "preserve_missing"}

Sampling_init == {"maxresolution", "minresolution", "resolution", "relativeresolution"}

Sampling_getResolution == {"resolution", "relativeresolution", "minresolution", "maxresolution"}

Sampling_hash_value == {"maxresolution", "minresolution", "resolution", "relativeresolution"}

(* The first five are the geometry smoother's. *)
IsolineFilter_init ==
    {"type", "radius", "iterations", "lambda", "mu", "bezierAccuracy", "bezierMaxDepth",
     "validate", "validateTries", "validateBisect"}

IsolineFilter_bbox == {"radius"}

IsolineFilter_apply ==
    {"type", "radius", "iterations", "lambda", "mu", "validate", "validateTries",
     "validateBisect", "bezierAccuracy"}

IsolineFilter_fitWithCache == {"bezierAccuracy", "bezierMaxDepth"}

(* Whether to validate is told by the tries being hashed. *)
IsolineFilter_hash_value ==
    {"type", "radius", "iterations", "lambda", "mu", "bezierAccuracy", "bezierMaxDepth",
     "validate", "validateTries", "validateBisect"}

Heatmap_init == {"resolution", "radius", "kernel", "deviation"}

Heatmap_getStamp == {"kernel", "deviation"}

Heatmap_hash_value == {"resolution", "radius", "kernel", "deviation"}

(* A value is both limits. *)
Isoband_init == {"qid", "lolimit", "hilimit", "attributes", "label"}

Isoband_getQid == {"qid"}

Isoband_hash_value == {"qid", "lolimit", "hilimit", "attributes", "label"}

Isoline_init == {"qid", "value", "attributes", "label"}

Isoline_getQid == {"qid"}

Isoline_hash_value == {"qid", "value", "attributes", "label"}

-----------------------------------------------------------------------------
(* Other objects in layers *)

Connector_init == {"startoffset", "endoffset", "attributes"}

Connector_hash_value == {"startoffset", "endoffset", "attributes"}

WindRose_init ==
    {"radius", "minpercentage", "sectors", "symbol", "parameter", "attributes", "connector",
     "limits"}

WindRose_hash_value ==
    {"minpercentage", "radius", "sectors", "symbol", "symbol_file", "attributes", "connector",
     "parameter", "limits"}

Observation_init == {"parameter", "label", "attributes"}

Observation_hash_value == {"parameter", "label", "attributes"}

Observations_init == {"observations"}

Observations_hash_value == {"observations"}

Circle_init == {"radius", "attributes"}

Circle_hash_value == {"radius", "attributes"}

CircleLabels_init == {"layout", "prefix", "suffix", "dx", "dy", "attributes", "textattributes"}

CircleLabels_format == {"prefix", "suffix"}

CircleLabels_hash_value ==
    {"layout", "prefix", "suffix", "dx", "dy", "attributes", "textattributes"}

LegendLabels_init == {"type", "format", "dx", "dy", "separator", "attributes", "conversions"}

LegendLabels_hash_value ==
    {"type", "format", "dx", "dy", "separator", "conversions", "attributes"}

LegendSymbols_init == {"css", "symbol", "start", "end", "missing", "attributes"}

LegendSymbols_hash_value ==
    {"css", "css_file", "symbol", "symbol_file", "start", "start_file", "end", "end_file",
     "missing", "missing_file", "attributes"}

PostGISLayerFilter_init == {"where", "attributes", "text_attributes"}

PostGISLayerFilter_hash_value == {"where", "attributes"}

-----------------------------------------------------------------------------
(* The product *)

Png_init == {"quality", "errorfactor", "maxcolors", "truecolor"}

Png_hash_value == {"quality", "errorfactor", "maxcolors", "truecolor"}

Webp_init == {"level", "frames", "frame_duration", "loop", "accumulate"}

Webp_hash_value == {"level", "frames", "frame_duration", "loop", "accumulate"}

Styles_init == {"styles"}

Styles_generate == {"styles"}

Styles_hash_value == {"styles"}

(* Symbols, filters, markers, patterns and gradients become known to the   *)
(* State.  A symbol is hashed by whoever uses it; the rest are not used:   *)
(* State::addAttributes asks the plugin for the files.                     *)
Defs_init == {"qid", "styles", "layers", "csss"}

Defs_generate == {"styles", "layers"}

Defs_hash_value == {"qid", "styles", "layers"}

Layers_init == {"layers"}

(* optimizesize is of the request. *)
Layers_generate == {"layers", "optimizesize"}

Layers_hash_value == {"layers"}

View_init == Properties_init \cup {"qid", "attributes", "layers"}

View_generate == {"attributes", "optimizesize", "layers"}

View_hash_value(source) == Properties_hash_value(source) \cup {"qid", "attributes", "layers"}

Views_generate == {"views"}

Views_hash_value == {"views"}

Product_init ==
    Properties_init \cup
    {"svg_tmpl", "type", "width", "height", "title", "defs", "attributes", "views", "png", "webp"}

Product_generate ==
    {"svg_tmpl", "width", "height", "title", "language", "defs", "attributes", "views"}

Product_generateGeoTiff == {"views"}

Product_generateMVT == {"views", "projection"}

Product_generateDataTile == {"views"}

Product_hash_value ==
    {"svg_tmpl", "type", "width", "height", "title", "defs", "attributes", "views", "png", "webp"}

-----------------------------------------------------------------------------
(* What all layers share.  The images of a layer that is not valid for the *)
(* resolution or the type of image lack it.                                *)

(* The type is not here: it tells which class of layers this is. *)
Layer_init ==
    Properties_init \cup
    {"qid", "minresolution", "maxresolution", "enable", "disable", "css", "attributes", "layers",
     "multiplier", "offset", "unit_conversion", "maxdistance_km", "visible"}

Layer_validResolution == {"minresolution", "maxresolution", "projection"}

Layer_validType == {"disable", "enable"}

Layer_validLayer == Layer_validResolution \cup Layer_validType

Layer_getModel(source) ==
    IF source = "querydata"
    THEN {"paraminfo", "origintime", "querydata"} \cup Properties_getValidTimePeriod
    ELSE {}

Layer_validateGridOrigintime(source) ==
    IF source = "grid" THEN {"origintime", "paraminfo", "griddata"} ELSE {}

Layer_addClipRect == {"clip", "attributes"}

Layer_getClipBox == {"xmargin", "ymargin"}

Layer_getClipBoundingBox == Layer_getClipBox \cup {"projection"}

(* hash_css is of the style sheet itself, and so tells what the name does. *)
Layer_hash_value(source) ==
    Properties_hash_value(source) \cup
    {"qid", "minresolution", "maxresolution", "enable", "disable", "maxdistance_km",
     "unit_conversion", "multiplier", "offset", "css", "css_file", "attributes", "layers",
     "visible"}

(* Product::hash_value has the name of the template only. *)
Plugin_getTemplate == {"svg_tmpl", "svg_tmpl_file"}

Plugin_getStyle == {"css", "css_file"}

Plugin_getSymbol == {"symbol", "symbol_file"}

-----------------------------------------------------------------------------
(* What layers read of their data *)

gridDataGeoTiff == {"origintime", "paraminfo", "projection", "griddata", "other_griddata"}
                       \cup Properties_getValidTime

gridDataTile == gridDataGeoTiff

ObservationReader_read_flash_observations ==
    {"paraminfo", "positions", "observations"} \cup Layer_getClipBoundingBox

ObservationReader_read_all_observations ==
    {"paraminfo", "positions", "maxdistance_km", "observations"} \cup Layer_getClipBoundingBox

ObservationReader_read_station_observations ==
    {"paraminfo", "positions", "maxdistance_km", "observations"} \cup Layer_getClipBox

ObservationReader_read_latlon_observations ==
    {"paraminfo", "positions", "maxdistance_km", "observations"} \cup Layer_getClipBox

ObservationReader_read ==
    ObservationReader_read_flash_observations \cup ObservationReader_read_all_observations
        \cup ObservationReader_read_station_observations
        \cup ObservationReader_read_latlon_observations \cup Properties_getValidTimePeriod

=============================================================================
