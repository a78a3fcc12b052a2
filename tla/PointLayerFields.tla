-------------------------- MODULE PointLayerFields --------------------------
(***************************************************************************)
(* The layers that draw at points, function by function: see ProductFields *)
(* for what the sets are.  "bad_hash" in the set of a hash_value says that *)
(* the function gives up, which keeps the image of the product out of the  *)
(* cache.                                                                  *)
(***************************************************************************)

EXTENDS ProductFields

-----------------------------------------------------------------------------
(* Positions: where the numbers, symbols and arrows are *)

(* A margin is both margins. *)
Positions_init ==
    {"layout", "x", "y", "dx", "dy", "ddx", "size", "step", "mindistance", "keyword", "locations",
     "stations", "directionoffset", "rotate", "direction", "u", "v", "outsidemap", "insidemap",
     "intersections", "xmargin", "ymargin"}

(* The shapes of the maps and the isobands of the intersections *)
Positions_init_shapes == {"insidemap", "outsidemap", "intersections", "shapes"}

Positions_insideShapes == {"insidemap", "outsidemap"}

Positions_inside == {"intersections"} \cup Positions_insideShapes

(* With the values of the intersections at the point *)
Positions_inside_values == {"intersections"} \cup Positions_insideShapes

(* The direction is one of the querydata of the layer, when there is one. *)
apply_direction_offsets == {"directionoffset", "rotate", "direction", "u", "v"}

Positions_getGridPoints ==
    {"x", "y", "dx", "dy", "ddx", "xmargin", "ymargin"}
        \cup Positions_inside \cup apply_direction_offsets

Positions_getDataPoints == {"dx", "dy"} \cup Positions_inside \cup apply_direction_offsets

Positions_getDataPoints_grid == {"dx", "dy"} \cup Positions_insideShapes

Positions_getGraticulePoints ==
    {"step", "size", "dx", "dy"} \cup Positions_inside \cup apply_direction_offsets

Positions_getGraticuleFillPoints ==
    {"size", "mindistance", "dx", "dy"} \cup Positions_inside \cup apply_direction_offsets

Positions_getKeywordPoints ==
    {"keyword", "dx", "dy", "places"} \cup Positions_inside \cup apply_direction_offsets

Positions_getLatLonPoints ==
    {"locations", "dx", "dy"} \cup Positions_inside \cup apply_direction_offsets

Positions_getStationPoints ==
    {"keyword", "stations", "dx", "dy", "places"} \cup Positions_inside
        \cup apply_direction_offsets

Positions_getPoints ==
    {"layout"} \cup Positions_getGridPoints \cup Positions_getDataPoints
        \cup Positions_getGraticulePoints \cup Positions_getGraticuleFillPoints
        \cup Positions_getKeywordPoints \cup Positions_getLatLonPoints
        \cup Positions_getStationPoints

Positions_getPoints_grid ==
    Positions_getPoints \cup Positions_getDataPoints_grid

Positions_hash_value ==
    {"layout", "x", "y", "dx", "dy", "ddx", "size", "step", "mindistance", "keyword", "locations",
     "stations", "directionoffset", "rotate", "direction", "u", "v", "outsidemap", "insidemap",
     "intersections", "xmargin", "ymargin"}

-----------------------------------------------------------------------------
(* ArrowLayer *)

ArrowLayer_init ==
    {"direction", "speed", "u", "v", "fixedspeed", "fixeddirection", "minrotationspeed", "symbol",
     "scale", "southflop", "northflop", "flip", "positions", "dx", "dy", "minvalues", "arrows",
     "point_value_options"}

ArrowLayer_build_grid_query ==
    {"origintime", "paraminfo", "projection", "griddata", "other_griddata"}
        \cup Properties_getValidTime

ArrowLayer_read_gridForecasts == {"direction", "speed", "u", "v", "positions"}

ArrowLayer_read_forecasts ==
    {"direction", "speed", "u", "v", "positions", "querydata"} \cup Layer_getClipBox

ArrowLayer_render_arrows ==
    {"speed", "u", "v", "fixedspeed", "fixeddirection", "minrotationspeed", "symbol", "scale",
     "southflop", "northflop", "flip", "dx", "dy", "arrows", "multiplier", "offset"}
        \cup Plugin_getSymbol

(* The minimum resolution and the like are not looked at in an image. *)
ArrowLayer_generate_gridEngine ==
    {"direction", "speed", "u", "v", "symbol", "arrows", "positions", "xmargin", "ymargin",
     "paraminfo", "projection", "attributes", "point_value_options", "minvalues"}
        \cup ArrowLayer_build_grid_query \cup Plugin_getStyle \cup Layer_addClipRect
        \cup ArrowLayer_read_gridForecasts \cup ArrowLayer_render_arrows

ArrowLayer_generate_qEngine(source) ==
    {"direction", "speed", "u", "v", "symbol", "arrows", "positions", "xmargin", "ymargin",
     "paraminfo", "projection", "attributes", "point_value_options", "minvalues"}
        \cup Layer_getModel(source) \cup Properties_getValidTimePeriod \cup Plugin_getStyle
        \cup Layer_addClipRect \cup ArrowLayer_render_arrows
        \cup (IF isObservation(source) THEN ObservationReader_read ELSE ArrowLayer_read_forecasts)

ArrowLayer_generate(source) ==
    IF source = "grid" THEN ArrowLayer_generate_gridEngine
    ELSE ArrowLayer_generate_qEngine(source)

ArrowLayer_generateGeoTiff ==
    {"direction", "speed", "u", "v", "multiplier", "offset"} \cup gridDataGeoTiff

ArrowLayer_generateDataTile ==
    {"direction", "speed", "u", "v", "multiplier", "offset"} \cup gridDataTile

ArrowLayer_addMVTLayer(source) ==
    IF source # "querydata" THEN Layer_validLayer
    ELSE {"direction", "speed", "u", "v", "symbol", "arrows", "qid", "positions", "xmargin",
          "ymargin", "paraminfo", "projection", "point_value_options"}
             \cup Layer_validLayer \cup Layer_getModel(source) \cup ArrowLayer_read_forecasts

ArrowLayer_hash_value(source) ==
    IF isObservation(source) THEN {"bad_hash"}
    ELSE {"direction", "speed", "u", "v", "fixedspeed", "fixeddirection", "minrotationspeed",
          "symbol", "symbol_file", "scale", "southflop", "northflop", "flip", "positions", "dx",
          "dy", "minvalues", "arrows", "point_value_options"}
             \cup (IF source = "querydata" THEN {"querydata"} ELSE {})
             \cup Properties_countParameterHash(source)

-----------------------------------------------------------------------------
(* SymbolLayer *)

SymbolLayer_init ==
    {"paraminfo", "positions", "minvalues", "symbol", "scale", "dx", "dy", "symbols",
     "point_value_options"}

SymbolLayer_read_gridForecasts == {"positions", "symbols"} \cup Layer_getClipBox

SymbolLayer_read_forecasts ==
    {"positions", "symbols", "paraminfo", "querydata"} \cup Layer_getClipBox

SymbolLayer_generate_gridEngine ==
    {"symbol", "symbols", "paraminfo", "projection", "positions", "xmargin", "ymargin",
     "origintime", "point_value_options", "multiplier", "offset", "attributes", "scale", "dx",
     "dy", "minvalues", "griddata", "other_griddata"}
        \cup Properties_getValidTime \cup Plugin_getStyle \cup Plugin_getSymbol
        \cup Layer_addClipRect \cup SymbolLayer_read_gridForecasts

SymbolLayer_generate_qEngine(source) ==
    {"symbol", "symbols", "paraminfo", "projection", "positions", "xmargin", "ymargin",
     "point_value_options", "multiplier", "offset", "attributes", "scale", "dx", "dy",
     "minvalues"}
        \cup Layer_getModel(source) \cup Properties_getValidTimePeriod \cup Plugin_getStyle
        \cup Plugin_getSymbol \cup Layer_addClipRect
        \cup (IF isObservation(source) THEN ObservationReader_read ELSE SymbolLayer_read_forecasts)

SymbolLayer_generate(source) ==
    Layer_validLayer \cup (IF source = "grid" THEN SymbolLayer_generate_gridEngine
                           ELSE SymbolLayer_generate_qEngine(source))

SymbolLayer_generateGeoTiff == gridDataGeoTiff \cup {"multiplier", "offset"}

SymbolLayer_generateDataTile == gridDataTile \cup {"multiplier", "offset"}

SymbolLayer_addMVTLayer(source) ==
    Layer_validLayer \cup
    (IF source # "querydata" THEN {"paraminfo", "symbols"}
     ELSE {"symbol", "symbols", "paraminfo", "projection", "positions", "xmargin", "ymargin",
           "point_value_options", "multiplier", "offset", "qid"}
              \cup Layer_getModel(source) \cup SymbolLayer_read_forecasts)

(* The observations of an old time are taken to stay as they are. *)
SymbolLayer_hash_value(source) ==
    IF source = "observation" THEN {"bad_hash"}
    ELSE {"positions", "symbol", "symbol_file", "scale", "dx", "dy", "symbols",
          "point_value_options"}
             \cup (IF source = "querydata" THEN {"querydata"} ELSE {})
             \cup Properties_countParameterHash(source)

-----------------------------------------------------------------------------
(* NumberLayer and CloudCeilingLayer *)

NumberLayer_init ==
    {"paraminfo", "positions", "minvalues", "label", "symbol", "scale", "numbers",
     "point_value_options"}

NumberLayer_read_gridForecasts == {"positions"}

NumberLayer_read_forecasts == {"positions", "paraminfo", "querydata"} \cup Layer_getClipBox

NumberLayer_generate_gridEngine ==
    {"positions", "xmargin", "ymargin", "paraminfo", "projection", "origintime",
     "point_value_options", "multiplier", "offset", "attributes", "symbol", "numbers", "scale",
     "label", "minvalues", "griddata", "other_griddata"}
        \cup Properties_getValidTime \cup Plugin_getStyle \cup Plugin_getSymbol
        \cup Layer_addClipRect \cup NumberLayer_read_gridForecasts

NumberLayer_generate_qEngine(source) ==
    {"positions", "xmargin", "ymargin", "paraminfo", "projection", "point_value_options",
     "multiplier", "offset", "attributes", "symbol", "numbers", "scale", "label", "minvalues"}
        \cup Layer_getModel(source) \cup Properties_getValidTimePeriod \cup Plugin_getStyle
        \cup Plugin_getSymbol \cup Layer_addClipRect
        \cup (IF isObservation(source) THEN ObservationReader_read ELSE NumberLayer_read_forecasts)

(* As with arrows, the minimum resolution and the like are not looked at. *)
NumberLayer_generate(source) ==
    IF source = "grid" THEN NumberLayer_generate_gridEngine
    ELSE NumberLayer_generate_qEngine(source)

NumberLayer_generateGeoTiff == gridDataGeoTiff \cup {"multiplier", "offset"}

NumberLayer_generateDataTile == gridDataTile \cup {"multiplier", "offset"}

NumberLayer_addMVTLayer(source) ==
    Layer_validLayer \cup
    (IF source # "querydata" THEN {}
     ELSE {"paraminfo", "projection", "positions", "xmargin", "ymargin", "point_value_options",
           "multiplier", "offset", "qid", "label"}
              \cup Layer_getModel(source) \cup NumberLayer_read_forecasts)

NumberLayer_hash_value(source) ==
    IF isObservation(source) THEN {"bad_hash"}
    ELSE {"positions", "minvalues", "symbol", "symbol_file", "scale", "label", "numbers",
          "point_value_options"}
             \cup (IF source = "querydata" THEN {"querydata"} ELSE {})
             \cup Properties_countParameterHash(source)

(* A CloudCeilingLayer has the hash of a NumberLayer, and so none for the  *)
(* observations it draws.                                                  *)
CloudCeilingLayer_init == NumberLayer_init \cup {"keyword", "fmisid"}

CloudCeilingLayer_readObservations ==
    {"paraminfo", "maxdistance_km", "keyword", "fmisid", "places", "observations"}
        \cup Layer_getClipBoundingBox

CloudCeilingLayer_generate ==
    {"positions", "xmargin", "ymargin", "paraminfo", "projection", "point_value_options",
     "attributes", "multiplier", "offset", "symbol", "numbers", "scale", "label", "minvalues"}
        \cup Properties_getValidTimePeriod \cup Plugin_getStyle \cup Plugin_getSymbol
        \cup Layer_addClipRect \cup CloudCeilingLayer_readObservations

-----------------------------------------------------------------------------
(* ObservationLayer: the symbols of road weather and of present weather *)

ObservationLayer_init ==
    {"paraminfo", "timestep", "positions", "label", "mindistance", "missing_symbol"}

ObservationLayer_getProcessedData == {"positions", "projection"} \cup ObservationReader_read

FinnishRoadObservationLayer_get_symbol == {"missing_symbol"}

FinnishRoadObservationLayer_get_symbol_priority == {"missing_symbol"}

FinnishRoadObservationLayer_processResultSet ==
    {"projection"} \cup FinnishRoadObservationLayer_get_symbol
        \cup FinnishRoadObservationLayer_get_symbol_priority

PresentWeatherObservationLayer_get_symbol == {"missing_symbol"}

PresentWeatherObservationLayer_get_symbol_priority == {"missing_symbol"}

PresentWeatherObservationLayer_processResultSet ==
    {"projection"} \cup PresentWeatherObservationLayer_get_symbol
        \cup PresentWeatherObservationLayer_get_symbol_priority

ObservationLayer_generate ==
    {"positions", "attributes", "mindistance", "label"} \cup ObservationLayer_getProcessedData
        \cup FinnishRoadObservationLayer_processResultSet
        \cup PresentWeatherObservationLayer_processResultSet

(* No observations, and no bad_hash *)
ObservationLayer_hash_value == {"positions", "label", "mindistance", "missing_symbol"}

-----------------------------------------------------------------------------
(* WindRoseLayer *)

WindRoseLayer_init ==
    {"timezone", "starttimeoffset", "endtimeoffset", "windrose", "observation_list", "stations"}

WindRoseLayer_getObservations == {"timezone", "stations", "windrose", "observations"}

WindRoseLayer_generate ==
    {"projection", "starttimeoffset", "endtimeoffset", "attributes", "stations", "windrose",
     "observation_list", "language"}
        \cup Layer_validLayer \cup Plugin_getStyle \cup Properties_getValidTime
        \cup Layer_addClipRect \cup WindRoseLayer_getObservations

WindRoseLayer_hash_value ==
    {"timezone", "starttimeoffset", "endtimeoffset", "windrose", "observation_list", "stations"}

-----------------------------------------------------------------------------
(* MetarLayer *)

MetarLayer_init ==
    {"message_type", "message_format", "exclude_specis", "font_size", "plot_size",
     "show_temperature", "show_dewpoint", "show_visibility", "show_status", "show_wind",
     "show_pressure", "show_gust", "show_weather", "show_sky_info", "color", "mindistance",
     "icaos", "countries"}

MetarLayer_generate ==
    {"projection", "message_type", "message_format", "exclude_specis", "icaos", "countries",
     "plot_size", "font_size", "mindistance", "attributes", "color", "show_status", "show_wind",
     "show_temperature", "show_visibility", "show_dewpoint", "show_pressure", "show_gust",
     "show_weather", "show_sky_info", "messages"}
        \cup Layer_validLayer \cup Properties_getValidTime \cup Plugin_getStyle
        \cup Layer_addClipRect \cup Layer_getClipBox

MetarLayer_hash_value == MetarLayer_init

-----------------------------------------------------------------------------
(* LocationLayer *)

parseLabelConfig ==
    {"algorithm", "candidates", "offset", "symbol_width", "symbol_height", "symbol_margin",
     "free_space_weight", "free_space_radius", "priority_bucket_ratio", "bbox_padding",
     "bbox_quantum", "font_family", "font_size", "font_weight", "fill", "stroke", "stroke_width",
     "stroke_opacity", "max_labels", "fixed_position", "country_constraint", "country_schema",
     "country_table", "country_field", "country_pgname", "sa_iterations", "sa_initial_temp",
     "sa_cooling_rate", "sa_overlap_weight", "sa_position_weight", "classes"}

hashLabelConfig ==
    {"algorithm", "candidates", "offset", "symbol_width", "symbol_height", "symbol_margin",
     "bbox_padding", "bbox_quantum", "font_family", "font_size", "font_weight", "fill", "stroke",
     "stroke_width", "stroke_opacity", "max_labels", "fixed_position", "sa_iterations",
     "sa_initial_temp", "sa_cooling_rate", "sa_overlap_weight", "sa_position_weight",
     "free_space_weight", "free_space_radius", "priority_bucket_ratio", "country_constraint",
     "country_schema", "country_table", "country_field", "country_pgname", "classes"}

LocationLayer_init ==
    {"keyword", "mindistance", "pan_invariant", "placement_margin", "countries", "symbol",
     "symbols", "label_config"}

LocationLayer_generate(source) ==
    {"keyword", "symbol", "symbols", "projection", "mindistance", "pan_invariant",
     "placement_margin", "label_config", "attributes", "places", "shapes"}
        \cup Layer_validLayer \cup Layer_getModel(source) \cup Plugin_getStyle
        \cup Plugin_getSymbol \cup Layer_addClipRect

LocationLayer_hash_value ==
    {"keyword", "mindistance", "pan_invariant", "placement_margin", "countries", "symbol",
     "symbol_file", "symbols", "label_config"}

-----------------------------------------------------------------------------
(* CircleLayer *)

CircleLayer_init ==
    {"keyword", "features", "lines", "place_names", "geoids", "circles", "labels"}

(* The precision is the one of the request for circles. *)
CircleLayer_generate(source) ==
    {"circles", "keyword", "geoids", "place_names", "features", "projection", "labels", "lines",
     "qid", "attributes", "css", "places"}
        \cup Layer_validLayer \cup Layer_getModel(source) \cup Layer_addClipRect
        \cup Layer_getClipBox

CircleLayer_addMVTLayer(source) ==
    {"circles", "keyword", "geoids", "place_names", "features", "projection", "lines", "qid",
     "places"}
        \cup Layer_validLayer \cup Layer_getModel(source) \cup Layer_getClipBox

CircleLayer_hash_value == {"keyword", "place_names", "geoids", "circles", "labels"}

=============================================================================
