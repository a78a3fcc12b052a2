-------------------------- MODULE GridLayerFields --------------------------
(***************************************************************************)
(* The layers that draw the fields of a grid, function by function: see    *)
(* ProductFields for what the sets are.                                    *)
(***************************************************************************)

EXTENDS ProductFields

-----------------------------------------------------------------------------
(* IsobandLayer *)

(* autoqid and autoclass go into the isobands. *)
IsobandLayer_init ==
    {"precision", "paraminfo", "isobands", "interpolation", "extrapolation", "smoother", "minarea",
     "areaunit", "closed_range", "strict", "validate", "desliver", "subdivide",
     "subdivide_min_cell_pixels", "outside", "inside", "sampling", "filter", "intersections",
     "heatmap", "tfp"}

IsobandLayer_buildHeatmap ==
    {"paraminfo", "heatmap", "projection", "observations"}
        \cup Layer_getClipBoundingBox \cup Properties_getValidTimePeriod

IsobandLayer_generate_gridEngine ==
    {"paraminfo", "isobands", "projection", "multiplier", "offset", "origintime", "smoother",
     "interpolation", "extrapolation", "subdivide", "minarea", "areaunit", "filter", "inside",
     "outside", "shapes", "intersections", "qid", "attributes", "css", "precision", "griddata",
     "other_griddata"}
        \cup Properties_getValidTime \cup Layer_getClipBox \cup Layer_addClipRect
        \cup Plugin_getStyle

IsobandLayer_generate_qEngine(source) ==
    {"paraminfo", "tfp", "heatmap", "sampling", "projection", "inside", "outside", "shapes",
     "isobands", "multiplier", "offset", "minarea", "areaunit", "smoother", "extrapolation",
     "interpolation", "closed_range", "strict", "validate", "desliver", "subdivide",
     "subdivide_min_cell_pixels", "filter", "intersections", "qid", "attributes", "css",
     "precision"}
        \cup Layer_getModel(source) \cup Properties_getValidTime \cup Layer_getClipBox
        \cup Layer_addClipRect \cup Plugin_getStyle
        \cup (IF isObservation(source) THEN IsobandLayer_buildHeatmap ELSE {})

IsobandLayer_generate(source) ==
    Layer_validLayer \cup Plugin_getStyle \cup {"isobands"} \cup
    (IF source = "grid" THEN IsobandLayer_generate_gridEngine
     ELSE IsobandLayer_generate_qEngine(source))

IsobandLayer_generateGeoTiff == gridDataGeoTiff \cup {"multiplier", "offset"}

IsobandLayer_generateDataTile == gridDataTile \cup {"multiplier", "offset"}

(* Nothing is drawn from the grid engine. *)
IsobandLayer_addMVTLayer(source) ==
    Layer_validLayer \cup {"paraminfo", "isobands"} \cup
    (IF source = "grid" THEN {}
     ELSE {"heatmap", "sampling", "projection", "inside", "outside", "shapes", "multiplier",
           "offset", "minarea", "areaunit", "smoother", "extrapolation", "interpolation",
           "closed_range", "strict", "validate", "desliver", "subdivide",
           "subdivide_min_cell_pixels", "filter", "intersections", "qid"}
              \cup Layer_getModel(source) \cup Properties_getValidTime \cup Layer_getClipBox
              \cup (IF isObservation(source) THEN IsobandLayer_buildHeatmap ELSE {}))

(* Faulty: the unit of the smallest area is left out. *)
IsobandLayer_hash_value_without_areaunit(source) ==
    {"isobands", "interpolation", "smoother", "extrapolation", "precision", "minarea",
     "outside", "inside", "sampling", "intersections", "filter", "heatmap", "tfp", "closed_range",
     "strict", "validate", "desliver", "subdivide", "subdivide_min_cell_pixels"}
        \cup (IF source = "querydata" THEN {"querydata"} ELSE {})
        \cup Properties_countParameterHash(source)

IsobandLayer_hash_value(source) ==
    {"isobands", "interpolation", "smoother", "extrapolation", "precision", "minarea", "areaunit",
     "outside", "inside", "sampling", "intersections", "filter", "heatmap", "tfp", "closed_range",
     "strict", "validate", "desliver", "subdivide", "subdivide_min_cell_pixels"}
        \cup (IF source = "querydata" THEN {"querydata"} ELSE {})
        \cup Properties_countParameterHash(source)

-----------------------------------------------------------------------------
(* IsolineLayer *)

IsolineLayer_init ==
    {"precision", "paraminfo", "isolines", "smoother", "interpolation", "extrapolation", "minarea",
     "areaunit", "strict", "validate", "desliver", "subdivide", "subdivide_min_cell_pixels",
     "outside", "inside", "sampling", "intersections", "filter", "tfp"}

(* The smallest area is not asked of the grid engine. *)
IsolineLayer_getIsolinesGrid ==
    {"paraminfo", "projection", "multiplier", "offset", "origintime", "interpolation", "smoother",
     "subdivide", "extrapolation", "griddata", "other_griddata"}
        \cup Properties_getValidTime \cup Layer_getClipBox

IsolineLayer_getIsolinesQuerydata(source) ==
    {"paraminfo", "tfp", "projection", "sampling", "inside", "outside", "shapes", "intersections",
     "minarea", "areaunit", "multiplier", "offset", "smoother", "extrapolation", "interpolation",
     "strict", "validate", "desliver", "subdivide", "subdivide_min_cell_pixels"}
        \cup Layer_getModel(source) \cup Properties_getValidTime \cup Layer_getClipBox

IsolineLayer_getIsolines(source) ==
    {"paraminfo", "projection", "inside", "outside", "shapes", "intersections"}
        \cup Layer_getClipBox \cup Properties_getValidTime
        \cup (IF source = "grid" THEN IsolineLayer_getIsolinesGrid
              ELSE IsolineLayer_getIsolinesQuerydata(source))

IsolineLayer_generate(source) ==
    {"isolines", "filter", "projection", "paraminfo", "qid", "attributes", "css", "precision"}
        \cup Layer_validLayer \cup IsolineLayer_getIsolines(source) \cup Plugin_getStyle
        \cup Layer_addClipRect \cup Properties_getValidTime

IsolineLayer_generateGeoTiff == gridDataGeoTiff \cup {"multiplier", "offset"}

IsolineLayer_generateDataTile == gridDataTile \cup {"multiplier", "offset"}

IsolineLayer_addMVTLayer(source) ==
    {"paraminfo", "isolines", "filter", "projection", "qid"} \cup Layer_validLayer
        \cup IsolineLayer_getIsolines(source)

IsolineLayer_hash_value(source) ==
    {"isolines", "smoother", "interpolation", "extrapolation", "precision", "minarea", "outside",
     "inside", "sampling", "intersections", "filter", "tfp", "strict", "validate", "desliver",
     "subdivide", "subdivide_min_cell_pixels"}
        \cup (IF source = "querydata" THEN {"querydata"} ELSE {})
        \cup Properties_countParameterHash(source)

-----------------------------------------------------------------------------
(* IsolabelLayer: an IsolineLayer that draws the values only *)

IsolabelLayer_init ==
    IsolineLayer_init \cup
    {"label", "upright", "max_angle", "min_isoline_length", "min_distance_edge",
     "max_distance_edge", "min_distance_other", "min_distance_same", "min_distance_self",
     "max_curvature", "stencil_size", "angles", "textattributes", "isovalues"}

IsolabelLayer_find_candidates ==
    {"angles", "isovalues", "stencil_size", "min_isoline_length"}

IsolabelLayer_fix_orientation_gridEngine == {"upright", "griddata"}

IsolabelLayer_fix_orientation(source) ==
    IF source = "grid" THEN IsolabelLayer_fix_orientation_gridEngine
    ELSE {"paraminfo", "upright"} \cup Layer_getModel(source) \cup Properties_getValidTime

IsolabelLayer_select_best_candidates ==
    {"max_angle", "min_distance_edge", "max_distance_edge", "max_curvature", "label",
     "min_distance_self", "min_distance_same", "min_distance_other"}

IsolabelLayer_generate(source) ==
    {"isovalues", "filter", "projection", "label", "attributes", "textattributes", "isolines",
     "css"}
        \cup Layer_validLayer \cup IsolineLayer_getIsolines(source)
        \cup IsolabelLayer_find_candidates \cup IsolabelLayer_select_best_candidates
        \cup IsolabelLayer_fix_orientation(source) \cup Plugin_getStyle \cup Layer_addClipRect

IsolabelLayer_hash_value(source) ==
    IsolineLayer_hash_value(source) \cup
    {"label", "angles", "upright", "max_angle", "min_isoline_length", "min_distance_other",
     "min_distance_same", "min_distance_self", "min_distance_edge", "max_distance_edge",
     "max_curvature", "stencil_size", "isovalues", "textattributes"}

-----------------------------------------------------------------------------
(* The painters of RasterLayer.  A colour map is read from its file when   *)
(* the painter is made, and so is hashed as it is drawn.                   *)

ColorPainter_init == {"opacity_land", "opacity_sea"}

ColorPainter_hash_value == {"opacity_land", "opacity_sea"}

ColorPainter_ARGB_init ==
    ColorPainter_init \cup {"colormap_name", "colormap_file", "smooth_colors"}

ColorPainter_ARGB_setImageColors ==
    {"colormap_name", "colormap_file", "smooth_colors", "opacity_land", "opacity_sea"}

ColorPainter_ARGB_hash_value ==
    ColorPainter_hash_value \cup {"colormap_name", "colormap_file", "smooth_colors"}

ColorPainter_border_initBorder ==
    {"inside_value_min", "step_increase", "steps", "inside_color", "outside_color"}

ColorPainter_border_setImageColors ==
    {"inside_value_min", "step_increase", "inside_color", "outside_color", "steps",
     "opacity_land", "opacity_sea"}

ColorPainter_border_hash_value ==
    ColorPainter_hash_value \cup {"inside_value_min", "inside_color", "outside_color"}

ColorPainter_range_initRange ==
    {"value_min", "value_max", "color_min", "color_max", "color_low", "color_high"}

ColorPainter_range_setImageColors ==
    {"value_min", "value_max", "color_min", "color_max", "color_low", "color_high",
     "opacity_land", "opacity_sea"}

ColorPainter_range_hash_value ==
    ColorPainter_hash_value \cup
    {"value_min", "value_max", "color_min", "color_max", "color_low", "color_high"}

ColorPainter_shadow_initShadow ==
    {"value_min", "value_max", "color_min", "color_max", "dx", "dy"}

ColorPainter_shadow_setImageColors ==
    {"value_min", "value_max", "color_min", "color_max", "dx", "dy"}

ColorPainter_shadow_hash_value ==
    ColorPainter_hash_value \cup {"value_min", "value_max", "color_min", "color_max", "dx", "dy"}

ColorPainter_rain_initStream ==
    {"line_length", "step_x", "streamSpeeds", "colormap_name", "colormap_file", "smooth_colors"}

ColorPainter_rain_setImageColors ==
    {"step_x", "line_length", "streamSpeeds", "colormap_name", "colormap_file", "smooth_colors",
     "opacity_land", "opacity_sea"}

ColorPainter_rain_hash_value ==
    ColorPainter_hash_value \cup
    {"line_length", "colormap_name", "colormap_file", "smooth_colors", "streamSpeeds"}

(* The colour given for land is assigned to the sea and overwritten.       *)
ColorPainter_stream_initStream ==
    {"trace_step_x", "trace_step_y", "trace_length_min", "trace_length_max", "line_length",
     "streamSpeeds", "line_color_sea", "colormap_name", "colormap_file", "smooth_colors"}

ColorPainter_stream_setImageColors ==
    {"trace_step_x", "trace_step_y", "trace_length_min", "trace_length_max", "line_length",
     "line_color_land", "line_color_sea", "opacity_land", "opacity_sea"}

(* By direction and speed *)
ColorPainter_stream_setImageColors_speed ==
    {"trace_step_x", "trace_step_y", "trace_length_min", "trace_length_max", "line_length",
     "streamSpeeds", "colormap_name", "colormap_file", "smooth_colors", "opacity_land",
     "opacity_sea"}

ColorPainter_stream_hash_value ==
    ColorPainter_hash_value \cup
    {"trace_step_x", "trace_step_y", "trace_length_min", "trace_length_max", "line_length",
     "line_color_land", "line_color_sea", "colormap_name", "colormap_file", "smooth_colors",
     "streamSpeeds"}

-----------------------------------------------------------------------------
(* RasterLayer: an image from the grid engine; there is none from querydata *)

(* The colours of land, sea and their border are of their painters. *)
RasterLayer_init ==
    {"direction", "speed", "painter", "dataPainter", "land_position", "landPainter",
     "sea_position", "seaPainter", "land_border_position", "landBorderPainter",
     "land_shading_position", "land_shading_parameters", "sea_shading_position",
     "sea_shading_parameters", "dataBorderPainter", "dataShadowPainter", "compression",
     "interpolation"}

RasterLayer_generate_image ==
    {"projection", "sea_position", "seaPainter", "land_position", "landPainter",
     "sea_shading_position", "sea_shading_parameters", "land_shading_position",
     "land_shading_parameters", "land_border_position", "landBorderPainter", "dataShadowPainter",
     "dataPainter", "dataBorderPainter"}

RasterLayer_generate_output ==
    {"visible", "compression", "qid", "projection", "paraminfo"} \cup RasterLayer_generate_image

RasterLayer_generate_gridEngine ==
    {"paraminfo", "direction", "speed", "projection", "multiplier", "offset", "origintime",
     "interpolation", "griddata", "other_griddata"}
        \cup Properties_getValidTime \cup RasterLayer_generate_output

RasterLayer_generate(source) ==
    Layer_validLayer \cup Plugin_getStyle
        \cup (IF source = "grid" THEN RasterLayer_generate_gridEngine ELSE {})

RasterLayer_generateGeoTiff ==
    gridDataGeoTiff \cup {"multiplier", "offset", "interpolation"}

RasterLayer_generateDataTile ==
    gridDataTile \cup {"multiplier", "offset", "interpolation"}

RasterLayer_hash_value(source) ==
    {"interpolation", "land_position", "sea_position", "land_border_position",
     "land_shading_position", "sea_shading_position", "painter", "landPainter", "seaPainter",
     "landBorderPainter", "dataShadowPainter", "dataBorderPainter", "dataPainter", "compression",
     "land_shading_parameters", "sea_shading_parameters"}
        \cup (IF source = "querydata" THEN {"querydata"} ELSE {})
        \cup Properties_countParameterHash(source)

-----------------------------------------------------------------------------
(* StreamLayer *)

StreamLayer_init ==
    {"precision", "paraminfo", "u_parameter", "v_parameter", "maxStreamLen", "minStreamLen",
     "lineLen", "xStep", "yStep"}

StreamLayer_getStreamsGrid ==
    {"paraminfo", "projection", "u_parameter", "v_parameter", "origintime", "minStreamLen",
     "maxStreamLen", "lineLen", "xStep", "yStep", "griddata", "other_griddata"}
        \cup Properties_getValidTime \cup Layer_getClipBox

StreamLayer_getStreamsQuerydata(source) ==
    {"paraminfo", "projection", "u_parameter", "v_parameter", "minStreamLen", "maxStreamLen",
     "lineLen", "xStep", "yStep"}
        \cup Layer_getModel(source) \cup Layer_getClipBox \cup Properties_getValidTimePeriod

StreamLayer_generate(source) ==
    {"projection", "paraminfo", "u_parameter", "v_parameter", "qid", "css", "attributes",
     "precision"}
        \cup Layer_validLayer \cup Plugin_getStyle \cup Layer_addClipRect
        \cup (IF source = "grid" THEN StreamLayer_getStreamsGrid
              ELSE StreamLayer_getStreamsQuerydata(source))

(* The vector components are not in it. *)
StreamLayer_hash_value(source) ==
    {"minStreamLen", "maxStreamLen", "lineLen", "xStep", "yStep", "precision"}
        \cup (IF source = "querydata" THEN {"querydata"} ELSE {})
        \cup Properties_countParameterHash(source)

-----------------------------------------------------------------------------
(* GridLayer and HovmoellerLayer, which have the hash of any layer         *)

GridLayer_generate(source) ==
    {"projection", "qid", "css", "attributes"} \cup Layer_validLayer \cup Layer_getModel(source)
        \cup Layer_getClipBox \cup Plugin_getStyle \cup Layer_addClipRect

HovmoellerLayer_init ==
    {"paraminfo", "direction", "latitude", "longitude", "lon_min", "lon_max", "lat_min", "lat_max",
     "nx", "isobands"}

isoband_class == {"lolimit", "hilimit", "attributes"}

HovmoellerLayer_generate(source) ==
    {"paraminfo", "direction", "lon_min", "lon_max", "lat_min", "lat_max", "latitude", "longitude",
     "nx", "isobands", "css", "attributes"}
        \cup Layer_validLayer \cup Layer_getModel(source) \cup Plugin_getStyle

=============================================================================
