------------------------- MODULE MCReferenceRefresh -------------------------
(***************************************************************************)
(* An instance of ReferenceRefresh: one layer of each facility source, two *)
(* of the climate analysis, the stops and the roads.                       *)
(***************************************************************************)
EXTENDS ReferenceRefresh

FewLayers ==
  [s \in Sources |->
     CASE s = "berlin_hospitals"     -> {"hospitals"}
       [] s = "berlin_fire_stations" -> {"fire"}
       [] s = Climate                -> {"air", "wind"}
       [] s = "vbb_gtfs_static"      -> {"stops"}
       [] s = "osm_berlin"           -> {"roads"}]

\* With pages of two features: no page, a full one, a full one and a short
\* one (with a blank or a bad feature), more than MaxFeatures.
Lengths == {<< >>, <<1, 2>>, <<1, 2, 4>>, <<2, 1, 3>>, <<1, 2, 4, 1>>}
OneFeature == <<1>>
=============================================================================
