SPECIFICATION Spec
CONSTANTS
  Provides <- FewLayers
  Contents <- Lengths
  Steady <- OneFeature
  Blank = {4}
  Bad = {3}
  Changing = {"wind"}
  Failing = {"berlin_hospitals", "berlin_climate_analysis_2022", "osm_berlin"}
  Servers = {"standard", "ignores_start", "caps"}
  ServerCap = 1
  PageSize = 2
  MaxFeatures = 3
  MaxRuns = 2
INVARIANTS OldContentReported
PROPERTIES WholeOrKept CompleteUnlessChanged RunEnds
CHECK_DEADLOCK FALSE
