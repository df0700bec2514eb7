SPECIFICATION ApiFairSpec
CONSTANTS
  Stores = {"runtime", "reference", "energy", "derived", "traffic"}
  Loadable = {"valid", "unusable"}
  MaxPublications = 2
  Saves <- ThreeSaves
  Movable = {"traffic"}
  Endpoints = {"route"}
  StatErrors = TRUE
INVARIANTS ServedUnlessMissed AgentsTrailReference
PROPERTIES NoFieldGoesBack Converges
CHECK_DEADLOCK FALSE
