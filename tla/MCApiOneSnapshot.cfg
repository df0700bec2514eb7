SPECIFICATION ApiSpec
CONSTANTS
  Stores = {"runtime", "reference", "energy", "derived", "traffic"}
  Loadable = {"valid", "unusable"}
  MaxPublications = 1
  Saves <- OneReference
  Movable = {}
  Endpoints = {"route"}
  StatErrors = FALSE
INVARIANT RequestSeesOneSnapshot
CHECK_DEADLOCK FALSE
