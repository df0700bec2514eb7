SPECIFICATION FairSpec
CONSTANTS
  Stores = {"reference", "traffic"}
  Loadable = {"valid"}
  MaxPublications = 2
INVARIANT HonestStatus
PROPERTIES VisibleOrReported Quiesces ImplementsLastKnownGood
CHECK_DEADLOCK FALSE
