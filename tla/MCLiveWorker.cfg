SPECIFICATION FairSpec
CONSTANTS
  MaxTime = 2
  Threshold <- ShortThresholds
  TrafficThreshold = 0
  Lag <- AirLags
  Failing = {"berlin_air_quality", "vbb_gtfs_rt", "traffic"}
  Breakable = {"derived"}
INVARIANTS ValidMeansRecent ContextFollowsRuntime
PROPERTIES FailureTakesNothing DerivedCatchesUp LiveDataGoesOn
CHECK_DEADLOCK FALSE
