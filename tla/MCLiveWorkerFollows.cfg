SPECIFICATION Spec
CONSTANTS
  MaxTime = 2
  Threshold <- ShortThresholds
  TrafficThreshold = 0
  Lag <- AirLags
  Failing = {"berlin_air_quality", "vbb_gtfs_rt"}
  Breakable = {}
INVARIANT DerivedFollowsRuntime
CHECK_DEADLOCK FALSE
