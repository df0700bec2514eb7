SPECIFICATION Spec
CONSTANTS
  Nodes = {"a", "b", "c", "d"}
  Roads <- Network
  Category <- Kind
  Far = "nowhere"
  Disruptions <- Works
  References <- Maps
  MaxTime = 2
INVARIANTS NearestOrReported ClosuresRespected DelayIsForced UnusableAltersNothing RequestAgrees
CHECK_DEADLOCK FALSE
