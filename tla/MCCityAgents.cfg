CONSTANTS
  None = None
  Far = Far
  n1 = n1
  n2 = n2
  n3 = n3
  n4 = n4
  t1 = t1
  t2 = t2
  Nodes = {n1, n2, n3, n4}
  Threads = {t1, t2}
  Offset <- MCOffset
  Rows = 10
  SeasonalLag = 3
  ShortWindow = 1
  LongWindow = 2
  TestShare = 50
  MinUsable = 4
  MinTrain = 2
  MinTest = 2
  MinFit = 4
  MaxPenalty = 3
  Runtimes <- MCRuntimes
  References <- MCReferences
  Loads <- MCLoads
  Scores <- MCScores
  Scenarios <- MCScenarios
  Budgets = {1, 2}
  AirThreshold = 2
  HeatThreshold = 1
  MobilityThreshold = 0
  FirstTime = 8
  MaxTime = 10
  MaxReloads = 1
SPECIFICATION Spec
SYMMETRY ThreadSymmetry
INVARIANTS
  SummaryOfOverlapping
  ScenarioNeverFaster
  AccessAgreesWithRoutes
  AssessedOnlyIfHealthy
  DimensionsIndependent
  NoLookAhead
  TimesAsPublished
  ForecastFollowsEvaluation
CHECK_DEADLOCK FALSE
