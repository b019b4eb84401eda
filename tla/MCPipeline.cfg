SPECIFICATION PipelineSpec
CONSTANTS
  Legacy = {}
  N = 3
  MaxCrashes = 1
  MaxRecords = 4
  HasForecaster = TRUE
  CloseAt = 2
  RolloverAt = 3
  Shape <- RaisingShape
  Cap <- OutcomeCap
INVARIANTS
  OneUniversePerSnapshot
  OutcomesAreEarned
  SettledOnce
  ArtifactsVerify
PROPERTIES
  MarkerVouches
  ImplementsSnapshotLife
CHECK_DEADLOCK FALSE
