SPECIFICATION FairSpec
CONSTANTS
  Legacy = {}
  N = 3
  MaxCrashes = 1
  MaxRecords = 5
  HasForecaster = FALSE
  CloseAt = 3
  RolloverAt = 3
  Shape <- MixedShape
  Cap <- OutcomeCap
PROPERTIES
  RecordedIsProcessed
  OverIsSettled
CHECK_DEADLOCK FALSE
