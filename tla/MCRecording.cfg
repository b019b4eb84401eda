SPECIFICATION Spec
CONSTANTS
  N = 5
  MaxCrashes = 2
  Legacy <- MCLegacy
INVARIANTS
  TypeOK
  AppendedRecordsSurvive
PROPERTIES
  RestartNeverGaps
  ImplementsLog
