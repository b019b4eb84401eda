SPECIFICATION Spec
CONSTANTS
  daily = daily
  recent = recent
  weekly = weekly
  crash = crash
  chop = chop
  Runs <- MCRuns
  Archetypes <- MCArchetypes
  MaxAge = 0
  DiagnoseLimit = 1
  MaxDay = 1
  MaxStops = 1
  MaxOverlap = 2
INVARIANTS
  MemoryAccumulates
  PressureAccumulates
PROPERTIES
  TrainsOnOpenGaps
SYMMETRY Symmetry
CHECK_DEADLOCK FALSE
