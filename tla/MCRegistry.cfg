SPECIFICATION Spec
CONSTANTS
  timer = timer
  operator = operator
  RoleCount = 2
  Group <- MCGroup
  Trainers <- MCTrainers
  Research <- MCResearch
  MaxRuns = 3
INVARIANTS
  MetadataIsOfItsModel
  LoadsAreVouched
  ServedIsOneRun
SYMMETRY Symmetry
CHECK_DEADLOCK FALSE
