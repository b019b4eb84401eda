SPECIFICATION Spec
CONSTANTS
  a = a
  b = b
  daily = daily
  recent = recent
  operator = operator
  None = None
  Candidates <- MCCandidates
  Dojos <- MCDojos
  Operators <- MCOperators
  Cooldown = 1
  MaxClock = 2
  MaxWrites = 3
  MaxDeaths = 1
SYMMETRY Symmetry
INVARIANTS
  ReplacedIsArchived
PROPERTIES
  CooldownIsKept
  LatestIsRestored
CHECK_DEADLOCK FALSE
