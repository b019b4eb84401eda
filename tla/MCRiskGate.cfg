SPECIFICATION Spec
CONSTANTS
  spread = spread
  condor = condor
  alice = alice
  bob = bob
  Traders <- MCTraders
  Candidates <- MCCandidates
  Loss <- MCLoss
  Family <- MCFamily
  MaxDailyLoss = 6
  MaxPositions = 2
  MaxFamily = 1
  MaxContracts = 2
  MaxRisk = 0
  GuardLoss = 5
  GuardContracts = 2
  GuardPositions = 3
  GuardFamily = 2
  OrderTtl = 3
  DayLength = 4
  MaxTime = 5
INVARIANTS
  DailyLossHolds
  ConcentrationHolds
PROPERTIES
  ApprovedOnce
SYMMETRY Symmetry
CHECK_DEADLOCK FALSE
