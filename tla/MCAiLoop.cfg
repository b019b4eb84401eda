SPECIFICATION LoopSpec
CONSTANTS
  debit = debit
  credit = credit
  Orders <- MCOrders
  Credit <- MCCredit
  Contracts <- MCContracts
  Prices <- MCPrices
  Marks <- MCMarks
  Fee = 1
  StartingCash = 24
  MaxRestarts = 1
  Releases <- MCReleases
  MaxHistory = 3
  MaxRollbacks = 1
  Policies <- MCPolicies
INVARIANTS
  LoopTypeOK
  FloorsAreObeyed
  FillsBecomePositions
  JournalTellsPositions
  PrimaryRunsItsSystem
CHECK_DEADLOCK FALSE
