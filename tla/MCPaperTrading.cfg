SPECIFICATION Spec
CONSTANTS
  debit = debit
  credit = credit
  Orders <- MCOrders
  Credit <- MCCredit
  Contracts <- MCContracts
  Prices <- MCPrices
  Marks <- MCMarks
  Fee = 1
  StartingCash = 30
  MaxRestarts = 1
INVARIANTS
  TypeOK
  LedgerExplainsCash
  BookListsOpenPositions
PROPERTIES
  RefusalIsCaught
CHECK_DEADLOCK FALSE
