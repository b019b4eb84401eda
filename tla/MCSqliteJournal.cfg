SPECIFICATION Spec
CONSTANTS
  engine = engine
  settlement = settlement
  tool = tool
  computed = computed
  settled = settled
  NoWriter = NoWriter
  Writer <- MCWriter
  Event <- MCEvent
  Named <- MCNamed
  MaxRows = 2
INVARIANTS
  ChainVerifies
  LockIsInUse
  TipIsFresh
  ReturnedIsStored
PROPERTIES
  ImplementsJournal
