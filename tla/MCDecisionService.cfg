SPECIFICATION Spec
CONSTANTS
  a = a
  b = b
  t1 = t1
  t2 = t2
  r1 = r1
  r2 = r2
  None = None
  Empty = Empty
  Candidates <- MCCandidates
  Threads <- MCThreads
  Requests <- MCRequests
  MaxRequests = 3
  MaxWrites = 2
INVARIANTS
  KnobsAreCurrent
  AnswersItsRequest
CHECK_DEADLOCK FALSE
