SPECIFICATION FairSpec
CONSTANTS
  h1 = h1
  l1 = l1
  l2 = l2
  w1 = w1
  n1 = n1
  v1 = v1
  Requests = {n1, l1}
  HighPrio = {n1}
  NoResponse = {n1}
  Verify = {}
  SelfTest = {l1}
  Window = {}
  Tids = {1, 5}
  TidOf <- DistinctTids
  None = None
  Retries <- OneRetry
  ChanCap = 1
  MayDelete = FALSE
  MayGarble = FALSE
INVARIANTS
  TransmitBound
  PriorityBound
PROPERTIES
  Answered
CHECK_DEADLOCK FALSE
