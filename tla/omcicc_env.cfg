SPECIFICATION Spec
CONSTANTS
  h1 = h1
  l1 = l1
  l2 = l2
  w1 = w1
  n1 = n1
  v1 = v1
  Requests = {w1, v1}
  HighPrio = {}
  NoResponse = {}
  Verify = {v1}
  SelfTest = {}
  Window = {w1}
  Tids = {1}
  TidOf <- SharedTids
  None = None
  Retries <- NoRetry
  ChanCap = 1
  MayDelete = TRUE
  MayGarble = TRUE
INVARIANTS
  MonitoredIsSupervised
  NoStrandedFrame
CHECK_DEADLOCK FALSE
