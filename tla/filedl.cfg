SPECIFICATION Spec
CONSTANTS
  Images = {i1}
  URLs = {u1}
  Devices = {d1, d2}
  None = None
  MaxDl = 2
  MayTimeout = TRUE
  MayAbort = TRUE
INVARIANTS
  NoLostRequester
  SucceededIsReady
CHECK_DEADLOCK FALSE
