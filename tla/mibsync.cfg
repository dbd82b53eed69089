CONSTANTS
  MdsMax = 2
  NCmds = 2
  ChanCap = 2
  SkipConfig = FALSE
  MaxConfig = 1
  MaxAudit = 1
  MaxDisturb = 2
  Kinds = {"sendErrIgnored", "zeroCmds", "undecodable", "timeout", "refuse", "sendErr", "down",
           "diverge", "restore", "expiry", "repeat"}
SPECIFICATION Spec
INVARIANTS UploadComplete ImagesDistinct InSyncSound Reprovisioned
PROPERTIES AuditSound GiveUpIsReported SyncEnds
CHECK_DEADLOCK FALSE
