CONSTANTS
  m1 = m1
  m2 = m2
  MEs = {m1, m2}
  Known = {m1}
  Alarms = {1}
  SeqMax = 2
  MaxChange = 3
  MaxAudit = 1
  MaxRequest = 1
  MaxLife = 1
  MaxDisturb = 1
  Kinds = {"lost", "sendErr", "timeout"}
SPECIFICATION Spec
INVARIANT InStep
PROPERTY NoNeedlessAudit
PROPERTY AuditEnds
PROPERTY StopEnds
CHECK_DEADLOCK FALSE
