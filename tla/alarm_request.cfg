CONSTANTS
  m1 = m1
  m2 = m2
  MEs = {m1, m2}
  Known = {m1}
  Alarms = {1}
  SeqMax = 2
  MaxChange = 0
  MaxAudit = 1
  MaxRequest = 1
  MaxLife = 1
  MaxDisturb = 0
  Kinds = {}
SPECIFICATION Spec
PROPERTY RequestEnds
CHECK_DEADLOCK FALSE
