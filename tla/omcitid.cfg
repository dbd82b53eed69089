SPECIFICATION Spec
CONSTANTS
  Half = 5
  MaxSections = 6
INVARIANTS
  TypeOK
  NoEarlyReuse
  WindowAckTid
