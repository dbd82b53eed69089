SPECIFICATION Spec
CONSTANTS
  FileLens = {1, 2, 3, 4, 5, 6, 7, 8, 9, 10, 11, 12, 13, 14, 15, 16}
  SectionSize = 3
  WindowLimit = 2
  Formats = {"baseline", "extended"}
  MaxRetries = 3
INVARIANTS ImageIntegrity SectionInBuffer AckNumberExpected NoOverlap
CHECK_DEADLOCK FALSE
