CONSTANTS
  NumWindows = 1
  MaxWaitEnd = 1
  MaxDisturb = 2
  Kinds = {"down", "request", "cancel", "sendErr", "file", "timeout", "refusal"}
SPECIFICATION Spec
INVARIANTS ActivateVerified LastStatesTrue EndIsTried ResetGoesOn
PROPERTIES CommitRunning
CHECK_DEADLOCK FALSE
