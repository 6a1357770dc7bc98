SPECIFICATION Spec
CONSTANTS
  Codes = {0, 1, 255}
  MaxSignals = 3
INVARIANTS
  TypeOK
  StatusFaithful
  AbortOnSignal
PROPERTIES
  AbortKillsGroup
  WaitReturns
CHECK_DEADLOCK FALSE
