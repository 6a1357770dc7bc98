SPECIFICATION Spec
CONSTANTS
  Codes = {0}
  MaxSignals = 1
INVARIANTS
  KillsGroupOnSignal
CHECK_DEADLOCK FALSE
