SPECIFICATION Spec
CONSTANTS
  c1 = c1  c2 = c2
  Clients = {c1, c2}
  Defined <- Builds
  Repeats = 2
  Others = {c2}
  OtherCalls = 1
  RefRepeats = 2
  MayDie = TRUE
  MayBreak = {c1}
INVARIANTS
  TypeOK
  VerdictComplete
  ServedAlive
  OnewayNeedsThreads
PROPERTIES
  FailuresExplained
  CounterNeverBack
  ClientsEnd
