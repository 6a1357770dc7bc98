SPECIFICATION Spec
CONSTANTS
  Clients = {c1}
  Workers = {w1, w2}
  Outgoing = {b1, b2}
  Incoming = {s1}
  NoTask = NoTask
  NoObject = NoObject
INVARIANTS
  TypeOK
  CounterExact
  NoDanglingReference
  StabilizeNil
  ListExact
PROPERTIES
  Refinement
