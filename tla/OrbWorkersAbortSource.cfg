SPECIFICATION Spec
CONSTANTS
  p1 = p1  p2 = p2  p3 = p3  p4 = p4  c1 = c1  c2 = c2
  c3 = c3  c4 = c4  a1 = a1  a2 = a2  s1 = s1  s2 = s2
  s3 = s3  m1 = m1  m2 = m2  m3 = m3  u1 = u1
  None = None
  Permanent = {p1}
  Transient = {c1}
  App = {a1}
  Sources = {s1, s2}
  Monitors = {m1}
  ServerSide = {s2}
  Upcalls = {}
  SourceType <- OneType
  MonitorType <- OneTypeMonitors
  Started = {p1}
  MayExit = {p1}
  Timed = {c1}
  Callers = {a1}
  Closers = {}
  Failing = {}
  MaxThreads = 2
  MinSpare = 0
  MaxSpare = 2
  AbortCap = 1
INVARIANTS
  SourceAccounted
