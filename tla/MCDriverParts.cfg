CONSTANTS
  FileThreads = {f1, f2}
  RegThreads = {r1, r2}
  Clients = {c1, c2}
  Objects = {o1}
  Processes = {p1, p2}
  Nameless = {p2}
  Empty = Empty
  Char = {0, 1}
  NUL = 0
  MaxName = 3
  LenMod = 4
  kMaxMsgSize = 14
  None = None
SPECIFICATION PartsSpec
INVARIANTS
  ContextWhileUsed
  NothingLeft
  NothingHeld
  ReportedExactly
  EventSurvives
