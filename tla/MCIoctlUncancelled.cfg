CONSTANTS
  Clients = {c1, c2}
  Senders = {s1, s2}
  Irps = {i1, i2}
  Msgs = {m1, m2, m3, m4, m5}
  Oversized = {m4, m5}
  Cancellable = {}
  kMaxDataListSize = 1
  None = None
SPECIFICATION Spec
SYMMETRY Symmetry
INVARIANTS
  UncancelledIntact
  DataListBound
CHECK_DEADLOCK FALSE
