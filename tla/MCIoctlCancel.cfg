CONSTANTS
  Clients = {c1, c2}
  Senders = {s1, s2}
  Irps = {i1, i2, i3}
  Msgs = {m1, m2, m3}
  Oversized = {m3}
  Cancellable = {i1, i2, i3}
  kMaxDataListSize = 1
  None = None
SPECIFICATION Spec
CONSTRAINT Intact
SYMMETRY Symmetry
INVARIANTS
  CompletedOnce
  RequestHeldOnce
  MessageHeldOnce
  CancelRoutinesSet
PROPERTY ImplementsRendezvous
CHECK_DEADLOCK FALSE
