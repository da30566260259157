CONSTANTS
  Clients = {c1, c2}
  Senders = {s1}
  Irps = {i1, i2}
  Msgs = {m1, m2}
  Oversized = {m2}
  Cancellable = {i1}
  kMaxDataListSize = 1
  None = None
SPECIFICATION FairSpec
PROPERTIES
  CallsReturn
  CancelCompletes
  NoMessageStarves
CHECK_DEADLOCK FALSE
