CONSTANTS
  Slots = {o1, o2}
  Threads = {t1, t2}
  Main = main
  Senders = {s1}
  Events = {e1, e2}
  Oversized = {e2}
  kMaxDataListSize = 1
  None = None
SPECIFICATION FairSpec
INVARIANT DeliveredOnce
PROPERTIES
  ActsAsDevice
  EventsGetThrough
CHECK_DEADLOCK FALSE
