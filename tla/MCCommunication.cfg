CONSTANTS
  Slots = {o1, o2}
  Threads = {t1, t2}
  Events = {e1, e2, e3}
  None = None
SPECIFICATION FairSpec
INVARIANTS
  SlotHeldOnce
  EventHandledOnce
  ThreadForEverySlot
PROPERTY EventsHandled
CHECK_DEADLOCK FALSE
