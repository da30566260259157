CONSTANTS
  Slots = {o1, o2}
  Threads = {t1, t2}
  Events = {e1}
  None = None
SPECIFICATION FairSpec
INVARIANTS
  ControlFindsEvent
  StoppedIsQuiet
PROPERTIES
  StopHonoured
  DriverLeaves
