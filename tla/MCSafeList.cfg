CONSTANTS
  Threads = {t1, t2, t3}
  AtDispatch = {t1}
  Nodes = {n1, n2, n3}
  Buffers = {b1, b2}
  Searched = {b1, b2}
  Null = Null
SPECIFICATION Spec
CONSTRAINT Intact
SYMMETRY Symmetry
INVARIANTS
  SizeExactUnlocked
  IrqlRestored
  NodeHeldOnce
PROPERTY
  ImplementsFifo
