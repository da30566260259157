CONSTANTS
  Workers = {w1, w2}
  Images = {i1, i2, i3}
  Paths = {i1, i2, i3}
  Filtered = {i3}
  None = None
  MaxId = 3
SPECIFICATION Spec
CONSTRAINT Bounded
SYMMETRY Symmetry
INVARIANTS
  AssetRefersToApp
  IdsFresh
  AssetAttributed
  EveryEventRecorded
PROPERTY RowsFinal
