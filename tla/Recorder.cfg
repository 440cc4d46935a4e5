SPECIFICATION Spec
CONSTANTS
  CommandLines <- Lines
  Faults <- AllFaults
  PoolSize = 2
  Word = 1073741824
  CellSize = 2500000
  BufferUnits = 2
  IframeSlots = 8
  MaxUnits = 7
  MaxGop = 2
  MaxSegments = 1
  MaxToggles = 3
INVARIANTS ResourcesOK RunsSafely SplitsFollowRecordings PausedSaveIsWhole
PROPERTY AbortEnds
