SPECIFICATION Spec
CONSTANTS
  Pictures <- TwoPictures
  Rows = 4
  Cols = 5
  Width = 11
  Height = 9
  PoolSize = 1
  Timeout = 1
  MaxTime = 1
  MaxPictures = 2
  MaxData = 1
  MaxFailures = 1
INVARIANTS LifeCycleOK PortsStaySupplied RegionsOK
PROPERTY NobodyWaits
CHECK_DEADLOCK FALSE
