SPECIFICATION SettingsSpec
CONSTANTS
  Shots <- Pictures
  CameraWidth = 20
  CameraHeight = 15
  MaxShots = 1
  Disks <- PreparedDisks
  StaticWidth = 1024
  StaticHeight = 768
  Options <- SomeOptions
  MaxOptions = 1
  MaxFaults = 2
  Word = 262144
  ExposureMap <- Exposures
  AwbMap <- Awbs
  ImageFxMap <- Effects
INVARIANTS AcceptedIsASection AnyOrderIsAccepted
PROPERTIES RoiCoversShare SavedComesBack CycledAreRestored RoiIsTheCrop
CHECK_DEADLOCK FALSE
