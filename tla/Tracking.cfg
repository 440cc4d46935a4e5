SPECIFICATION TSpec
CONSTANTS
  Symbols <- AllSymbols
  MaxSessions = 2
  Installations <- Installed
  RegionNames <- Names
  Requests <- Commands
  Views <- Fingers
  Sightings <- MarkersSeen
  SkippableFrames = 1
INVARIANTS CursorsFollowFingers ObjectsAreCounted
PROPERTY LeavesAfterAbsence
CHECK_DEADLOCK FALSE
