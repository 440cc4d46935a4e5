SPECIFICATION Spec
CONSTANTS
  Window = 1
  Sources <- OneSource
  Symbols <- TwoSymbols
  Modes <- OneProfile
  Capacity = 1
  MaxDelay = 1
  MaxSessions = 1
  MaxFrame = 3
  MaxChanges = 3
  MaxEvents = 1
INVARIANT ClientIsRight
PROPERTIES NeverGoesBack Converges
CHECK_DEADLOCK FALSE
