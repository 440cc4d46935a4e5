SPECIFICATION SSpec
CONSTANTS
  Symbols <- OneSymbol
  MaxSessions = 2
  Profiles <- AllProfiles
INVARIANTS NumbersOK OrderIrrelevant AliveInSync DataInSync
CHECK_DEADLOCK FALSE
