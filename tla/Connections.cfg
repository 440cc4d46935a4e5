SPECIFICATION Spec
CONSTANTS
  c1 = c1
  c2 = c2
  a1 = a1
  a2 = a2
  a3 = a3
  none = none
  asio = asio
  table = table
  Threads <- BothThreads
  Elems <- Strings
  Batches <- OneString
  NoThread = none
  Clients <- TwoClients
  Addrs <- ThreeAddrs
  Nil = nil
  Asio = asio
  Table = table
  Codes = {"ECHO"}
  Faults = {"accept_error", "slow_send"}
  MaxSends = 2
  MaxDials = 3
  VideoFile = FALSE
  Preview = FALSE
SYMMETRY AddrSymmetry
INVARIANTS OpenIsRegistered InOrderOnce SocketsAreConnected
PROPERTIES CrashNeedsRace CalmBroadcastReachesAll
CHECK_DEADLOCK FALSE
