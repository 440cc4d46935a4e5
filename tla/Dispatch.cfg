SPECIFICATION FairSpec
CONSTANTS
  c1 = c1
  c2 = c2
  a1 = a1
  a2 = a2
  a3 = a3
  none = none
  asio = asio
  table = table
  Threads <- BothThreads
  Elems <- Strings
  Batches <- OneString
  NoThread = none
  Clients <- OneClient
  Addrs <- TwoAddrs
  Nil = nil
  Asio = asio
  Table = table
  Codes = {"ECHO", "VERIFY", "CALCULATE_ROI", "WRITE_BOUNDS", "PUT_REGION", "UNBOUND", "MALFORMED"}
  Faults = {"read_error", "heap_garbage"}
  MaxSends = 2
  MaxDials = 1
  VideoFile = TRUE
  Preview = TRUE
PROPERTIES QueuedIsParsed FramesGoOn QueueIsAtomic
CHECK_DEADLOCK FALSE
