SPECIFICATION Spec
CONSTANTS
  c1 = c1
  c2 = c2
  a1 = a1
  a2 = a2
  a3 = a3
  none = none
  asio = asio
  table = table
  Threads <- BothThreads
  Elems <- Strings
  Batches <- OneString
  NoThread = none
  Clients <- OneClient
  Addrs <- TwoAddrs
  Nil = nil
  Asio = asio
  Table = table
  Codes = {"ECHO"}
  Faults = {}
  MaxSends = 1
  MaxDials = 1
  VideoFile = FALSE
  Preview = FALSE
PROPERTY ReadIsQueued
CHECK_DEADLOCK FALSE
