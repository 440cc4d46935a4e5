SPECIFICATION TransportsSpec
CONSTANTS
  p1 = p1
  p2 = p2
  t1 = t1
  t2 = t2
  NoPeer = NoPeer
  Peers = {p1}
  TcpKinds = {"receiver"}
  MaxFrames = 1
  Runners = {t1}
  PacketSizes = {600}
  MaxDatagrams = 0
  TextLength <- MCTextLength
  BlobLength <- MCBlobLength
  Capacity = 0
  Numbers = {}
  MaxArguments = 0
  MaxStray = 0
  MaxPut = 0
  Programs = {}
  MaxBufferSize = 38
PROPERTY ReadIsProcessed
CHECK_DEADLOCK FALSE
