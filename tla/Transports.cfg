SPECIFICATION TransportsFairSpec
CONSTANTS
    p1 = p1
    p2 = p2
    t1 = t1
    t2 = t2
    NoPeer = NoPeer
    Peers = {p1, p2}
    TcpKinds = {"sender", "web", "receiver", "udp", "osc"}
    MaxFrames = 2
    Runners = {t1, t2}
    PacketSizes = {0, 600, 5000}
    MaxDatagrams = 2
    TextLength <- MCTextLength
    BlobLength <- MCBlobLength
    Capacity = 52
    Numbers = {"v"}
    MaxArguments = 3
    MaxStray = 1
    MaxPut = 7
    Programs <- MCPrograms
    MaxBufferSize = 38
INVARIANTS FitsTheBuffer ReadsWhatWasPut CutIsDropped ClientListOK
PROPERTIES CalmFrameReachesAll EveryoneIsAccepted BreakEndsRun
CHECK_DEADLOCK FALSE
