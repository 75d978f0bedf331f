SPECIFICATION FairSpec
CONSTANTS
    a = a
    b = b
    Peers <- MCPeers
    Kinds <- MCKinds
    ProbeFlow = 0
    MaxPackets = 2
    MaxBytes = 3
    MaxAge = 0
    Limit = 2
    OrderedWindow = 1
    InFlightTimeout = 0
    MaxOffered = 3
    MaxNow = 1
INVARIANTS
    RingIsQueuedPeers
    PacketsAreAccounted
    WindowCountsRequests
PROPERTIES
    OrderedFlowsKeepOrder
    DatagramsDoNotOvertake
    QueuesEmpty
CHECK_DEADLOCK FALSE
