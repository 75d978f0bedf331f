CONSTANTS
    a = a
    b = b
    Devices = {a, b}
    Sizes <- TwoPages
    MaxSessions = 2
    MaxSessionsPerPeer = 2
    MaxBuffered = 3
    MaxResponses = 1
    SessionTimeout = 1
    None = None
    MaxNonces = 2
    MaxNow = 2
    MaxRestarts = 1
SPECIFICATION FairTransferSpec
INVARIANTS
    BufferIsAccounted
    AssembliesAreAwaited
PROPERTIES
    NoncesStayReserved
    AssembliesEnd
