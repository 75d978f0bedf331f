SPECIFICATION DiscoverySpec
CONSTANTS
    a = a
    b = b
    lan = lan
    wan = wan
    circuit = circuit
    Peers = {1, 2}
    QueryTimeout = 2
    BackoffBase = 1
    BackoffMax = 3
    MaxExponent = 2
    StateTtl = 3
    ConnectedRetry = 1
    LanGrace = 2
    MaxRecords = 2
    MaxEvents = 3
    Remotes = {a, b}
    Addresses = {lan, wan, circuit}
    Heard <- Reported
    Category <- KindOf
    Relayed = "relay"
    Static <- Configured
    Infrastructure = {b}
    MaxPerPeer = 2
    MaxOverlay = 2
    MaxInfrastructure = 2
    AddressTtl = 0
    MaxChanges = 2
INVARIANTS
    OwnershipMatches
    CopiesAreRetained
PROPERTIES
    CooldownsHold
    OthersKeepTheirShare
    NoPeerStarves
