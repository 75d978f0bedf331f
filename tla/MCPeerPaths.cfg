CONSTANTS
    a = a
    b = b
    tcp = tcp
    relay = relay
    Devices = {a, b}
    Preferred = a
    Direct = {tcp}
    Kinds = {tcp, relay}
    Gated = {b}
    MaxTracked = 2
    MaxEvents = 3
    Initiator = a
    Responder = b
    Nobody = nobody
    Ttl = 3
    Lead = 1
    WindowBits = 2
    MaxHellos = 3
    MaxFrames = 2
    MaxTrouble = 1
SPECIFICATION PeerSpec
CONSTRAINTS
    ConnectionBound
    PlaneBound
CHECK_DEADLOCK FALSE
INVARIANTS
    PathsAreBacked
    UsableAreTracked
    DuplicatesSettle
    DeliveredOnce
    KeysOutliveRenewal
