CONSTANTS
    a = a
    b = b
    tcp = tcp
    relay = relay
    Devices = {a, b}
    Preferred = a
    Direct = {tcp}
    Kinds = {tcp, relay}
    Gated = {}
    MaxTracked = 2
    MaxEvents = 2
    Initiator = a
    Responder = b
    Nobody = nobody
    Ttl = 3
    Lead = 1
    WindowBits = 2
    MaxHellos = 0
    MaxFrames = 0
    MaxTrouble = 0
SPECIFICATION PeerSpec
CHECK_DEADLOCK FALSE
INVARIANTS
    CommonConnectionRetained
