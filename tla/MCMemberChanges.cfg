CONSTANTS
    a = a
    b = b
    c = c
    Recipients = {1, 2}
    HandoffWindow = 3
    AttemptWindow = 1
    MaxInFlight = 1
    MaxAttempts = 2
    NoHandoff = NoHandoff
    MaxHandoffs = 2
    MaxNow = 4
    Devices = {a, b, c}
    Founders = {a, b, c}
    Temporary = {}
    MaxRevision = 2
    MaxForks = 2
    None = None
    Named = {c}
    Labels = {1, 2}
    MaxSequence = 2
    Resyncing = {c}
SPECIFICATION ChangesSpec
CONSTRAINTS
    WireBound
CHECK_DEADLOCK FALSE
INVARIANTS
    RequestsMatchDeliveries
    AcknowledgedMeansInstalled
    ReportAccounts
    NamesFitRoster
PROPERTIES
    HandoffEnds
    NamesNeverRegress
