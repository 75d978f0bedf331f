CONSTANTS
    a = a
    b = b
    Devices = {a, b}
    Founders = {a, b}
    Temporary = {b}
    MaxRevision = 2
    MaxForks = 2
    None = None
    MaxFaults = 2
    MaxRounds = 1
SPECIFICATION Spec
INVARIANTS
    LiveAuthorityIsDurable
    AcknowledgedIsDurable
    OffersAreDurable
    RoundsCanFinish
    IncarnationsAreUnbroken
PROPERTIES
    NeverRollsBack
    ImplementsLedger
