CONSTANTS
    a = a
    b = b
    Devices = {a, b}
    Founders = {a}
    Temporary = {}
    MaxRevision = 2
    MaxForks = 2
    None = None
    MaxFaults = 2
    MaxRounds = 1
    MaxGrants = 2
    MaxGlitches = 1
SPECIFICATION JoinSpec
CONSTRAINT TroubleBound
INVARIANTS
    GateOutlivesTransaction
    GrantsAreDurable
    AppliedIsDurable
    BarrierCanBeReleased
