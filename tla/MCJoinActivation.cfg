CONSTANTS
    a = a
    b = b
    Devices = {a, b}
    Founders = {a}
    Temporary = {}
    MaxRevision = 2
    MaxForks = 2
    None = None
    MaxFaults = 3
    MaxRounds = 1
    MaxGrants = 1
    MaxGlitches = 1
SPECIFICATION JoinSpec
INVARIANTS
    ActivationNeedsCompletion
