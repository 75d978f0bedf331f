CONSTANTS
    a = a
    b = b
    Devices = {a, b}
    Founders = {a}
    Temporary = {}
    MaxRevision = 2
    MaxForks = 2
    None = None
    MaxFaults = 0
    MaxRounds = 2
    MaxGrants = 1
    MaxGlitches = 0
SPECIFICATION FairJoinSpec
PROPERTIES
    JoinSettles
