CONSTANTS
    a = a
    b = b
    Devices = {a, b}
    Founders = {a, b}
    Temporary = {}
    MaxRevision = 1
    MaxForks = 2
    None = None
    MaxFaults = 1
    MaxRounds = 2
SPECIFICATION FairSpec
PROPERTIES
    Convergence
    EventuallyUngated
