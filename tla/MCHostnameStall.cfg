CONSTANTS
    a = a
    b = b
    c = c
    Devices = {a, b, c}
    Founders = {a, b, c}
    Temporary = {}
    MaxRevision = 2
    MaxForks = 2
    None = None
    Named = {c}
    Labels = {1}
    MaxSequence = 1
    Resyncing = {c}
SPECIFICATION HostSpec
INVARIANTS
    HostnamesNeverStall
