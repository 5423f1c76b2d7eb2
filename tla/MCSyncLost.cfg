CONSTANTS
    d1 = d1
    d2 = d2
    pref = pref
    host = host
    Devices = {d1, d2}
    Ids = {pref, host}
    Pref = pref
    Edits <- HostOnly
    Deletable = {host}
    MaxClock = 3
    MaxFails = 1
    MaxOffline = 0
    MaxRestarts = 0
    MaxMishaps = 2
SPECIFICATION Spec
SYMMETRY SameDevices
INVARIANT ActSurvives
