CONSTANTS
    d1 = d1
    pref = pref
    host = host
    Devices = {d1}
    Ids = {pref, host}
    Pref = pref
    Edits = {}
    Deletable = {host}
    MaxClock = 3
    MaxFails = 1
    MaxOffline = 0
    MaxRestarts = 1
    MaxMishaps = 1
SPECIFICATION PhoneSpec
INVARIANT EditOutlivesMerge
