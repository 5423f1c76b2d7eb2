CONSTANTS
    d1 = d1
    pref = pref
    host = host
    Devices = {d1}
    Ids = {pref, host}
    Pref = pref
    Edits <- Everything
    Deletable = {host}
    MaxClock = 3
    MaxFails = 1
    MaxOffline = 1
    MaxRestarts = 1
    MaxMishaps = 2
SPECIFICATION BoundedSpec
INVARIANTS SettledAgrees PhoneSettledAgrees EditKept
PROPERTIES TombstoneKept QueueKept AllConverge
