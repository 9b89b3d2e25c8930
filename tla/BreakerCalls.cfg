SPECIFICATION HFairSpec
CONSTANTS
    t1 = t1
    t2 = t2
    Threads = {t1}
    Readers = {t1}
    OpenDuration = 2
    WindowDuration = 1
    MinSamples = 2
    RateNum = 1
    RateDen = 2
    MaxProbes = 1
    MaxWindowEntries = 2
    UsizeMod = 8
    MaxInFlight = 2
    MaxFailures = 3
    MaxLosses = 1
    FreeTime = 2
INVARIANTS
    TypeOK
PROPERTIES
    ProbeSpacing
    Recovers
