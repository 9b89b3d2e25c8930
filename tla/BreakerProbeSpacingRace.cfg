SPECIFICATION HSpec
CONSTANTS
    t1 = t1
    t2 = t2
    Threads = {t1, t2}
    Readers = {}
    OpenDuration = 1
    WindowDuration = 0
    MinSamples = 1
    RateNum = 1
    RateDen = 2
    MaxProbes = 1
    MaxWindowEntries = 1
    UsizeMod = 8
    MaxInFlight = 2
    MaxFailures = 2
    MaxLosses = 1
    FreeTime = 2
PROPERTIES
    ProbeSpacing
