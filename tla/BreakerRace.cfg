SPECIFICATION HFairSpec
CONSTANTS
    t1 = t1
    t2 = t2
    Threads = {t1, t2}
    Readers = {}
    OpenDuration = 1
    WindowDuration = 0
    MinSamples = 1
    RateNum = 1
    RateDen = 1
    MaxProbes = 1
    MaxWindowEntries = 2
    UsizeMod = 4
    MaxInFlight = 1
    MaxFailures = 1
    MaxLosses = 1
    FreeTime = 1
INVARIANTS
    WindowCountExact
    MirrorExact
    SlotsBounded
PROPERTIES
    Recovers
    CoolDownKept
    RateTimely
