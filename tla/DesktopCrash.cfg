SPECIFICATION FairSpec
CONSTANTS
    p1 = p1
    w1 = w1
    w2 = w2
    rec = rec
    NoRun = NoRun
    Project <- OneProject
    Worker <- Slots
    Interrupter <- Interrupters
    Recoverer = rec
    MaxRuns = 1
    MaxFaults = 0
    MaxStops = 0
    MaxCrashes = 1
PROPERTY
    BusyEnds
