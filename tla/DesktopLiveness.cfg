SPECIFICATION FairSpec
CONSTANTS
    p1 = p1
    w1 = w1
    w2 = w2
    rec = rec
    NoRun = NoRun
    Project <- OneProject
    Worker <- OneSlot
    Interrupter <- SlotInterrupters
    Recoverer = rec
    MaxRuns = 3
    MaxFaults = 0
    MaxStops = 1
    MaxCrashes = 0
INVARIANT
    QuietProjectsAreSettled
PROPERTIES
    EverythingSettles
    ImplementsOwnership
