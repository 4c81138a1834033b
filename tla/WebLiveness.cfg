SPECIFICATION FairSpec
CONSTANTS
    p1 = p1
    w1 = w1
    w2 = w2
    NoRun = NoRun
    Project <- OneProject
    Worker <- Workers
    Interrupter <- Workers
    MaxRuns = 1
    MaxFaults = 2
    MaxCrashes = 1
PROPERTIES
    ImplementsOwnership
    RunsEnd
