SPECIFICATION Spec
CONSTANTS
    p1 = p1
    w1 = w1
    w2 = w2
    NoRun = NoRun
    Project <- OneProject
    Worker <- Workers
    Interrupter <- Workers
    MaxRuns = 2
    MaxFaults = 1
    MaxCrashes = 0
SYMMETRY WorkerSymmetry
INVARIANTS
    TypeOK
    OneWriterPerProject
    OnlyLatestRunWorks
    WorkIsNeverDeclaredLost
