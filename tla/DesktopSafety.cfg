SPECIFICATION Spec
CONSTANTS
    p1 = p1
    w1 = w1
    w2 = w2
    rec = rec
    NoRun = NoRun
    Project <- OneProject
    Worker <- Slots
    Interrupter <- Interrupters
    Recoverer = rec
    MaxRuns = 2
    MaxFaults = 1
    MaxStops = 1
    MaxCrashes = 1
SYMMETRY SlotSymmetry
INVARIANTS
    TypeOK
    LockMatchesHolder
    RowsTellTheTruth
    ReleasedMeansNoWork
PROPERTIES
    EndsAreFinal
