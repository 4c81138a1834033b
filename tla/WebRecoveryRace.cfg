SPECIFICATION Spec
CONSTANTS
    p1 = p1
    w1 = w1
    w2 = w2
    NoRun = NoRun
    Project <- OneProject
    Worker <- Workers
    Interrupter <- Workers
    MaxRuns = 1
    MaxFaults = 0
    MaxCrashes = 0
PROPERTY
    InterruptedRunsHaveNoWorker
