CONSTANTS
    w1 = w1
    w2 = w2
    Workers <- MCWorkers
    NoWorker = NoWorker
    Starts <- MCStarts
    Ends <- MCEnds
    DayLength = 8
    Zones <- MCZones
    Lag = 2
    Delay = 2
    Stalls = FALSE
    MaxFaults = 2
    MaxClock = 13
SPECIFICATION Spec
SYMMETRY Symmetry
INVARIANTS
    FinalCountsRun
    CompletedShowsFinal
PROPERTY
    ReportNeverShrinks
CHECK_DEADLOCK FALSE
