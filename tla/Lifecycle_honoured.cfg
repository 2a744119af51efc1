SPECIFICATION FairSpec
CONSTANTS
    w1 = w1
    w2 = w2
    Workers = {w1, w2}
    NoWorker = NoWorker
    GenerationLimit = 2
    StageLimit = 4
    ShortBudget = 2
    LongBudget = 3
    Duration = 1
    Delay = 1
    PrepareTicks = 1
    MaxClock = 9
    MaxFaults = 3
    LeaseOutlivesStep = TRUE
INVARIANTS
    OneActor
    PausedRunIsQuiet
    CompletedIsSettled
PROPERTIES
    KeepsPromise
    FinalAfterSettlement
    Settles
CHECK_DEADLOCK FALSE
