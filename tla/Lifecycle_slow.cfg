SPECIFICATION Spec
CONSTANTS
    w1 = w1
    w2 = w2
    Workers = {w1, w2}
    NoWorker = NoWorker
    GenerationLimit = 2
    StageLimit = 3
    ShortBudget = 2
    LongBudget = 2
    Duration = 1
    Delay = 1
    PrepareTicks = 1
    MaxClock = 9
    MaxFaults = 2
    LeaseOutlivesStep = FALSE
SYMMETRY Symmetry
INVARIANTS
    GenerationBound
PROPERTIES
    RetryResumesWhereItStopped
    FollowsStageOrder
CHECK_DEADLOCK FALSE
