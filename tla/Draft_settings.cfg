CONSTANTS
    Workers = {w1, w2}
    NoWorker = nobody
    NoSite = "none"
    Accounts = {"act1", "act2"}
    Sites = {"site1", "site2"}
    Environments <- ManyEnvironments
    ErrorLimit = 1
    StageLimit = 2
SPECIFICATION Spec
INVARIANTS
    DraftIsOfOnePiece
    RunRecordsWhatWasBuilt
    ActiveAccountWasAcknowledged
CHECK_DEADLOCK FALSE
