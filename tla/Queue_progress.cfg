SPECIFICATION FairQueueSpec
CONSTANTS
    N = 4
    Broken <- MCBroken
    Runs = 2
    MaxSteps = 2
    Lease = 5
    MaxRun = 2
    Waits <- MCWaits
    MaxFaults = 1
    Batches <- MCBatches
INVARIANTS
    HoldUpIsBounded
PROPERTIES
    HealthyCampaignsSettle
