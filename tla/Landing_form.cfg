CONSTANTS
    t1 = t1
    Forms = {t1}
    Browser <- OneBrowser
    Emails = {ann, bob}
    Requests = {q1, q2}
    NoRequest = NoRequest
    MaxTokens = 7
    MaxTroubles = 3
    MaxDay = 1
SPECIFICATION FairPageSpec
INVARIANTS
    ToldIsStored
    OneCheckEach
PROPERTY VisitorIsTold
CHECK_DEADLOCK FALSE
