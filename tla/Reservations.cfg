SPECIFICATION Spec
CONSTANTS
    r1 = r1
    r2 = r2
    c1 = c1
    c2 = c2
    c3 = c3
    p1 = p1
    p2 = p2
    Requests = {r1, r2}
    Campaigns = {c1, c2, c3}
    People = {p1, p2}
    None = None
    CampaignMinuteLimit = 1
    GlobalMinuteLimit = 2
    TotalLimit = 1
    Minute = 3
    MaxWait = 1
    MaxClock = 6
SYMMETRY Symmetry
INVARIANTS
    TypeOK
    TotalKept
    GlobalPace
    CampaignPace
