SPECIFICATION Spec
CONSTANTS
    Tabs = {t1, t2}
    Modes = {"supabase", "mock", "disabled", "broken"}
    MaxFlows = 2
    MaxChanges = 2
    MaxHops = 3
SYMMETRY Symmetric
INVARIANTS
    WayIsKept
PROPERTIES
    FailureIsTold
    AskedOnlyWithoutSession
CHECK_DEADLOCK FALSE
