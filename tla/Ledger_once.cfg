SPECIFICATION Spec
CONSTANTS
    s1 = s1
    s2 = s2
    s3 = s3
    Sessions = {s1, s2, s3}
    NoSession = NoSession
    StepCount = 3
    MaxFaults = 5
SYMMETRY Symmetry
INVARIANTS
    AtMostOnce
    LedgerMatchesMeta
    BuiltOnCheckpoints
PROPERTIES
    KeepsDraftPromise
