CONSTANTS
    r1 = r1
    r2 = r2
    r3 = r3
    Shas = {r1, r2, r3}
    NoSha = NoSha
    Keep = 1
    MaxOps = 6
SYMMETRY Symmetric
SPECIFICATION Spec
INVARIANTS
    CurrentIsDeployable
    SettledServesCurrent
    FreshRollbackTarget
