CONSTANTS
    Writers = {w1, w2, w3}
    Tenants = {t1, t2}
    Payloads = {p1, p2}
    MaxAppends = 4
SPECIFICATION Spec
INVARIANTS LinksHold NoFork SkippedAreRestarts FailuresComeWithGaps GapFreeAnchorsCommit
SYMMETRY AuditSymmetry
CHECK_DEADLOCK FALSE
