CONSTANTS
    Workers = {w1}
    Chunks = {c1}
    Summaries = {s1}
    Ingesters = {w1}
    Collectors = {w1}
    Reconcilers = {w1}
    Purgers = {w1}
    MissingRaises = TRUE
    Retain = 1
    MaxAttempts = 2
    MaxIngests = 2
    MaxUpkeep = 3
    MaxErrors = 1
    MaxAborts = 1
    MaxLosses = 1
SPECIFICATION Spec
INVARIANTS TypeOK SerialInv OutboxCompletes DeletesNameNoRow
CHECK_DEADLOCK FALSE
