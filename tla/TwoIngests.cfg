CONSTANTS
    Workers = {w1, w2, w3}
    Chunks = {c1}
    Summaries = {}
    Ingesters = {w1, w2}
    Collectors = {w3}
    Reconcilers = {}
    Purgers = {}
    MissingRaises = TRUE
    Retain = 1
    MaxAttempts = 1
    MaxIngests = 3
    MaxUpkeep = 1
    MaxErrors = 0
    MaxAborts = 0
    MaxLosses = 0
SPECIFICATION Spec
INVARIANT RetainedRowsPresent
CHECK_DEADLOCK FALSE
