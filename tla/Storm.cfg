CONSTANTS
    Workers = {w1, w2}
    Chunks = {c1}
    Summaries = {}
    Ingesters = {w1, w2}
    Collectors = {w1, w2}
    Reconcilers = {w1, w2}
    Purgers = {w1, w2}
    MissingRaises = TRUE
    Retain = 1
    MaxAttempts = 1
    MaxIngests = 2
    MaxUpkeep = 1
    MaxErrors = 0
    MaxAborts = 0
    MaxLosses = 0
SPECIFICATION FairSpec
INVARIANT StagedNeverSearchable
PROPERTY RequestsEnd
CHECK_DEADLOCK FALSE
