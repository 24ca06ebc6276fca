CONSTANTS
    Workers = {w1, w2}
    Chunks = {c1}
    Summaries = {}
    Ingesters = {w1}
    Collectors = {w2}
    Reconcilers = {w2}
    Purgers = {}
    MissingRaises = FALSE
    Retain = 1
    MaxAttempts = 1
    MaxIngests = 3
    MaxUpkeep = 1
    MaxErrors = 1
    MaxAborts = 0
    MaxLosses = 0
SPECIFICATION Spec
INVARIANTS RetainedRowsPresent OneVersionShown
PROPERTIES FlipOnlyIndexed ActiveNeverRegresses PublishesAtomically
CHECK_DEADLOCK FALSE
