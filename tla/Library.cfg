CONSTANTS
    Workers = {w1, w2}
    Contents = {"memo", "report"}
    Size <- MCSize
    KBs = {k1}
    MaxDocs = 1
    MaxBytes = 3
    MaxUploads = 3
    MaxMonths = 2
    MaxFaults = 1
SPECIFICATION Spec
INVARIANTS FilesHaveObjects OvershootBounded UsageNeverOvercounts ParsingIsInProgress
SYMMETRY WorkerSymmetry
VIEW LibraryView
CHECK_DEADLOCK FALSE
