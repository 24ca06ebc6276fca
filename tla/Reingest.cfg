CONSTANTS
    a = a
    t = t
    r = r
    h = h
    k = k
    Delimiter = Delimiter
    Question = Question
    Continues = {k}
    Replacement = Replacement
    Words <- MCWords
    Documents <- MCDocuments
    Configs <- MCConfigs
    MinTokens = 2
    MinChunks = 2
    WindowTokens = 4
    MaxIngests = 2
    FaultKinds = {"unread", "short", "loss"}
    MaxFaults = 1
SPECIFICATION Spec
INVARIANTS VectorsAreOwn SummariesSupported SummariesSurvive ServedHaveVectors ChunksDivide CharactersKept
CHECK_DEADLOCK FALSE
