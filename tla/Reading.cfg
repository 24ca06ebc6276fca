CONSTANTS
    Versions = {1, 2}
    Chunks = {0, 1}
    Sections = {0, 1}
    Sources <- MCSources
    Coverage <- MCCoverage
    Full = 2
    Alike <- MCAlike
    Reach = 1
    K = 60
    TopK = 1
    TopA = 3
    TopB = 2
SPECIFICATION Spec
INVARIANTS EvidenceMatches AnchorsLeadToPublished FusionIsFair
PROPERTY AnswersAreOffered
VIEW ReadingView
CHECK_DEADLOCK FALSE
