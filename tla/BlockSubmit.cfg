SPECIFICATION FairSpec
CONSTANTS
    Blocks = {b1, b2}
    Handlers = {h1, h2}
    Attempts = 2
    Window = 3
    MaxHistory = 1
    Difficulties = {1}
    MaxShares = 2
    MaxCandidates = 3
INVARIANTS
    TypeOK
    NoConcurrentDuplicate
    OutcomesHaveCandidates
    ClaimsAreMined
    HistoryMatchesTotal
PROPERTIES
    FileNeverGoesBack
    EveryCandidateResolved
