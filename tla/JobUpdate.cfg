SPECIFICATION FairSpec
CONSTANTS
    Branches = {b1, b2}
    MaxHeight = 2
    Polls = {p1}
    Loops = {l1, l2}
    NoLoop = NoLoop
    Refresh = TRUE
    RefreshClean = FALSE
INVARIANTS
    TypeOK
    SingleGeneration
PROPERTIES
    JobNeverGoesBack
    QueuedCleanHonoured
    FollowsTip
    QueuedUpdateServed
