SPECIFICATION FairSpec
CONSTANTS
    Branches = {b1}
    MaxHeight = 1
    Polls = {p1}
    Loops = {l1}
    NoLoop = NoLoop
    Refresh = FALSE
    RefreshClean = FALSE
PROPERTIES
    FollowsTip
