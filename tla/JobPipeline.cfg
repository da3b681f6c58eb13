SPECIFICATION PipelineSpec
CONSTANTS
    Branches = {b1}
    MaxHeight = 1
    Polls = {p1}
    Loops = {l1}
    NoLoop = NoLoop
    Refresh = TRUE
    RefreshClean = FALSE
    Clients = {c1, c2}
    MaxJobs = 2
    MaxJobId = 3
    MaxResends = 1
SYMMETRY Symmetry
INVARIANTS
    JobsAtCurrentHeight
    RetentionExact
    PipelineTypeOK
    MinersOnLastJob
PROPERTIES
    NotifyNeverOlder
    FeedSpec
