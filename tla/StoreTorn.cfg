SPECIFICATION FairSpec
CONSTANTS
    Ids = {m}
    MaxVersion = 3
    Unreadable = {}
    MaxRestarts = 1
    Pages = {1}
    TopicOf <- Topics
    Every = every
    MaxCasts = 2
    Dropping = {}
    MaxDrops = 1
    m = m
INVARIANT SavedSurvivesTearing
CHECK_DEADLOCK FALSE
