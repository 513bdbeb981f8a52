SPECIFICATION FairSpec
CONSTANTS
    Ids = {m}
    MaxVersion = 3
    Unreadable = {}
    MaxRestarts = 1
    Pages = {1, 9}
    TopicOf <- Topics
    Every = every
    MaxCasts = 2
    Dropping = {9}
    MaxDrops = 1
    m = m
INVARIANTS
    TypeOK
    SavedSurvives
    PushedIsSaved
PROPERTIES
    PageConverges
CHECK_DEADLOCK FALSE
