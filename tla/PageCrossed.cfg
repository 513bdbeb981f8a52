SPECIFICATION FairSpec
CONSTANTS
    Ids = {m}
    MaxVersion = 3
    Unreadable = {}
    MaxRestarts = 0
    Pages = {1, 2}
    TopicOf <- Topics
    Every = every
    MaxCasts = 2
    Dropping = {1}
    MaxDrops = 1
    m = m
PROPERTY PageConverges
CHECK_DEADLOCK FALSE
