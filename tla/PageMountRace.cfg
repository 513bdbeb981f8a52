SPECIFICATION FairSpec
CONSTANTS
    Ids = {m}
    MaxVersion = 3
    Unreadable = {}
    MaxRestarts = 0
    Pages = {1}
    TopicOf <- Topics
    Every = every
    MaxCasts = 2
    Dropping = {}
    MaxDrops = 1
    m = m
PROPERTY OpenPageConverges
CHECK_DEADLOCK FALSE
