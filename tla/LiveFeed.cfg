SPECIFICATION FairSpec
CONSTANTS
    r1 = r1
    N = 2
    Rules <- MCRules
    Matching <- MCMatching
    ListLimit = 2
    BufferLimit = 2
    MaxTries = 3
INVARIANTS TypeOK AlertsFollowRules StreamShowsNewestFirst
PROPERTY PollingCatchesUp
CHECK_DEADLOCK FALSE
