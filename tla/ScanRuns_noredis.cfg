SPECIFICATION Spec
CONSTANTS
    r1 = r1
    r2 = r2
    Runs <- OneRun
    N = 1
    MaxTries = 1
    Faults <- RedisOnly
INVARIANT InlineWorksWithoutRedis
CHECK_DEADLOCK FALSE
