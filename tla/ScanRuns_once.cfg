SPECIFICATION Spec
CONSTANTS
    r1 = r1
    r2 = r2
    Runs <- OneRun
    N = 3
    MaxTries = 1
    Faults <- AtMostOnce
INVARIANT SentIsKept
PROPERTY ImplementsLifecycle
CHECK_DEADLOCK FALSE
