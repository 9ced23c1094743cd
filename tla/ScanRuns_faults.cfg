SPECIFICATION FairSpec
CONSTANTS
    r1 = r1
    r2 = r2
    Runs <- OneRun
    N = 1
    MaxTries = 2
    Faults <- AllFaults
INVARIANTS TypeOK DoneIsComplete RowsInWhole NoRunForgotten FieldsTellReruns
PROPERTY RunsSettle
CHECK_DEADLOCK FALSE
