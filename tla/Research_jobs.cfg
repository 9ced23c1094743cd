SPECIFICATION Spec
CONSTANTS
    Scanners <- MCOneScanner
    RosterOrder <- MCOneInOrder
    Symbols = {s1}
    Histories = {"few"}
    TestOf <- MCTestOf
    Backtests = {b1}
    Models = {m1}
    Verdicts = {"reliable", "error"}
    Lifts <- MCLifts
    Replies <- MCReplies
    Universe = 1
    MaxTries = 2
    MaxRosters = 0
    MaxEnsembles = 0
INVARIANTS SettledTellsAll
PROPERTIES ReportsStayPut JobsSettle
CHECK_DEADLOCK FALSE
