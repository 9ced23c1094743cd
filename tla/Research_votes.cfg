SPECIFICATION Spec
CONSTANTS
    Scanners <- MCScanners
    RosterOrder <- MCRosterOrder
    Symbols = {s1, s2}
    Histories = {"luck", "split", "thin"}
    TestOf <- MCTestOf
    Backtests = {}
    Models = {}
    Verdicts = {"reliable", "error"}
    Lifts <- MCLifts
    Replies <- MCReplies
    Universe = 1
    MaxTries = 1
    MaxRosters = 2
    MaxEnsembles = 1
INVARIANTS TypeOK PromotionIsEarned RetiredIsSilent
CHECK_DEADLOCK FALSE
