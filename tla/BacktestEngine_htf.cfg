SPECIFICATION Spec
CONSTANTS
    NumBars = 6
    Warmup = 1
    Prices <- MorePrices
    Atrs <- OneAtr
    Sizes <- OneUnit
    StartingEquity = 2
    Commission = 0
    MaxSlip = 0
    StopAtr = 2
    TargetAtr = 4
    BreakevenAtr = 1
    TrailAtr = 2
    TimeStop = 3
    AllowShort = TRUE
    HtfFactor = 2
INVARIANT HtfIsKnown
CHECK_DEADLOCK FALSE
