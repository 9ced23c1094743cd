SPECIFICATION Spec
CONSTANTS
    NumBars = 6
    Warmup = 1
    Prices <- MorePrices
    Atrs <- AtrOrNone
    Sizes <- OneUnit
    StartingEquity = 2
    Commission = 1
    MaxSlip = 1
    StopAtr = 2
    TargetAtr = 4
    BreakevenAtr = 1
    TrailAtr = 2
    TimeStop = 3
    AllowShort = TRUE
    HtfFactor = 2
INVARIANTS TypeOK Bracketed TradesKeepThePlan OneAtATime CurveShowsTrades
PROPERTIES StopNeverLoosens RuinIsFinal
CHECK_DEADLOCK FALSE
