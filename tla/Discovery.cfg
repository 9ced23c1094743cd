SPECIFICATION Spec
CONSTANTS
    Shapes <- MCShapes
    Odd <- MCOdd
    MaxBars = 8
    K = 1
    MinMove = 3
    MinEvents = 1
    Lessons <- MCLessons
    MaxTurns = 7
INVARIANTS TypeOK PivotsMatter RulesFireOnTheirReason PaidTwice
PROPERTY PivotsStay
CHECK_DEADLOCK FALSE
