---------------------------- MODULE MCDiscovery ----------------------------
(* Small instance of Discovery: four shapes of bars, two of them after a   *)
(* gap down, each with evidence of its own.                                *)
EXTENDS Discovery

Row(rsi, dist, bb, rvol, ret, obv, range) ==
    [rsi |-> rsi, dist |-> dist, bb |-> bb, rvol |-> rvol, ret |-> ret, obv |-> obv,
     range |-> range]
Shape(high, low, row) == [high |-> high, low |-> low, row |-> row]

Plain == Row(50, 0, 50, 100, 0, 0, 100)
Flush == Row(25, -150, 4, 210, -2, 1, 170)
Rush  == Row(70, 160, 97, 200, 2, -1, 100)
Coil  == Row(31, -20, 30, 45, 0, 0, 40)

MCShapes == {Shape(9, 8, Rush), Shape(8, 7, Plain), Shape(4, 3, Coil), Shape(4, 2, Flush)}
MCLessons == {[move |-> 1, row |-> Plain], [move |-> 3, row |-> Flush],
              [move |-> 1, row |-> Flush], [move |-> 1, row |-> Coil],
              [move |-> 3, row |-> Rush]}
MCOdd    == Shape(8, 7, Plain)
=============================================================================
