----------------------------- MODULE MCResearch -----------------------------
(* Small instance of Research: two scanners, of which one can be posted    *)
(* for a backtest, a basket of two symbols, and histories that make a      *)
(* scanner shine, fail, be lucky or split.                                 *)
EXTENDS Research

MCScanners    == {"breakout_quality", "mtf_structure"}
MCRosterOrder == <<"breakout_quality", "mtf_structure">>
MCOneScanner  == {"mtf_structure"}
MCOneInOrder  == <<"mtf_structure">>
MCLifts       == {1000}

T(n, wins, won, lost) == [n |-> n, wins |-> wins, won |-> won, lost |-> lost]
Test(trend, range) == [trend |-> trend, range |-> range]

(* "few" is a handful of trades, "thin" too short for mtf_structure,      *)
(* "luck" has no losing trade, and "split" earns in trends what it loses   *)
(* in ranges.                                                              *)
MCTestOf(scanner, history) ==
    IF history = "few" THEN Test(T(2, 0, 0, 2), T(2, 2, 4, 1))
    ELSE IF history = "luck" THEN Test(T(6, 6, 12, 0), NoTrades)
    ELSE IF history = "split" THEN Test(T(30, 18, 48, 30), T(16, 5, 16, 20))
    ELSE IF scanner = "mtf_structure" THEN NoTest
    ELSE Test(T(24, 4, 6, 20), T(4, 1, 1, 4))

Reply(side, score) == [result |-> Fire(side, "setup", 8, NoRule), score |-> score]
MCReplies == {Reply(LONG, 9), Reply(LONG, 5), Reply(SHORT, 9),
              [result |-> Quiet("no_trade"), score |-> 3]}
=============================================================================
