--------------------------- MODULE ScannerResult ---------------------------
(***************************************************************************)
(* What a scanner of engine/engine/scanners answers, and what build_signal *)
(* makes of it.  A result keeps what later decisions look at: whether it   *)
(* triggered, its side and classification, the price it publishes ("close" *)
(* or "spot" in the code's level map) and its invalidation rule.  Scores,  *)
(* evidence items and texts are left out.                                  *)
(***************************************************************************)
EXTENDS Integers, FiniteSets, Sequences

LONG    == "LONG"
SHORT   == "SHORT"
NEUTRAL == "NEUTRAL"
NoSide  == "none"
Sides   == {LONG, SHORT, NEUTRAL, NoSide}

Opposite(side) == CASE side = LONG  -> SHORT
                    [] side = SHORT -> LONG
                    [] OTHER        -> side

Abs(n)      == IF n < 0 THEN -n ELSE n
Least(S)    == CHOOSE n \in S : \A m \in S : n <= m
Greatest(S) == CHOOSE n \in S : \A m \in S : n >= m
(* `value or default`: a missing feature and a zero are the same.          *)
Or(n, default) == IF n = 0 THEN default ELSE n
SideOf(up)  == IF up THEN LONG ELSE SHORT

NoLevel == -1
NoRule  == [level |-> NoLevel, cmp |-> "none"]
Below(level)   == [level |-> level, cmp |-> "lt"]
Above(level)   == [level |-> level, cmp |-> "gt"]
Crosses(level) == [level |-> level, cmp |-> IF level = NoLevel THEN "none" ELSE "crosses"]

(* The rule's condition holds at a price: the thesis is wrong.             *)
Hit(rule, price) == \/ rule.cmp = "lt" /\ price < rule.level
                    \/ rule.cmp = "gt" /\ price > rule.level

Result(triggered, side, cls, price, rule) ==
    [triggered |-> triggered, side |-> side, cls |-> cls, price |-> price,
     rule |-> rule]
Fire(side, cls, price, rule) == Result(TRUE, side, cls, price, rule)
Quiet(cls) == Result(FALSE, NoSide, cls, NoLevel, NoRule)

Directional(r) == r.triggered /\ r.side \in {LONG, SHORT}

(* Classes that build_signal takes for standing aside.                     *)
NoTrade == {"no_trade", "no_flow", "balance", "poc_balance", "inside_value",
            "insufficient_data"}

-----------------------------------------------------------------------------
(* build_signal: the gates and the plan.  Weights are in ten-thousandths,  *)
(* the prices of a plan in quarters.  kind is "trend", "range" or          *)
(* "unknown".                                                              *)
EdgeFloor == 5000

ScannerRegimes(id) == IF id = "mtf_structure" THEN {"trend"} ELSE {"trend", "range"}

RegimeAligned(id, kind) == kind = "unknown" \/ kind \in ScannerRegimes(id)

(* Mutant: the regime is not looked at.                                    *)
EffectiveWeightOverall(weight, edges, kind) == weight

EffectiveWeight(weight, edges, kind) ==
    IF kind \in DOMAIN edges THEN edges[kind] ELSE weight

NoPlan == [side |-> NoSide, entry |-> 0, stop |-> 0, targets |-> <<>>]

BuildPlan(side, entry, atr, scalp) ==
    LET sign == IF side = LONG THEN 1 ELSE -1
        e    == 4 * entry
    IN  [side |-> side, entry |-> e,
         stop |-> e - sign * atr * (IF scalp THEN 3 ELSE 4),
         targets |-> IF scalp THEN <<e + sign * 4 * atr, e + sign * 8 * atr>>
                              ELSE <<e + sign * 6 * atr, e + sign * 12 * atr>>]

(* Mutant: a result without a direction passes it on.                      *)
BuildSignalAsIs(id, r, atr, kind, weight, edges, scalp) ==
    [side |-> r.side, weight |-> EffectiveWeight(weight, edges, kind),
     gated |-> FALSE, plan |-> NoPlan]

BuildSignal(id, r, atr, kind, weight, edges, scalp) ==
    LET standsAside == ~r.triggered \/ r.cls \in NoTrade
        w           == EffectiveWeight(weight, edges, kind)
        retired     == w < EdgeFloor
        gated       == ~standsAside /\ (~RegimeAligned(id, kind) \/ retired)
        planned     == /\ ~standsAside /\ ~gated
                       /\ r.price > 0 /\ atr > 0
                       /\ r.side \in {LONG, SHORT}
    IN  [side |-> IF r.side = NoSide THEN NEUTRAL ELSE r.side, weight |-> w,
         gated |-> gated,
         plan |-> IF planned THEN BuildPlan(r.side, r.price, atr, scalp) ELSE NoPlan]
=============================================================================
