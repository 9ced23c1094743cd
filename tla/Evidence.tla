------------------------------ MODULE Evidence ------------------------------
(***************************************************************************)
(* How past trades become weights and weights become a vote: the metrics   *)
(* of a set of trades, the verdict on them, the edge weight a verdict is   *)
(* worth, and the consensus of several scanners.                           *)
(*                                                                         *)
(* Profit factors, rates and weights are in ten-thousandths, to which the  *)
(* code rounds them; scores are in tenths, and money is in units.          *)
(***************************************************************************)
EXTENDS ScannerResult, Sums

Regimes == {"trend", "range"}

(* The trades of one test in one regime: how many, how many won, and the   *)
(* sums won and lost.                                                      *)
Trades   == [n : Nat, wins : Nat, won : Nat, lost : Nat]
NoTrades == [n |-> 0, wins |-> 0, won |-> 0, lost |-> 0]

Both(a, b) == [n |-> a.n + b.n, wins |-> a.wins + b.wins,
               won |-> a.won + b.won, lost |-> a.lost + b.lost]
AllTrades(sample) == Both(sample["trend"], sample["range"])

(* The trades of the samples in S[k], one for each k.                      *)
Pooled(S, regime) ==
    [n    |-> SumOver([k \in DOMAIN S |-> S[k][regime].n], DOMAIN S),
     wins |-> SumOver([k \in DOMAIN S |-> S[k][regime].wins], DOMAIN S),
     won  |-> SumOver([k \in DOMAIN S |-> S[k][regime].won], DOMAIN S),
     lost |-> SumOver([k \in DOMAIN S |-> S[k][regime].lost], DOMAIN S)]
Pool(S) == [regime \in Regimes |-> Pooled(S, regime)]

Unit == 10000

(* round(n / d): the nearest whole number, the upper one of two.           *)
Rounded(n, d) == (2 * n + d) \div (2 * d)

(* compute_metrics: without a losing trade the factor is the sum won.      *)
ProfitFactor(m) == IF m.lost > 0 THEN Rounded(Unit * m.won, m.lost) ELSE Unit * m.won
WinRate(m)      == IF m.n > 0 THEN Rounded(Unit * m.wins, m.n) ELSE 0
Profitable(m)   == m.won > m.lost

-----------------------------------------------------------------------------
(* walkforward._decide.                                                    *)
Decide(m) ==
    IF m.n < 5 THEN "keep_testing"
    ELSE IF ~Profitable(m) \/ ProfitFactor(m) < Unit THEN "retire"
    ELSE IF ProfitFactor(m) >= 13000 /\ WinRate(m) >= 4000 THEN "promote"
    ELSE "keep_testing"

Clamp(low, high, n) == IF n < low THEN low ELSE IF n > high THEN high ELSE n

Retired == 3000
Neutral == Unit
Highest == 25000

(* Mutant: the factor as it is.                                            *)
WeightOfFactor(promotion, factor) ==
    IF promotion = "retire" THEN Retired
    ELSE IF promotion = "promote" THEN factor ELSE Neutral

(* edge_weight_from_walkforward, edge_weight_from_calibrator.              *)
WeightOf(promotion, factor) ==
    IF promotion = "retire" THEN Retired
    ELSE IF promotion = "promote" THEN Clamp(Neutral, Highest, factor)
    ELSE Neutral
WeightOfLift(lift) == Clamp(2500, Highest, Neutral + 4 * lift)

-----------------------------------------------------------------------------
(* roster.blend_forward_tests and roster._regime_edges.                    *)
MinOosTrades == 30

BlendedPromotion(m) == IF m.n < MinOosTrades THEN "keep_testing" ELSE Decide(m)

(* The factors of the tests that traded in the regime: their sum, and how  *)
(* their plain mean compares with a factor.                                *)
Traded(S, regime)    == {k \in DOMAIN S : S[k][regime].n > 0}
FactorSum(S, regime) ==
    SumOver([k \in Traded(S, regime) |-> ProfitFactor(S[k][regime])], Traded(S, regime))
MeanBelow(S, regime, factor) ==
    FactorSum(S, regime) < factor * Cardinality(Traded(S, regime))

(* The mean as it is written down; a regime without a trade has none.      *)
MeanFactor(S, regime) == Rounded(FactorSum(S, regime), Cardinality(Traded(S, regime)))

(* Mutant: the factor decides, whatever was earned.                        *)
RegimePromotionByFactor(S, regime) ==
    IF Pooled(S, regime).n < MinOosTrades THEN "keep_testing"
    ELSE IF ~MeanBelow(S, regime, 13000) THEN "promote"
    ELSE IF MeanBelow(S, regime, Unit) THEN "retire"
    ELSE "keep_testing"

RegimePromotion(S, regime) ==
    IF Pooled(S, regime).n < MinOosTrades THEN "keep_testing"
    ELSE IF ~MeanBelow(S, regime, 13000) /\ Profitable(Pooled(S, regime)) THEN "promote"
    ELSE IF MeanBelow(S, regime, Unit) THEN "retire"
    ELSE "keep_testing"

(* A regime has an entry when some test of the basket traded in it.        *)
RegimeEdges(S) ==
    [regime \in {g \in Regimes : Traded(S, g) # {}} |->
        WeightOf(RegimePromotion(S, regime), MeanFactor(S, regime))]

-----------------------------------------------------------------------------
(* ensemble.combine over answers [id, result, score], weighted by id.      *)
Vote(a, weights) == a.score * weights[a.id]
Votes(answers, weights, side) ==
    LET voters == {a \in answers : a.result.triggered /\ a.result.side = side}
    IN  SumOver([a \in voters |-> Vote(a, weights)], voters)

Action(long, short) ==
    IF long + short = 0 THEN "no_trade"
    ELSE IF 8 * Least({long, short}) > 3 * (long + short) THEN "no_trade"
    ELSE IF 10 * Abs(long - short) < 4 * (long + short) THEN "scalp_only"
    ELSE "trade"

(* Rounded to thousandths.                                                 *)
ConsensusScore(long, short) == 10 * Rounded(1000 * Abs(long - short), long + short)
=============================================================================
