---------------------------- MODULE ScannerSuite ----------------------------
(***************************************************************************)
(* One symbol of a scan: its snapshot is built, a scanner of the registry  *)
(* answers on it, and build_signal turns the answer into a signal under    *)
(* the edge records and the regime of the moment.                          *)
(***************************************************************************)
EXTENDS PriceScanners, GammaScanners, MarketScanners

CONSTANTS
    Snapshots,      \* for each scanner, the views it may be run on
    Weights,        \* edge weights in ten-thousandths
    EdgeTables,     \* edge weights by regime
    Pivot           \* MirrorImages turns prices into their distance from it

VARIABLES id, view, result, signal
vars == <<id, view, result, signal>>

Nothing  == "nothing"
NoSignal == [side |-> NoSide, weight |-> 0, gated |-> FALSE, plan |-> NoPlan]

(* The registry.                                                           *)
PriceIds == {"mtf_structure", "key_levels", "anchored_vwap", "opening_range", "gap_scan",
    "liquidity_sweep", "short_trap", "long_trap", "breakout_quality", "trend_exhaustion",
    "momentum_ignition", "failed_move", "bigger_move", "reversal_master",
    "pullback_classifier", "volume_profile_poc", "squeeze_compression",
    "accumulation_distribution", "volume_divergence", "low_volume_pullback",
    "volume_dryup_reversal", "rvol_expansion", "volatility_regime", "seasonality",
    "anomaly_detection", "regime_classification", "custom_rule"}
GammaIds == {"spx_gamma_command", "gamma_exposure", "gamma_wall", "gamma_squeeze",
    "expected_move", "pin_magnet", "max_pain_oi", "skew_term", "charm_vanna",
    "options_flow", "dealer_hedge_flow", "broken_wing_butterfly"}
BreadthIds == {"market_breadth", "arms_trin", "pct_above_ma", "nh_nl"}
PeerIds == {"vix_tail_risk", "index_divergence", "cross_asset_risk",
            "sector_rotation", "macro_regime"}
OtherIds == {"mcclellan", "zweig_thrust", "put_call_ratio", "vix_term_structure",
    "risk_appetite", "absorption_ratio", "insider_congress_flow", "earnings_guidance",
    "catalyst_news"}
ScannerIds == PriceIds \cup GammaIds \cup BreadthIds \cup PeerIds \cup OtherIds

(* IF and not CASE, which the proofs could not follow.                     *)
ScanPrice(i, x) ==
    IF i = "mtf_structure" THEN MtfStructure(x)
    ELSE IF i = "key_levels" THEN KeyLevel(x)
    ELSE IF i = "anchored_vwap" THEN AnchoredVwap(x)
    ELSE IF i = "opening_range" THEN OpeningRange(x)
    ELSE IF i = "gap_scan" THEN Gap(x)
    ELSE IF i = "liquidity_sweep" THEN LiquiditySweep(x)
    ELSE IF i = "short_trap" THEN ShortTrap(x)
    ELSE IF i = "long_trap" THEN LongTrap(x)
    ELSE IF i = "breakout_quality" THEN BreakoutQuality(x)
    ELSE IF i = "trend_exhaustion" THEN TrendExhaustion(x)
    ELSE IF i = "momentum_ignition" THEN MomentumIgnition(x)
    ELSE IF i = "failed_move" THEN FailedMove(x)
    ELSE IF i = "bigger_move" THEN BiggerMove(x)
    ELSE IF i = "reversal_master" THEN ReversalMaster(x)
    ELSE IF i = "pullback_classifier" THEN PullbackClassifier(x)
    ELSE IF i = "volume_profile_poc" THEN VolumeProfilePoc(x)
    ELSE IF i = "squeeze_compression" THEN SqueezeCompression(x)
    ELSE IF i = "accumulation_distribution" THEN AccumulationDistribution(x)
    ELSE IF i = "volume_divergence" THEN VolumeDivergence(x)
    ELSE IF i = "low_volume_pullback" THEN LowVolumePullback(x)
    ELSE IF i = "volume_dryup_reversal" THEN VolumeDryUpReversal(x)
    ELSE IF i = "rvol_expansion" THEN RvolExpansion(x)
    ELSE IF i = "volatility_regime" THEN VolatilityRegime(x)
    ELSE IF i = "seasonality" THEN Seasonality(x)
    ELSE IF i = "anomaly_detection" THEN AnomalyDetection(x)
    ELSE IF i = "regime_classification" THEN RegimeClassification(x)
    ELSE CustomRule(x)

ScanGamma(i, g) ==
    IF i = "spx_gamma_command" THEN SpxGammaCommand(g)
    ELSE IF i = "gamma_exposure" THEN GammaExposure(g)
    ELSE IF i = "gamma_wall" THEN GammaWall(g)
    ELSE IF i = "gamma_squeeze" THEN GammaSqueeze(g)
    ELSE IF i = "expected_move" THEN ExpectedMove(g)
    ELSE IF i = "pin_magnet" THEN PinMagnet(g)
    ELSE IF i = "max_pain_oi" THEN MaxPain(g)
    ELSE IF i = "skew_term" THEN SkewTerm(g)
    ELSE IF i = "charm_vanna" THEN CharmVanna(g)
    ELSE IF i = "options_flow" THEN OptionsFlow(g)
    ELSE IF i = "dealer_hedge_flow" THEN DealerHedgeFlow(g)
    ELSE BrokenWingButterfly(g)

ScanMarket(i, m) ==
    IF i = "market_breadth" THEN MarketBreadth(m.basket)
    ELSE IF i = "arms_trin" THEN ArmsTrin(m.basket)
    ELSE IF i = "pct_above_ma" THEN PctAboveMa(m.basket)
    ELSE IF i = "nh_nl" THEN NewHighsLows(m.basket)
    ELSE IF i = "mcclellan" THEN McClellan(m)
    ELSE IF i = "zweig_thrust" THEN ZweigThrust(m)
    ELSE IF i = "put_call_ratio" THEN PutCallRatio(m)
    ELSE IF i = "vix_term_structure" THEN VixTermStructure(m)
    ELSE IF i = "risk_appetite" THEN RiskAppetite(m)
    ELSE IF i = "absorption_ratio" THEN AbsorptionRatio(m)
    ELSE IF i = "vix_tail_risk" THEN VixTailRisk(m)
    ELSE IF i = "index_divergence" THEN IndexDivergence(m)
    ELSE IF i = "cross_asset_risk" THEN CrossAssetRisk(m)
    ELSE IF i = "sector_rotation" THEN SectorRotation(m)
    ELSE IF i = "macro_regime" THEN MacroRegime(m)
    ELSE IF i = "insider_congress_flow" THEN InsiderCongress(m)
    ELSE IF i = "earnings_guidance" THEN EarningsGuidance(m)
    ELSE CatalystNews(m)

(* The chains that are looked at: finitely many contracts, listed strikes, *)
(* open interest and quotes that are not negative.  The curve is computed  *)
(* as the total is (_total_gex_at), so at a point of the grid that is the  *)
(* spot the two have one sign.                                             *)
Listed(S) == S \subseteq Int /\ IsFiniteSet(S) /\ NoLevel \notin S
Consistent(g) == g.spot \in DOMAIN g.curve =>
                    /\ g.curve[g.spot] > 0 <=> TotalGex(g) > 0
                    /\ g.curve[g.spot] < 0 <=> TotalGex(g) < 0
ASSUME ChainsAssumption ==
    \A i \in GammaIds : \A g \in Snapshots[i] :
       /\ g.spot \in Int /\ g.straddle \in Nat /\ g.atr \in Nat
       /\ Listed(DOMAIN g.net) /\ \A k \in DOMAIN g.net : g.net[k] \in Int
       /\ Listed(Strikes(g))
       /\ \A k \in Strikes(g) : g.calls[k] \in Nat /\ g.puts[k] \in Nat
       /\ Listed(DOMAIN g.curve)
       /\ \A p \in DOMAIN g.curve : g.curve[p] \in Int
       /\ Consistent(g)

(* The bars that are looked at: the close lies within the bar.             *)
ASSUME BarsAssumption ==
    \A i \in PriceIds : \A x \in Snapshots[i] :
       /\ x.c \in Int /\ x.h \in Int /\ x.l \in Int /\ x.l <= x.c /\ x.c <= x.h
       /\ x.ph \in Int /\ x.pl \in Int /\ x.hi \in Int /\ x.lo \in Int
       /\ x.prev \in Int /\ x.avwap \in Int /\ x.stat \in Int /\ x.atr \in Nat

(* A view of bars, its prices below the price they are reflected at.  The  *)
(* levels of a range come in pairs, and there is a close before the last.  *)
Market       == 1..(Pivot - 1)
MarketOrNone == Market \cup {NoLevel}
Views == [enough : BOOLEAN, o : Market, h : Market, l : Market, c : Market,
          prev : MarketOrNone, ph : Market, pl : Market, rh : Market, rl : Market,
          hi : MarketOrNone, lo : MarketOrNone, poc : MarketOrNone, avwap : Market,
          round : MarketOrNone, atr : Nat, rvol : Nat, dist : Int, stat : Int,
          trend : Int, htf : {"none", "up", "down", "range"}, was : BOOLEAN,
          now : BOOLEAN, held : Nat, failed : Nat, win : Int]
Paired == {"opening_range", "volume_profile_poc"}
ASSUME ViewsAssumption ==
    /\ Pivot \in Int
    /\ \A i \in PriceIds : \A x \in Snapshots[i] :
       /\ x \in Views
       /\ i = "anchored_vwap" => x.prev # NoLevel
       /\ i \in Paired => (x.lo = NoLevel <=> x.hi = NoLevel) /\ x.lo <= x.hi
       /\ i = "volume_profile_poc" => (x.hi = NoLevel => x.poc = NoLevel)

Scan(i, x) == IF i \in PriceIds THEN ScanPrice(i, x)
              ELSE IF i \in GammaIds THEN ScanGamma(i, x) ELSE ScanMarket(i, x)

(* The price of the moment and the ATR that build_signal finds.            *)
PriceOf(i, x) == IF i \in PriceIds THEN x.c
                 ELSE IF i \in GammaIds THEN x.spot ELSE NoLevel
AtrOf(i, x) == IF i \in PriceIds \cup GammaIds THEN x.atr ELSE 0

-----------------------------------------------------------------------------
Init == /\ id = Nothing /\ view = Nothing
        /\ result = Quiet(Nothing)
        /\ signal = NoSignal

Evaluate(i, x) ==
    /\ id = Nothing
    /\ id' = i /\ view' = x
    /\ result' = Scan(i, x)
    /\ UNCHANGED signal

Build(kind, weight, edges, scalp) ==
    /\ id # Nothing /\ signal = NoSignal
    /\ signal' = BuildSignal(id, result, AtrOf(id, view), kind, weight, edges, scalp)
    /\ UNCHANGED <<id, view, result>>

NextSymbol ==
    /\ signal # NoSignal
    /\ id' = Nothing /\ view' = Nothing
    /\ result' = Quiet(Nothing)
    /\ signal' = NoSignal

Next == \/ \E i \in ScannerIds : \E x \in Snapshots[i] : Evaluate(i, x)
        \/ \E kind \in {"trend", "range", "unknown"}, weight \in Weights,
              edges \in EdgeTables, scalp \in BOOLEAN : Build(kind, weight, edges, scalp)
        \/ NextSymbol

Spec == Init /\ [][Next]_vars

-----------------------------------------------------------------------------
(* The shape of an answer and of a signal: a signal without a side of its  *)
(* own is neutral, and a plan has a stop on one side of the entry and two  *)
(* targets, in order, on the other.                                        *)
Ordered(p) == LET s == IF p.side = LONG THEN 1 ELSE -1
              IN  /\ s * p.stop < s * p.entry
                  /\ s * p.entry < s * p.targets[1]
                  /\ s * p.targets[1] < s * p.targets[2]
TypeOK ==
    /\ id \in ScannerIds \cup {Nothing}
    /\ result.triggered \in BOOLEAN /\ result.side \in Sides
    /\ result.rule.cmp \in {"lt", "gt", "crosses", "none"}
    /\ \/ signal = NoSignal
       \/ ( /\ signal.side \in Sides \ {NoSide}
            /\ (signal.plan = NoPlan \/ Ordered(signal.plan)))

(* A directional answer is not already wrong: at the price it was given    *)
(* its own invalidation rule does not hold, and the spot lies within the   *)
(* wings of the butterfly.  Of mtf_structure this is claimed when the last *)
(* swing low is not above the last swing high; volume_profile_poc is left  *)
(* out (see AliveAtBirth).  The strikes of a butterfly are rounded: with   *)
(* an expected move of more than one and less than one and a half dollars  *)
(* the spot may lie outside the near wing, by less than a quarter.         *)
OrderedSwings == view.lo = NoLevel \/ view.hi = NoLevel \/ view.lo <= view.hi
Wings == LET b == Butterfly(view)
         IN  IF LeansUp(view) THEN [from |-> b.near, to |-> b.far]
             ELSE [from |-> b.far, to |-> b.near]
SpotInsideWings == Wings.from <= view.spot /\ view.spot <= Wings.to
SpotNearWing ==
    /\ Dollar < view.straddle /\ 2 * view.straddle < 3 * Dollar
    /\ 4 * Abs(Butterfly(view).near - view.spot) < Dollar
InvalidationAhead ==
    Directional(result) /\ id # "volume_profile_poc" =>
        /\ Hit(result.rule, PriceOf(id, view)) => id = "mtf_structure" /\ ~OrderedSwings
        /\ id = "broken_wing_butterfly" => SpotInsideWings \/ SpotNearWing

(* As the texts have it ("Close back inside value", "Close back beyond the *)
(* broken swing", "Price exits the profitable wing band"), no answer is    *)
(* born invalidated, volume_profile_poc's included.                        *)
AliveAtBirth ==
    Directional(result) =>
        /\ ~Hit(result.rule, PriceOf(id, view))
        /\ id = "broken_wing_butterfly" => SpotInsideWings

(* Turning every price upside down turns LONG into SHORT, the lows of a    *)
(* rule into highs, and nothing else: no copied branch kept a sign of the  *)
(* other.  Bars that fit both branches of a scanner are excepted, of which *)
(* the code takes the first.  Left out: breakout_quality has one side,     *)
(* custom_rule is the user's, and the short side of low_volume_pullback    *)
(* looks at no structure.                                                  *)
Flipped(price) == IF price = NoLevel THEN NoLevel ELSE Pivot - price
Unsigned == {"volume_divergence", "volatility_regime"}
UpsideDown(i, x) ==
    [x EXCEPT !.o = Flipped(@), !.c = Flipped(@), !.h = Flipped(x.l), !.l = Flipped(x.h),
              !.ph = Flipped(x.pl), !.pl = Flipped(x.ph),
              !.rh = Flipped(x.rl), !.rl = Flipped(x.rh),
              !.hi = Flipped(x.lo), !.lo = Flipped(x.hi),
              !.prev = Flipped(@), !.poc = Flipped(@), !.avwap = Flipped(@),
              !.round = Flipped(@), !.dist = -@,
              !.stat = IF i \in Unsigned THEN @ ELSE -@,
              !.trend = -@,
              !.htf = IF @ = "up" THEN "down" ELSE IF @ = "down" THEN "up" ELSE @]
UpsideDownRule(rule) ==
    [level |-> Flipped(rule.level),
     cmp |-> IF rule.cmp = "lt" THEN "gt" ELSE IF rule.cmp = "gt" THEN "lt" ELSE rule.cmp]
Twin(i) == IF i = "short_trap" THEN "long_trap"
           ELSE IF i = "long_trap" THEN "short_trap" ELSE i
BothBranches(i, x) ==
    \/ i \in {"momentum_ignition", "rvol_expansion", "volume_divergence"} /\ x.o = x.c
    \/ i = "liquidity_sweep" /\ x.l < x.pl /\ x.pl < x.c /\ x.c < x.ph /\ x.ph < x.h
    \/ i = "failed_move" /\ x.rl < x.pl /\ x.pl < x.c /\ x.c < x.ph /\ x.ph < x.rh
    \/ i = "mtf_structure" /\ NoLevel # x.hi /\ x.hi < x.c /\ x.c < x.lo
    \/ i = "key_levels" /\ 5 * Abs(x.c - x.ph) <= 2 * x.atr
                        /\ 5 * Abs(x.c - x.pl) <= 2 * x.atr
Mirrors(r, m) ==
    /\ m.triggered = r.triggered
    /\ m.side = Opposite(r.side)
    /\ Directional(r) => m.rule = UpsideDownRule(r.rule)
OneSided == {"breakout_quality", "custom_rule", "low_volume_pullback"}
MirrorImages ==
    id \in PriceIds \ OneSided /\ ~BothBranches(id, view) =>
        Mirrors(result, Scan(Twin(id), UpsideDown(id, view)))

(* Of a chain whose exposure rises with the price (at the spot it is the   *)
(* total), spx_gamma_command, which compares the spot with the flip, and   *)
(* the other gamma scanners, which take the sign of the total, name the    *)
(* same regime.  Between the two points of the grid around the flip they   *)
(* may not: there the exposure is drawn as a straight line.                *)
Rising(g) ==
    \A p \in DOMAIN g.curve :
        /\ \A q \in DOMAIN g.curve : p < q => g.curve[p] < g.curve[q]
        /\ p < g.spot => g.curve[p] < TotalGex(g)
        /\ g.spot < p => TotalGex(g) < g.curve[p]
NextToFlip(g) ==
    \E p, q \in DOMAIN g.curve :
        /\ p < g.spot /\ g.spot < q
        /\ g.curve[p] < 0 /\ 0 < g.curve[q]
        /\ \A x \in DOMAIN g.curve : x <= p \/ q <= x
RegimesAgree ==
    id \in GammaIds /\ ~NoProfile(view) /\ Rising(view) /\ ~NextToFlip(view)
        => (SpxPositive(view) <=> PositiveRegime(view))

(* The walls are taken around the spot of the moment, so no spot is ever   *)
(* beyond a wall, and no squeeze is ever called.                           *)
Squeezes == {"gamma_squeeze", "gamma_squeeze_up", "gamma_squeeze_down"}
WallsBracketSpot ==
    id \in GammaIds =>
        /\ CallWall(view) # NoLevel => view.spot <= CallWall(view)
        /\ PutWall(view)  # NoLevel => PutWall(view) < view.spot
        /\ result.cls \notin Squeezes

(* As its description has it: when the spot has crossed a wall it stood    *)
(* within, in negative gamma, gamma_squeeze says so.                       *)
BreachIsCalled ==
    id = "gamma_squeeze" /\ ~NoProfile(view) /\ ~PositiveRegime(view) =>
        \A was \in DOMAIN view.curve :
            LET wall == CallWall([view EXCEPT !.spot = was])
            IN  wall # NoLevel /\ wall < view.spot => result.triggered

(* The strike of max pain balances the chain: below it the open calls are  *)
(* outweighed by the puts at or above it, and at it no longer.             *)
MaxPainBalances ==
    id = "max_pain_oi" /\ ~NoChain(view) =>
        LET m == MaxPainStrike(view)
            CallsTo(s) == SumOver(view.calls, {k \in Strikes(view) : k <= s})
            PutsPast(s) == SumOver(view.puts, {k \in Strikes(view) : k > s})
        IN  /\ \A s \in Strikes(view) : s < m => CallsTo(s) < PutsPast(s)
            /\ m # Greatest(Strikes(view)) => CallsTo(m) >= PutsPast(m)

(* As the module says of itself: a scanner of other symbols whose needed   *)
(* peers are absent stands aside.                                          *)
PeersOrNoTrade ==
    id \in PeerIds /\ view.spy = Missing /\ view.tlt = Missing /\ view.vix = Missing
        /\ view.sectors = <<>> => ~result.triggered
=============================================================================
