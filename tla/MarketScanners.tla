--------------------------- MODULE MarketScanners ---------------------------
(***************************************************************************)
(* The scanners that look past one symbol's bars: internals_scanners with  *)
(* features/internals, cross_asset, catalyst_scanners and insider_congress.*)
(* None of them publishes a price or a level.                              *)
(***************************************************************************)
EXTENDS ScannerResult, Sums

Lean(triggered, side, cls) == Result(triggered, side, cls, NoLevel, NoRule)
When(triggered, side, cls, other) ==
    IF triggered THEN Lean(TRUE, side, cls) ELSE Quiet(other)

-----------------------------------------------------------------------------
(* Internals over a basket u of constituents, each a record: move, the     *)
(* sign of the last change; volume; above50, "yes", "no" or "short" for a  *)
(* history too short for the average; extreme, 1 at its highest close of   *)
(* the window, -1 at its lowest.  Names that start with ^ are left out.    *)
Movers(u, sign)  == {s \in DOMAIN u : u[s].move = sign}
Volume(u, names) == SumOver([s \in names |-> u[s].volume], names)
NoBreadth(u)     == Cardinality(DOMAIN u) < 5

MarketBreadth(u) ==
    LET n      == Cardinality(DOMAIN u)
        up     == Cardinality(Movers(u, 1))
        vold   == Volume(u, Movers(u, 1)) - Volume(u, Movers(u, -1))
        strong == 20 * up >= 13 * n /\ vold > 0
        weak   == 20 * up <= 7 * n /\ vold < 0
    IN  IF NoBreadth(u) THEN Quiet("no_universe_data")
        ELSE IF strong THEN Lean(TRUE, LONG, "broad_advance")
        ELSE IF weak   THEN Lean(TRUE, SHORT, "broad_decline")
        ELSE Quiet("mixed_breadth")

(* TRIN is (advancers / decliners) / (uvol / dvol), cross-multiplied here; *)
(* without advancing volume there is none.                                 *)
ArmsTrin(u) ==
    LET over  == 10 * Cardinality(Movers(u, 1)) * Volume(u, Movers(u, -1))
        under == Or(Cardinality(Movers(u, -1)), 1) * Volume(u, Movers(u, 1))
    IN  IF NoBreadth(u) \/ Volume(u, Movers(u, 1)) = 0 THEN Quiet("no_universe_data")
        ELSE IF over >= 20 * under THEN Lean(TRUE, LONG, "capitulation")
        ELSE IF over <= 8 * under  THEN Lean(TRUE, LONG, "buying_pressure")
        ELSE IF over >= 12 * under THEN Lean(TRUE, SHORT, "selling_pressure")
        ELSE Quiet("trin_neutral")

PctAboveMa(u) ==
    LET above == Cardinality({s \in DOMAIN u : u[s].above50 = "yes"})
        n     == Cardinality({s \in DOMAIN u : u[s].above50 # "short"})
    IN  IF NoBreadth(u) \/ n = 0 THEN Quiet("no_universe_data")
        ELSE IF 5 * above <= n THEN Lean(TRUE, LONG, "participation_washout")
        ELSE IF 20 * above >= 17 * n THEN Lean(TRUE, SHORT, "participation_euphoria")
        ELSE Lean(FALSE, SideOf(2 * above >= n),
                  IF 2 * above >= n THEN "healthy_participation" ELSE "weak_participation")

NewHighsLows(u) ==
    LET net == Cardinality({s \in DOMAIN u : u[s].extreme = 1})
               - Cardinality({s \in DOMAIN u : u[s].extreme = -1})
    IN  IF NoBreadth(u) THEN Quiet("no_universe_data")
        ELSE When(Abs(net) >= 3, SideOf(net > 0),
                  IF net > 0 THEN "nh_expansion" ELSE "nl_expansion", "nhnl_neutral")

(* osc: the oscillator; enough: forty bars of history.                     *)
McClellan(m) ==
    IF ~m.enough THEN Quiet("no_universe_data")
    ELSE IF m.osc <= -70 THEN Lean(TRUE, LONG, "mcclellan_oversold")
    ELSE IF m.osc >= 70  THEN Lean(TRUE, SHORT, "mcclellan_overbought")
    ELSE Lean(Abs(m.osc) >= 30, SideOf(m.osc > 0),
              IF m.osc > 0 THEN "mcclellan_positive" ELSE "mcclellan_negative")

(* low: the least of the last ten ratios, last: the ratio now (per mille). *)
ZweigThrust(m) ==
    IF ~m.enough THEN Quiet("no_universe_data")
    ELSE When(m.low < 400 /\ m.last > 615, LONG, "breadth_thrust", "no_thrust")

(* puts and calls: the volumes, in tenths of a lot; none is a missing chain*)
PutCallRatio(m) ==
    LET calls == Or(m.calls, 1)
    IN  IF ~m.enough THEN Quiet("no_chain")
        ELSE IF m.calls + m.puts = 0 THEN Quiet("no_volume")
        ELSE IF 5 * m.puts >= 6 * calls THEN Lean(TRUE, LONG, "pc_fear_extreme")
        ELSE When(5 * m.puts <= 3 * calls, SHORT, "pc_greed_extreme", "pc_neutral")

(* vix and vix3m; 0 is a missing series.                                   *)
VixTermStructure(m) ==
    IF m.vix = 0 THEN Quiet("no_vix_data")
    ELSE IF m.vix3m # 0 /\ m.vix > m.vix3m THEN Lean(TRUE, SHORT, "backwardation")
    ELSE When(m.vix3m # 0 /\ 20 * m.vix < 17 * m.vix3m, LONG,
              "steep_contango", "normal_contango")

(* shift: the standardized shift of the absorption ratio, in tenths.       *)
AbsorptionRatio(m) ==
    IF ~m.enough THEN Quiet("no_universe_data")
    ELSE When(m.shift > 10, SHORT, "fragility_warning", "coupling_normal")

(* ratios: the sign of each pair that has both of its series.              *)
RiskAppetite(m) ==
    LET on == Cardinality({i \in DOMAIN m.ratios : m.ratios[i] > 0})
        n  == Len(m.ratios)
    IN  IF n < 2 THEN Quiet("no_ratio_data")
        ELSE Lean(4 * on >= 3 * n \/ 4 * on <= n, SideOf(2 * on >= n),
                  IF 4 * on >= 3 * n THEN "risk_on_broad"
                  ELSE IF 4 * on <= n THEN "risk_off_broad" ELSE "risk_mixed")

-----------------------------------------------------------------------------
(* Peers.  p: what the aux bars say; Missing stands for an absent series.  *)
(* Changes in per cent.                                                    *)
Missing == -99

VixTailRisk(p) ==
    IF p.vix = Missing THEN Quiet("no_vix_data")
    ELSE When(p.vixChange >= 8 \/ (p.vix >= 20 /\ p.vixChange > 0), SHORT,
              "risk_off", "risk_on")

IndexDivergence(p) ==
    LET rs == p.own - p.spy
    IN  IF p.own = Missing \/ p.spy = Missing THEN Quiet("no_peer_data")
        ELSE When(Abs(rs) >= 1, SideOf(rs > 0),
                  IF rs > 0 THEN "outperformance" ELSE "underperformance", "in_line")

SectorRotation(p) ==
    LET up == Cardinality({i \in DOMAIN p.sectors : p.sectors[i] > 0})
        n  == Len(p.sectors)
    IN  IF n < 3 THEN Quiet("no_sector_data")
        ELSE Lean(TRUE, SideOf(2 * up >= n),
                  IF 5 * up >= 3 * n THEN "broad_strength"
                  ELSE IF 5 * up <= 2 * n THEN "broad_weakness" ELSE "mixed_rotation")

MacroRegime(p) ==
    LET tlt == IF p.tlt = Missing THEN 0 ELSE p.tlt
    IN  IF p.vix = Missing \/ p.spy = Missing THEN Quiet("no_macro_data")
        ELSE IF p.vix >= 28 THEN Lean(TRUE, SHORT, "risk_off")
        ELSE IF p.vix <= 15 /\ p.spy > 0 THEN Lean(TRUE, LONG, "liquidity_on")
        ELSE IF tlt < -2 /\ p.spy < 0 THEN Lean(TRUE, SHORT, "tightening")
        ELSE When(p.spy > 0, LONG, "risk_on", "neutral")

(* Equities fall back to the symbol itself; a missing peer gives no point. *)
CrossAssetRisk(p) ==
    LET equities == IF p.spy = Missing THEN p.own ELSE p.spy
        points   == Cardinality(
            {sign \in {"equities up", "bonds down", "VIX falling"} :
               \/ sign = "equities up" /\ equities > 0
               \/ sign = "bonds down"  /\ p.tlt # Missing /\ p.tlt < 0
               \/ sign = "VIX falling" /\ p.vix # Missing /\ p.vixChange < 0})
    IN  IF equities = Missing THEN Quiet("no_data")
        ELSE Lean(TRUE, SideOf(points >= 2), IF points >= 2 THEN "risk_on" ELSE "risk_off")

-----------------------------------------------------------------------------
(* Catalysts.  A report: day, before (-) or after (+) today, and its EPS *)
(* surprise, Missing when one of the two numbers is.                       *)
Upcoming(reports) == {i \in DOMAIN reports : reports[i].day \in 0..5}
Surprises(reports) ==
    {i \in DOMAIN reports : /\ reports[i].day \in -3..0
                            /\ reports[i].surprise \notin {Missing, 0}}
Latest(reports, S) == CHOOSE i \in S : \A j \in S : \/ reports[i].day > reports[j].day
                                                   \/ (reports[i].day = reports[j].day /\ i <= j)

EarningsGuidance(e) ==
    IF e.reports = <<>> THEN Quiet("no_earnings_data")
    ELSE IF Upcoming(e.reports) # {} THEN Lean(TRUE, NoSide, "earnings_event_risk")
    ELSE IF Surprises(e.reports) = {} THEN Quiet("no_event")
    ELSE Lean(TRUE, SideOf(e.reports[Latest(e.reports, Surprises(e.reports))].surprise > 0),
              "post_earnings_drift")

(* The headlines of the window by their word balance; stale: some older.   *)
CatalystNews(n) ==
    LET net == SumOver(n.heads, DOMAIN n.heads)
        pos == Cardinality({i \in DOMAIN n.heads : n.heads[i] > 0})
        neg == Cardinality({i \in DOMAIN n.heads : n.heads[i] < 0})
    IN  IF n.heads = <<>> THEN Quiet(IF n.stale THEN "flow_driven" ELSE "no_news_data")
        ELSE IF net = 0 /\ pos = neg THEN Lean(TRUE, NoSide, "catalyst_mixed")
        ELSE Lean(TRUE, SideOf(net > 0),
                  IF net > 0 THEN "catalyst_bullish" ELSE "catalyst_bearish")

(* Trades of the window by kind and side; a trade of neither side is an    *)
(* event too.  A congress trade weighs one and a half.                     *)
InsiderCongress(t) ==
    LET net    == 2 * (t.insiderBuys - t.insiderSells) + 3 * (t.congressBuys - t.congressSells)
        events == t.insiderBuys + t.insiderSells + t.congressBuys + t.congressSells + t.others
    IN  When(events >= 2 /\ net # 0, SideOf(net > 0),
             IF net > 0 THEN "insider_accumulation" ELSE "insider_distribution", "no_flow")
=============================================================================
