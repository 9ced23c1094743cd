--------------------------- MODULE PriceScanners ---------------------------
(***************************************************************************)
(* The scanners that read bars and the features of one symbol:             *)
(* price_action, levels_scanners, volume_scanners, reversal_pullback,      *)
(* volume_profile_poc, mtf_structure, custom_rule, regime and ml_scanners. *)
(* One operator per run method, with its default parameters.               *)
(*                                                                         *)
(* The view x of a snapshot: last bar o h l c, the close before it prev,   *)
(* the extremes ph pl of the lookback and rh rl of the last three bars,    *)
(* session and profile levels (NoLevel if absent), atr, rvol in tenths and *)
(* dist (from VWAP, in tenths of an ATR), where 0 is also `missing`; stat  *)
(* is the scanner's own signed statistic in the unit of its threshold.     *)
(***************************************************************************)
EXTENDS ScannerResult

LiquiditySweep(x) ==
    IF ~x.enough \/ x.atr = 0 THEN Quiet("insufficient_data")
    ELSE IF x.l < x.pl /\ x.c > x.pl THEN Fire(LONG, "sweep_long", x.c, Below(x.l))
    ELSE IF x.h > x.ph /\ x.c < x.ph THEN Fire(SHORT, "sweep_short", x.c, Above(x.h))
    ELSE Quiet("no_sweep")

(* The level is the value area's edge, else the swing, else the lookback.  *)
ShortTrap(x) ==
    LET level == IF x.lo # NoLevel THEN x.lo ELSE x.pl
    IN  IF ~x.enough \/ x.atr = 0 THEN Quiet("insufficient_data")
        ELSE IF x.rl < level /\ x.c > level
             THEN Fire(LONG, "short_trap_long", x.c, Below(level))
             ELSE Quiet("no_trap")

LongTrap(x) ==
    LET level == IF x.hi # NoLevel THEN x.hi ELSE x.ph
    IN  IF ~x.enough \/ x.atr = 0 THEN Quiet("insufficient_data")
        ELSE IF x.rh > level /\ x.c < level
             THEN Fire(SHORT, "long_trap_short", x.c, Above(level))
             ELSE Quiet("no_trap")

(* The grade, in thousandths, is at least so much: 300, up to 300 for the  *)
(* volume, and 200 each for the close's place in the bar and the bar's     *)
(* range, the last two multiplied out.                                     *)
BreakoutReaches(x, grade) ==
    LET rng    == x.h - x.l
        span   == IF rng > 0 THEN rng ELSE 2
        place  == IF rng > 0 THEN x.c - x.l ELSE 1
        capped == Least({Or(x.rvol, 10), 20})
    IN  (grade - 300 - 15 * capped) * 3 * x.atr * span
          <= 200 * (place * 3 * x.atr + Least({2 * rng, 3 * x.atr}) * span)

BreakoutQuality(x) ==
    IF ~x.enough \/ x.atr = 0 THEN Quiet("insufficient_data")
    ELSE IF x.c > x.ph
         THEN Result(BreakoutReaches(x, 500), LONG,
                     IF BreakoutReaches(x, 700) THEN "breakout_strong" ELSE "breakout_weak",
                     x.c, Below(x.ph))
         ELSE Quiet("no_breakout")

TrendExhaustion(x) ==
    IF Abs(x.dist) >= 25
    THEN Fire(SideOf(x.dist < 0), "exhaustion_watch", NoLevel, NoRule)
    ELSE Quiet("no_exhaustion")

MomentumIgnition(x) ==
    IF ~x.enough \/ x.atr = 0 THEN Quiet("insufficient_data")
    ELSE IF /\ x.was /\ ~x.now
            /\ 5 * (x.h - x.l) > 7 * x.atr
            /\ Or(x.rvol, 10) >= 13
         THEN Fire(SideOf(x.c >= x.o), "ignition", NoLevel, NoRule)
         ELSE Quiet("no_ignition")

SqueezeCompression(x) ==
    IF x.enough /\ x.now THEN Fire(NoSide, "squeeze_on", NoLevel, NoRule)
                         ELSE Quiet("no_squeeze")

FailedMove(x) ==
    IF ~x.enough THEN Quiet("insufficient_data")
    ELSE IF x.rh > x.ph /\ x.c < x.ph THEN Fire(SHORT, "failed_breakout", x.c, Above(x.ph))
    ELSE IF x.rl < x.pl /\ x.c > x.pl THEN Fire(LONG, "failed_breakdown", x.c, Below(x.pl))
    ELSE Quiet("no_failure")

BiggerMove(x) ==
    IF x.enough /\ Abs(x.stat) >= 25
    THEN Fire(SideOf(x.stat > 0), "abnormal_move", NoLevel, NoRule)
    ELSE Quiet("normal_move")

-----------------------------------------------------------------------------
(* Levels.  The first candidate near the close decides.                    *)
KeyLevel(x) ==
    LET levels == << <<SHORT, x.ph>>, <<LONG, x.pl>>,
                     <<NEUTRAL, x.prev>>, <<NEUTRAL, x.round>> >>
        near   == {n \in 1..4 : /\ levels[n][2] # NoLevel
                                /\ 5 * Abs(x.c - levels[n][2]) <= 2 * x.atr}
        first  == levels[Least(near)]
    IN  IF x.atr = 0 THEN Quiet("insufficient_data")
        ELSE IF near = {} THEN Quiet("no_level_reaction")
        ELSE Fire(first[1], "at_level", x.c, [level |-> first[2], cmp |-> "none"])

(* Mutant: the failure keeps the rule of the reclaim.                      *)
AnchoredVwapCopied(x) ==
    IF ~x.enough \/ x.atr = 0 THEN Quiet("insufficient_data")
    ELSE IF x.prev < x.avwap /\ x.avwap <= x.c
         THEN Fire(LONG, "avwap_reclaim", x.c, Below(x.avwap))
    ELSE IF x.prev > x.avwap /\ x.avwap >= x.c
         THEN Fire(SHORT, "avwap_fail", x.c, Below(x.avwap))
    ELSE Quiet("away_from_avwap")

AnchoredVwap(x) ==
    IF ~x.enough \/ x.atr = 0 THEN Quiet("insufficient_data")
    ELSE IF x.prev < x.avwap /\ x.avwap <= x.c
         THEN Fire(LONG, "avwap_reclaim", x.c, Below(x.avwap))
    ELSE IF x.prev > x.avwap /\ x.avwap >= x.c
         THEN Fire(SHORT, "avwap_fail", x.c, Above(x.avwap))
    ELSE IF 5 * Abs(x.c - x.avwap) <= 2 * x.atr
         THEN Result(FALSE, NoSide, "avwap_test", x.c, NoRule)
    ELSE Quiet("away_from_avwap")

OpeningRange(x) ==
    IF ~x.enough \/ x.hi = NoLevel THEN Quiet("insufficient_data")
    ELSE IF x.c > x.hi THEN Fire(LONG, "orb_long", x.c, Below(x.hi))
    ELSE IF x.c < x.lo THEN Fire(SHORT, "orb_short", x.c, Above(x.lo))
    ELSE Quiet("inside_range")

(* stat is the sign of a gap of at least min_gap_pct; 0 is no gap.         *)
Gap(x) ==
    LET filled == \/ x.stat > 0 /\ x.c <= x.prev
                  \/ x.stat < 0 /\ x.c >= x.prev
    IN  IF x.prev = NoLevel THEN Quiet("insufficient_data")
        ELSE IF x.stat = 0 THEN Quiet("no_gap")
        ELSE IF filled THEN Fire(SideOf(x.stat < 0), "gap_fill", x.c, NoRule)
        ELSE Fire(SideOf(x.stat > 0), "gap_and_go", x.c,
                  IF x.stat > 0 THEN Below(x.prev) ELSE Above(x.prev))

-----------------------------------------------------------------------------
(* Volume and the auction.                                                 *)
AccumulationDistribution(x) ==
    IF x.enough /\ Abs(x.stat) > 5
    THEN Fire(SideOf(x.stat > 0), "drift", NoLevel, NoRule)
    ELSE Quiet("neutral_flow")

VolumeDivergence(x) ==
    IF x.enough /\ x.stat >= 20 /\ Or(x.rvol, 10) >= 13
    THEN Fire(SideOf(x.c < x.o), "absorption", NoLevel, NoRule)
    ELSE Quiet("no_divergence")

(* Only the long side looks at the structure it must hold.                 *)
LowVolumePullback(x) ==
    IF ~x.enough \/ ~x.now THEN Quiet("no_setup")
    ELSE IF x.trend > 0 /\ (x.lo = NoLevel \/ x.c > x.lo)
         THEN Fire(LONG, "pullback_continuation_long", NoLevel,
                   IF x.lo = NoLevel THEN NoRule ELSE Below(x.lo))
    ELSE IF x.trend < 0 THEN Fire(SHORT, "pullback_continuation_short", NoLevel, NoRule)
    ELSE Quiet("no_setup")

VolumeDryUpReversal(x) ==
    IF x.enough /\ x.now /\ Abs(x.dist) >= 20
    THEN Fire(SideOf(x.dist < 0), "dryup_watch", NoLevel, NoRule)
    ELSE Quiet("no_dryup")

RvolExpansion(x) ==
    IF x.rvol >= 20 THEN Fire(SideOf(x.c >= x.o), "rvol_expansion", NoLevel, NoRule)
                    ELSE Quiet("normal_volume")

VolumeProfilePoc(x) ==
    LET accepted == x.rvol >= 12
        outside  == x.c > x.hi \/ x.c < x.lo
        side == IF ~outside THEN NoSide
                ELSE IF x.c > x.hi THEN SideOf(accepted) ELSE SideOf(~accepted)
        cls  == IF outside THEN "edge_of_value"
                ELSE IF 5 * Abs(x.c - x.poc) <= x.hi - x.lo THEN "poc_balance"
                ELSE "inside_value"
    IN  IF x.poc = NoLevel THEN Quiet("insufficient_data")
        ELSE Result(outside, side, cls, x.c,
                    IF side = LONG THEN Below(x.lo) ELSE Above(x.hi))

-----------------------------------------------------------------------------
(* Reversals, structure and rules.                                         *)
(* Mutant: the lower tail is measured from the top of the body.            *)
ReversalMasterFromTop(x) ==
    LET rng   == x.h - x.l
        upper == x.h - Greatest({x.o, x.c})
        lower == Greatest({x.o, x.c}) - x.l
    IN  IF ~x.enough \/ rng = 0 \/ x.rvol < 15 THEN Quiet("no_reversal")
        ELSE IF x.dist >= 20 /\ 2 * upper >= rng THEN Fire(SHORT, "top", x.c, Above(x.h))
        ELSE IF x.dist <= -20 /\ 2 * lower >= rng THEN Fire(LONG, "bottom", x.c, Below(x.l))
        ELSE Quiet("no_reversal")
ReversalMaster(x) ==
    LET rng   == x.h - x.l
        upper == x.h - Greatest({x.o, x.c})
        lower == Least({x.o, x.c}) - x.l
    IN  IF ~x.enough \/ rng = 0 \/ x.rvol < 15 THEN Quiet("no_reversal")
        ELSE IF x.dist >= 20 /\ 2 * upper >= rng THEN Fire(SHORT, "top", x.c, Above(x.h))
        ELSE IF x.dist <= -20 /\ 2 * lower >= rng THEN Fire(LONG, "bottom", x.c, Below(x.l))
        ELSE Quiet("no_reversal")

PullbackReason(x) ==
    IF x.poc # NoLevel /\ 5 * Abs(x.c - x.poc) <= 2 * x.atr THEN "value_retest"
    ELSE IF Or(x.rvol, 10) < 8  THEN "low_volume_pullback"
    ELSE IF Or(x.rvol, 10) > 15 THEN "distribution_risk"
    ELSE "profit_taking"

PullbackClassifier(x) ==
    LET on == PullbackReason(x) \in {"value_retest", "low_volume_pullback"}
    IN  IF ~x.enough \/ x.trend = 0 THEN Quiet("no_trend")
        ELSE Result(on, IF on THEN SideOf(x.trend > 0) ELSE NoSide,
                    PullbackReason(x), NoLevel, NoRule)

(* classify_structure: the close against the last swings hi and lo.        *)
BreakOfStructure(x) == IF x.hi # NoLevel /\ x.c > x.hi THEN 1
                       ELSE IF x.lo # NoLevel /\ x.c < x.lo THEN -1 ELSE 0
ChangeOfCharacter(x) ==
    IF BreakOfStructure(x) * x.trend < 0 THEN BreakOfStructure(x) ELSE 0

(* htf is the trend of the higher timeframe, None without its bars.        *)
MtfStructure(x) ==
    LET bos   == BreakOfStructure(x)
        htf   == IF x.htf = "none" THEN x.trend
                 ELSE IF x.htf = "up" THEN 1 ELSE IF x.htf = "down" THEN -1 ELSE 0
        on    == htf # 0 /\ bos = htf
        watch == ~on /\ ChangeOfCharacter(x) # 0
        side  == IF on \/ watch THEN SideOf(bos > 0) ELSE NoSide
        level == IF side = LONG THEN x.lo ELSE x.hi
    IN  IF ~x.enough THEN Quiet("insufficient_data")
        ELSE Result(on, side, IF on THEN "continuation"
                              ELSE IF watch THEN "reversal_watch" ELSE "no_trade",
                    x.c, IF level = NoLevel THEN NoRule
                         ELSE IF side = LONG THEN Below(level) ELSE Above(level))

(* held and failed count the conditions of the user's rule, now its side.  *)
CustomRule(x) ==
    IF x.held + x.failed = 0 \/ ~x.enough THEN Quiet("no_conditions")
    ELSE LET on == x.held > 0 /\ x.failed = 0
         IN  Result(on, IF on THEN SideOf(x.now) ELSE NoSide,
                    IF on THEN "rule_hit" ELSE "rule_miss", NoLevel, NoRule)

(* stat is the mean return in tenths of its deviation, win in hundredths.  *)
Seasonality(x) ==
    LET on == 2 * Abs(x.stat) >= 3 /\ Abs(x.win - 50) >= 8
    IN  IF ~x.enough THEN Quiet("insufficient_samples")
        ELSE Result(on, IF on THEN SideOf(x.stat > 0) ELSE NoSide,
                    IF on THEN "seasonal_edge" ELSE "no_edge", NoLevel, NoRule)

(* stat is the forward bias of the regime in thousandths.                  *)
RegimeClassification(x) ==
    LET on == x.enough /\ Abs(x.stat) >= 2 /\ Abs(x.win - 50) >= 6
    IN  Result(on, IF on THEN SideOf(x.stat > 0) ELSE NoSide, "regime",
               NoLevel, NoRule)

AnomalyDetection(x) ==
    IF x.enough /\ x.now THEN Fire(NoSide, "anomaly", NoLevel, NoRule)
                         ELSE Quiet("normal")

(* stat is the percentile of realized volatility.                          *)
VolatilityRegime(x) ==
    IF ~x.enough THEN Quiet("insufficient_data")
    ELSE Fire(NoSide, IF x.stat >= 90 THEN "vol_panic"
                      ELSE IF x.stat >= 66 THEN "vol_expansion"
                      ELSE IF x.stat <= 20 THEN "vol_quiet" ELSE "vol_normal",
              NoLevel, NoRule)
=============================================================================
