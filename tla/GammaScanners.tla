---------------------------- MODULE GammaScanners ----------------------------
(***************************************************************************)
(* The scanners that read one expiry of an option chain: options_gamma,    *)
(* spx_gamma_command, features/gex and features/options_metrics.           *)
(*                                                                         *)
(* A chain g: spot; calls and puts, the open interest of each strike, and  *)
(* callVol and putVol its volume; net, the net gamma exposure of each      *)
(* strike with open interest; curve, the total exposure at each point of   *)
(* the price grid; straddle, the sum of the quoted at-the-money legs (0 if *)
(* neither is); charm, the signed pressure; skew; and the snapshot beside  *)
(* it: atr, dist, poc, minutes to the close, degraded.  Prices are whole   *)
(* numbers of a unit, of which a dollar, to which a butterfly's strikes    *)
(* are rounded, has so many.                                               *)
(***************************************************************************)
EXTENDS ScannerResult, Sums

CONSTANT Dollar
ASSUME DollarAssumption == Dollar \in Nat \ {0}

Strikes(g) == DOMAIN g.calls

(* max(strikes, key = |net|): of equals the first, that is the lowest.     *)
Strongest(S, net) ==
    CHOOSE k \in S : \A j \in S : \/ Abs(net[j]) < Abs(net[k])
                                  \/ Abs(net[j]) = Abs(net[k]) /\ k <= j
(* Mutant: the wall of the whole chain.                                    *)
CallWallOfAll(g) ==
    IF DOMAIN g.net = {} THEN NoLevel ELSE Strongest(DOMAIN g.net, g.net)
CallWall(g) ==
    LET above == {k \in DOMAIN g.net : k >= g.spot}
    IN  IF above = {} THEN NoLevel ELSE Strongest(above, g.net)
PutWall(g) ==
    LET below == {k \in DOMAIN g.net : k < g.spot}
    IN  IF below = {} THEN NoLevel ELSE Strongest(below, g.net)

TotalGex(g) == SumOver(g.net, DOMAIN g.net)
PositiveRegime(g) == TotalGex(g) >= 0

(* Where the curve is zero, as fractions: at a point of the grid, or on    *)
(* the straight line between two neighbours where its signs are opposite.  *)
(* A zero at the last point of the grid is not looked at.                  *)
ZeroBetween(p, q, y0, y1) ==
    IF y0 < y1 THEN [num |-> p * y1 - q * y0, den |-> y1 - y0]
    ELSE [num |-> q * y0 - p * y1, den |-> y0 - y1]
Crossings(curve) ==
    LET Grid == DOMAIN curve
        Next(p) == Least({q \in Grid : q > p})
        Inner == Grid \ {Greatest(Grid)}
    IN  {[num |-> p, den |-> 1] : p \in {q \in Inner : curve[q] = 0}}
        \cup {ZeroBetween(p, Next(p), curve[p], curve[Next(p)]) :
                 p \in {q \in Inner : curve[q] * curve[Next(q)] < 0}}

(* How far a spot is past a crossing, in its fractions.                    *)
Past(a, spot) == spot * a.den - a.num

NoFlip == [num |-> 0, den |-> 0]
NearestFlip(curve, spot) ==
    IF Crossings(curve) = {} THEN NoFlip
    ELSE CHOOSE a \in Crossings(curve) : \A b \in Crossings(curve) :
           LET x == Abs(Past(a, spot)) * b.den
               y == Abs(Past(b, spot)) * a.den
           IN  x < y \/ (x = y /\ a.num * b.den <= b.num * a.den)
Flip(g) == NearestFlip(g.curve, g.spot)

(* The flip as the level of a rule, in whole units.                        *)
FlipRule(g) == Crosses(IF Flip(g) = NoFlip THEN NoLevel ELSE Flip(g).num \div Flip(g).den)

-----------------------------------------------------------------------------
(* options_gamma.  A chain without open interest has no profile.           *)
NoChain(g)   == Strikes(g) = {}
NoProfile(g) == DOMAIN g.net = {}

GammaExposure(g) ==
    IF NoProfile(g) THEN Quiet("insufficient_data")
    ELSE Fire(NoSide, IF PositiveRegime(g) THEN "positive_gamma" ELSE "negative_gamma",
              g.spot, FlipRule(g))

GammaWall(g) ==
    LET IsNear(distance) == 0 <= distance /\ 5 * distance <= 3 * g.atr
    IN  IF NoProfile(g) \/ g.atr = 0 THEN Quiet("insufficient_data")
        ELSE IF CallWall(g) # NoLevel /\ IsNear(CallWall(g) - g.spot)
             THEN Fire(SHORT, "call_wall_resistance", g.spot, Above(CallWall(g)))
        ELSE IF PutWall(g) # NoLevel /\ IsNear(g.spot - PutWall(g))
             THEN Fire(LONG, "put_wall_support", g.spot, Below(PutWall(g)))
        ELSE Quiet("no_wall_test")

GammaSqueeze(g) ==
    IF NoProfile(g) THEN Quiet("insufficient_data")
    ELSE IF PositiveRegime(g) THEN Quiet("no_squeeze")
    ELSE IF CallWall(g) # NoLevel /\ g.spot > CallWall(g)
         THEN Fire(LONG, "gamma_squeeze_up", g.spot, Below(CallWall(g)))
    ELSE IF PutWall(g) # NoLevel /\ g.spot < PutWall(g)
         THEN Fire(SHORT, "gamma_squeeze_down", g.spot, Above(PutWall(g)))
    ELSE Quiet("no_squeeze")

(* The previous close is the point of control, for want of a better one.   *)
ExpectedMove(g) ==
    LET from     == Or(g.poc, g.spot)
        exceeded == Abs(g.spot - from) > g.straddle
    IN  IF NoChain(g) \/ g.straddle = 0 THEN Quiet("insufficient_data")
        ELSE Result(exceeded, IF exceeded THEN SideOf(g.spot <= from) ELSE NoSide,
                    IF exceeded THEN "em_exceeded" ELSE "em_inside", g.spot, NoRule)

(* oi_clusters: the strike of the largest open interest, the first listed  *)
(* of equals (chains are listed by strike).                                *)
Magnet(g) ==
    Strongest(Strikes(g), [k \in Strikes(g) |-> g.calls[k] + g.puts[k]])
PinMagnet(g) ==
    IF NoChain(g) \/ g.atr = 0 THEN Quiet("insufficient_data")
    ELSE IF 2 * Abs(g.spot - Magnet(g)) <= g.atr /\ ~NoProfile(g) /\ PositiveRegime(g)
         THEN Fire(NoSide, "pin_chop_warning", g.spot, NoRule)
    ELSE Quiet("no_pin")

(* Mutant: the two sides exchanged.                                        *)
PainExchanged(g, s) ==
    SumOver([k \in Strikes(g) |-> IF k < s THEN (s - k) * g.puts[k]
                                  ELSE (k - s) * g.calls[k]], Strikes(g))
Pain(g, s) ==
    SumOver([k \in Strikes(g) |-> IF k < s THEN (s - k) * g.calls[k]
                                  ELSE (k - s) * g.puts[k]], Strikes(g))
MaxPainStrike(g) ==
    CHOOSE s \in Strikes(g) : \A t \in Strikes(g) :
        Pain(g, s) < Pain(g, t) \/ (Pain(g, s) = Pain(g, t) /\ s <= t)
MaxPain(g) ==
    IF NoChain(g) \/ g.atr = 0 THEN Quiet("insufficient_data")
    ELSE IF 4 * Abs(MaxPainStrike(g) - g.spot) >= 3 * g.atr
         THEN Fire(SideOf(MaxPainStrike(g) > g.spot), "max_pain_drift", g.spot, NoRule)
    ELSE Quiet("near_max_pain")

(* skew in hundredths of volatility; noIv: an out-of-the-money IV missing. *)
SkewTerm(g) ==
    IF NoChain(g) \/ g.noIv THEN Quiet("insufficient_data")
    ELSE LET up == g.skew >= 3
         IN  Result(up, IF up THEN SHORT ELSE NoSide,
                    IF up THEN "put_skew_elevated" ELSE "skew_normal", NoLevel, NoRule)

CharmVanna(g) ==
    IF NoChain(g) THEN Quiet("insufficient_data")
    ELSE Result(g.charm # 0, SideOf(g.charm > 0), "charm_vanna_drift", NoLevel, NoRule)

(* Volumes in units of 100 contracts, as the open interest.                *)
Unusual(volume, oi) == {k \in DOMAIN oi : /\ oi[k] > 0 /\ volume[k] > 1
                                          /\ 2 * volume[k] > 3 * oi[k]}
OptionsFlow(g) ==
    LET callV == SumOver(g.callVol, Unusual(g.callVol, g.calls))
        putV  == SumOver(g.putVol, Unusual(g.putVol, g.puts))
    IN  IF NoChain(g) THEN Quiet("insufficient_data")
        ELSE IF callV + putV = 0 THEN Quiet("no_flow")
        ELSE Fire(SideOf(callV >= putV),
                  IF callV >= putV THEN "unusual_calls" ELSE "unusual_puts", NoLevel, NoRule)

DealerHedgeFlow(g) ==
    LET side == SideOf(PositiveRegime(g) # (g.dist >= 0))
    IN  IF NoProfile(g) THEN Quiet("insufficient_data")
        ELSE Fire(side, IF side = LONG THEN "hedge_support" ELSE "hedge_pressure",
                  g.spot, FlipRule(g))

(* Short strikes half the expected move away on the leaning side, wings    *)
(* one expected move (at least 1) and one and a half times that, in whole  *)
(* dollars.  round() of a half goes to the even neighbour.                 *)
RoundedEven(n, d) ==
    LET down == n \div d
        over == 2 * (n % d) - d
    IN  IF over < 0 \/ (over = 0 /\ down % 2 = 0) THEN down ELSE down + 1
LeansUp(g) == NoProfile(g) \/ ~PositiveRegime(g)
Butterfly(g) ==
    LET sign == IF LeansUp(g) THEN 1 ELSE -1
        wing == Greatest({RoundedEven(g.straddle, Dollar), 1})
        body == RoundedEven(2 * g.spot + sign * g.straddle, 2 * Dollar)
    IN  [near |-> Dollar * (body - sign * wing), body |-> Dollar * body,
         far |-> Dollar * (body + sign * ((3 * wing) \div 2))]
BrokenWingButterfly(g) ==
    IF NoChain(g) \/ g.straddle = 0 THEN Quiet("insufficient_data")
    ELSE Fire(SideOf(LeansUp(g)), "bwb_candidate", g.spot, NoRule)

-----------------------------------------------------------------------------
(* spx_gamma_command reads the snapshot's copy of the same profile.        *)
(* Mutant: a spot at the flip is below it.                                 *)
SpxPositiveAbove(g) ==
    IF Flip(g) = NoFlip THEN PositiveRegime(g) ELSE Past(Flip(g), g.spot) > 0
SpxPositive(g) ==
    IF Flip(g) = NoFlip THEN PositiveRegime(g) ELSE Past(Flip(g), g.spot) >= 0

SpxRule(g, side) ==
    IF side = SHORT /\ CallWall(g) # NoLevel THEN Above(CallWall(g))
    ELSE IF side = LONG /\ PutWall(g) # NoLevel THEN Below(PutWall(g))
    ELSE FlipRule(g)

SpxGammaCommand(g) ==
    LET call     == CallWall(g)
        put      == PutWall(g)
        nearCall == call # NoLevel /\ g.spot <= call /\ 2 * (call - g.spot) <= g.atr
        nearPut  == put # NoLevel /\ put <= g.spot /\ 2 * (g.spot - put) <= g.atr
        flip     == Flip(g)
        inChop   == flip # NoFlip /\ 20 * Abs(Past(flip, g.spot)) <= 7 * g.atr * flip.den
        calm     == g.minutes >= 60
        Answer(side, cls) == Fire(side, cls, g.spot, SpxRule(g, side))
        StandAside == Result(FALSE, NoSide, "no_trade", g.spot, SpxRule(g, NoSide))
        drift    == SideOf(~(flip # NoFlip /\ Past(flip, g.spot) > 0))
        momentum == SideOf(flip # NoFlip /\ Past(flip, g.spot) >= 0)
    IN  IF NoProfile(g) \/ g.atr = 0 THEN Quiet("insufficient_data")
        ELSE IF g.degraded THEN StandAside
        ELSE IF SpxPositive(g) THEN
             IF nearCall THEN Answer(SHORT, IF calm THEN "top" ELSE "scalp_short")
             ELSE IF nearPut THEN Answer(LONG, IF calm THEN "bottom" ELSE "scalp_long")
             ELSE IF inChop THEN StandAside
             ELSE Answer(drift, IF drift = SHORT THEN "reversal_short" ELSE "reversal_long")
        ELSE IF call # NoLevel /\ call < g.spot THEN Answer(LONG, "gamma_squeeze")
        ELSE IF put # NoLevel /\ g.spot < put THEN Answer(SHORT, "gamma_squeeze")
        ELSE IF inChop THEN StandAside
        ELSE Answer(momentum, IF momentum = LONG THEN "scalp_long" ELSE "scalp_short")
=============================================================================
