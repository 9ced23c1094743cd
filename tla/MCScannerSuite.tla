--------------------------- MODULE MCScannerSuite ---------------------------
(* Small views for every scanner of the registry.                          *)
EXTENDS ScannerSuite, TLC

Price == 1..5
Flags == BOOLEAN

CalmBar == [enough |-> TRUE, o |-> 3, h |-> 5, l |-> 1, c |-> 3, prev |-> 3,
            ph |-> 4, pl |-> 2, rh |-> 5, rl |-> 1, hi |-> 4, lo |-> 2, poc |-> 3,
            avwap |-> 3, round |-> 5, atr |-> 1, rvol |-> 10, dist |-> 0, stat |-> 0,
            trend |-> 0, htf |-> "none", was |-> FALSE, now |-> FALSE,
            held |-> 0, failed |-> 0, win |-> 50]

(* Bars: low <= open, close <= high.                                       *)
Bars == {[CalmBar EXCEPT !.o = o, !.h = h, !.l = l, !.c = c] :
           o \in {2, 4}, h \in Price, l \in Price, c \in Price}
Proper(x) == /\ x.l <= x.o /\ x.l <= x.c /\ x.o <= x.h /\ x.c <= x.h
             /\ x.l <= x.h /\ x.pl <= x.ph /\ x.rl <= x.l /\ x.h <= x.rh
ProperBars == {x \in Bars : x.l <= x.o /\ x.l <= x.c /\ x.o <= x.h /\ x.c <= x.h}

(* The lookback, the last three bars and the levels around a bar.          *)
Lookbacks == UNION {{[x EXCEPT !.ph = ph, !.pl = pl, !.atr = a, !.rvol = 10, !.rh = x.h, !.rl = x.l] :
                        ph \in {3, 4}, pl \in {1, 2}, a \in {0, 1}} : x \in ProperBars}
Recent == {x \in UNION {{[y EXCEPT !.rh = rh, !.rl = rl, !.hi = hi, !.lo = lo] :
                            rh \in {5}, rl \in {1, 2}, hi \in {NoLevel, 3, 4},
                            lo \in {NoLevel, 2, 3}} :
                        y \in {z \in Lookbacks : z.o = 2 /\ z.ph < 5 /\ z.pl < 4 /\ z.atr = 1}} :
             Proper(x)}
Levels == {[CalmBar EXCEPT !.c = c, !.prev = p, !.avwap = v, !.hi = r[1], !.lo = r[2],
                           !.enough = e] :
             c \in Price, p \in Price, v \in {2, 3, 4}, e \in Flags,
             r \in {<<3, 2>>, <<3, 3>>, <<4, 2>>, <<NoLevel, NoLevel>>}}
Nearby == {[CalmBar EXCEPT !.c = c, !.prev = p, !.ph = h, !.pl = l, !.round = r, !.atr = a] :
             c \in Price, p \in {NoLevel, 1, 3}, h \in {4, 5}, l \in {1, 2},
             r \in {1, 5}, a \in {0, 1, 3}}
Gaps == {[CalmBar EXCEPT !.c = c, !.prev = p, !.stat = s] :
           c \in Price, p \in {NoLevel, 2, 3}, s \in {-1, 0, 1}}
Stats == {[CalmBar EXCEPT !.stat = s, !.o = o, !.rvol = v, !.dist = d, !.now = n, !.was = b] :
            s \in {-25, -6, 0, 20, 90}, o \in {2, 4}, v \in {0, 10, 20},
            d \in {-25, 0, 20}, n \in Flags, b \in Flags}
         \cup {[CalmBar EXCEPT !.enough = FALSE]}
Rates == {[CalmBar EXCEPT !.enough = e, !.stat = s, !.win = w] :
            e \in Flags, s \in {-2, -1, 0, 1, 2}, w \in {42, 44, 50, 56, 58}}
Values == {[CalmBar EXCEPT !.c = c, !.rvol = v, !.poc = p] :
             c \in Price, v \in {0, 12}, p \in {NoLevel, 2, 3}}
Tails == {[x EXCEPT !.rvol = v, !.dist = d] :
            x \in ProperBars, v \in {10, 15}, d \in {-20, 0, 20}}
Swings == {[CalmBar EXCEPT !.c = c, !.hi = hi, !.lo = lo, !.trend = t, !.htf = f] :
             c \in Price, hi \in {NoLevel, 2, 4}, lo \in {NoLevel, 2, 4}, t \in {-1, 0, 1},
             f \in {"none", "up", "down", "range"}}
Pulls == {[CalmBar EXCEPT !.c = c, !.lo = lo, !.trend = t, !.now = n, !.rvol = v,
                          !.poc = p, !.enough = e] :
            c \in {1, 3}, lo \in {NoLevel, 2}, t \in {-1, 0, 1}, n \in Flags,
            v \in {0, 7, 16}, p \in {NoLevel, 1, 3}, e \in Flags}
Rules == {[CalmBar EXCEPT !.held = a, !.failed = b, !.now = n] :
            a \in 0..2, b \in 0..1, n \in Flags}

-----------------------------------------------------------------------------
Ks == {4, 8, 12}
Grid == {4, 8, 12}
OnStrikes(S) == [Ks -> S]
CalmChain == [spot |-> 8, net |-> [k \in Ks |-> 1], curve |-> [k \in Grid |-> 1],
              calls |-> [k \in Ks |-> 1], puts |-> [k \in Ks |-> 1],
              callVol |-> [k \in Ks |-> 0], putVol |-> [k \in Ks |-> 0],
              straddle |-> 2, charm |-> 0, skew |-> 0, noIv |-> FALSE, atr |-> 2,
              dist |-> 0, poc |-> 8, minutes |-> 90, degraded |-> FALSE]
NoContracts == [CalmChain EXCEPT !.net = <<>>, !.curve = <<>>, !.calls = <<>>,
                                 !.puts = <<>>, !.callVol = <<>>, !.putVol = <<>>]
NoInterest == [CalmChain EXCEPT !.net = <<>>, !.curve = <<>>, !.calls = [k \in Ks |-> 0],
                                !.puts = [k \in Ks |-> 0]]
Sign(n) == IF n > 0 THEN 1 ELSE IF n < 0 THEN -1 ELSE 0

(* Curves that rise, and whose zero is no midpoint.                        *)
Steep == {v \in [Grid -> {-4, -1, 2, 5}] : v[4] < v[8] /\ v[8] < v[12]}
Profiles == {NoContracts, NoInterest} \cup
    {g \in {[CalmChain EXCEPT !.spot = s, !.net = n, !.curve = v, !.atr = a] :
              s \in {2, 4, 5, 8, 9, 14}, n \in OnStrikes({-2, 1}),
              v \in [Grid -> {-1, 0, 1}] \cup Steep, a \in {0, 4}} : Consistent(g)}
Steady(n) == [k \in Grid |-> Sign(n[4] + n[8] + n[12])]
Walls == {NoContracts, NoInterest} \cup
    {[CalmChain EXCEPT !.spot = s, !.net = n, !.atr = a, !.curve = Steady(n)] :
       s \in {2, 4, 7, 8, 11, 12, 14}, n \in OnStrikes({-2, -1, 1}), a \in {0, 3}}
SpxViews == Profiles \cup {[g EXCEPT !.minutes = 30, !.degraded = d] :
                             g \in {x \in Profiles : x.atr = 4}, d \in Flags}
Moves == {NoContracts, NoInterest} \cup
    {[CalmChain EXCEPT !.spot = s, !.poc = p, !.straddle = m, !.net = n, !.dist = d,
                       !.curve = Steady(n)] :
       s \in 6..9, p \in {0, 8}, m \in {0, 1, 8, 11, 12, 20}, n \in OnStrikes({-1, 1}), d \in {-1, 1}}
Interest == {NoContracts, NoInterest} \cup
    {[CalmChain EXCEPT !.spot = s, !.calls = c, !.puts = p, !.atr = a] :
       s \in {4, 8, 11}, c \in OnStrikes({0, 1, 3}), p \in OnStrikes({1, 2}), a \in {0, 2}}
Flows == {NoContracts} \cup
    {[CalmChain EXCEPT !.callVol = c, !.putVol = p, !.charm = q, !.skew = k, !.noIv = m] :
       c \in OnStrikes({1, 2}), p \in OnStrikes({0, 2}), q \in {-1, 0, 1}, k \in {0, 3},
       m \in Flags}

-----------------------------------------------------------------------------
Names == 1..5
Stock(m, v) == [move |-> m, volume |-> v, above50 |-> IF m > 0 THEN "yes" ELSE
                IF v = 1 THEN "no" ELSE "short", extreme |-> m]
Baskets == {[basket |-> [s \in Names |-> Stock(m[s], IF s <= heavy THEN 3 ELSE 1)]] :
              m \in [Names -> {-1, 0, 1}], heavy \in {0, 1, 3}}
           \cup {[basket |-> [s \in 1..3 |-> Stock(1, 1)]]}
CalmMarket == [enough |-> TRUE, osc |-> 0, low |-> 450, last |-> 500, puts |-> 4,
               calls |-> 5, vix |-> 16, vix3m |-> 17, shift |-> 0, ratios |-> <<1, -1>>]
Breadths == {[CalmMarket EXCEPT !.enough = e, !.osc = o, !.shift = o, !.low = l, !.last = z] :
               e \in Flags, o \in {-80, -40, 0, 20, 70}, l \in {300, 450}, z \in {500, 650}}
Options == {[CalmMarket EXCEPT !.enough = e, !.puts = p, !.calls = c, !.vix = v, !.vix3m = t,
                               !.ratios = r] :
              e \in Flags, p \in {0, 3, 6}, c \in {0, 5}, v \in {0, 16}, t \in {0, 15, 20},
              r \in {<<>>, <<1, 1>>, <<1, -1>>, <<-1, -1, 1, -1>>}}
Peers == {[own |-> o, spy |-> s, tlt |-> t, vix |-> v, vixChange |-> c, sectors |-> x] :
            o \in {Missing, -2, 3}, s \in {Missing, -1, 2}, t \in {Missing, -3},
            v \in {Missing, 14, 30}, c \in {-1, 2, 9},
            x \in {<<>>, <<1, 1, -1>>}}
Reports == {[reports |-> r] : r \in UNION {[1..n -> [day : {-5, -2, 0, 4}, surprise : {Missing, 0, 1, -1}]] : n \in 0..2}}
News == {[heads |-> h, stale |-> s] : h \in UNION {[1..n -> -2..2] : n \in 0..3}, s \in Flags}
Trades == [insiderBuys : 0..2, insiderSells : 0..2, congressBuys : 0..2,
           congressSells : 0..2, others : 0..1]

SmallSnapshots ==
    [i \in ScannerIds |->
       CASE i \in {"liquidity_sweep", "breakout_quality"} -> Lookbacks
         [] i \in {"short_trap", "long_trap", "failed_move"} -> Recent
         [] i \in {"anchored_vwap", "opening_range"} -> Levels
         [] i = "key_levels" -> Nearby
         [] i = "gap_scan" -> Gaps
         [] i = "volume_profile_poc" -> Values
         [] i = "reversal_master" -> Tails
         [] i = "mtf_structure" -> Swings
         [] i \in {"pullback_classifier", "low_volume_pullback"} -> Pulls
         [] i = "custom_rule" -> Rules
         [] i \in {"spx_gamma_command"} -> SpxViews
         [] i \in {"gamma_exposure"} -> Profiles
         [] i \in {"gamma_wall", "gamma_squeeze"} -> Walls
         [] i \in {"expected_move", "broken_wing_butterfly", "dealer_hedge_flow"} -> Moves
         [] i \in {"pin_magnet", "max_pain_oi"} -> Interest
         [] i \in {"skew_term", "charm_vanna", "options_flow"} -> Flows
         [] i \in BreadthIds -> Baskets
         [] i \in PeerIds -> Peers
         [] i = "earnings_guidance" -> Reports
         [] i = "catalyst_news" -> News
         [] i = "insider_congress_flow" -> Trades
         [] i \in {"seasonality", "regime_classification"} -> Rates
         [] i \in PriceIds -> Stats
         [] i \in {"mcclellan", "zweig_thrust", "absorption_ratio"} -> Breadths
         [] OTHER -> Options]

FewWeights == {4000, 10000}
FewTables  == {<<>>, [range |-> 4000]}
=============================================================================
