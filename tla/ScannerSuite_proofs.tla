------------------------ MODULE ScannerSuite_proofs ------------------------
(***************************************************************************)
(* Facts about the scanners for every set of snapshots: the gamma walls    *)
(* stand on either side of the spot, so the branches that look for a       *)
(* breached wall are dead code; the strike of max pain balances the chain; *)
(* the two ways to name the gamma regime agree where they should; an       *)
(* answer is well formed and never already invalidated, a plan is in       *)
(* order, and the two sides of a price scanner are mirror images.          *)
(***************************************************************************)
EXTENDS ScannerSuite, Sums_proofs

LEMMA LeastIsLeast ==
    ASSUME NEW S \in SUBSET Int, IsFiniteSet(S), S # {}
    PROVE  Least(S) \in S /\ \A j \in S : Least(S) <= j
  <1> DEFINE key == [k \in S |-> 0]
  <1>1. \A k \in S : key[k] = 0
    OBVIOUS
  <1> HIDE DEF key
  <1>2. \E k \in S : \A j \in S : k <= j
    BY <1>1, LowestOfFirst
  <1> QED
    BY <1>2 DEF Least

LEMMA GreatestIsGreatest ==
    ASSUME NEW S \in SUBSET Int, IsFiniteSet(S), S # {}
    PROVE  Greatest(S) \in S /\ \A j \in S : j <= Greatest(S)
  <1> DEFINE key == [k \in S |-> -k]
  <1>1. \A k \in S : key[k] = -k
    OBVIOUS
  <1> HIDE DEF key
  <1>2. \E k \in S : \A j \in S : j <= k
    <2>1. \A k \in S : key[k] \in Int
      BY <1>1
    <2>2. PICK k \in S : \A j \in S : key[k] < key[j] \/ (key[k] = key[j] /\ k <= j)
      BY <2>1, LowestOfFirst
    <2> QED
      BY <1>1, <2>2
  <1> QED
    BY <1>2 DEF Greatest

(* max(..., key = |net|) returns one of the strikes it is given.           *)
LEMMA StrongestIsOne ==
    ASSUME NEW S \in SUBSET Int, IsFiniteSet(S), S # {}, NEW net,
           \A k \in S : net[k] \in Int
    PROVE  Strongest(S, net) \in S
  <1> DEFINE key == [k \in S |-> -Abs(net[k])]
  <1>1. \A k \in S : key[k] = -Abs(net[k]) /\ Abs(net[k]) \in Int
    BY DEF Abs
  <1> HIDE DEF key
  <1>0. \A k \in S : key[k] \in Int
    BY <1>1
  <1>2. PICK k \in S : \A j \in S : key[k] < key[j] \/ (key[k] = key[j] /\ k <= j)
    BY <1>1, <1>0, LowestOfFirst
  <1>3. \A j \in S : \/ Abs(net[j]) < Abs(net[k])
                     \/ Abs(net[j]) = Abs(net[k]) /\ k <= j
    BY <1>1, <1>2
  <1> QED
    BY <1>3 DEF Strongest

Chain(g) == /\ g.spot \in Int
            /\ DOMAIN g.net \subseteq Int /\ IsFiniteSet(DOMAIN g.net)
            /\ NoLevel \notin DOMAIN g.net
            /\ \A k \in DOMAIN g.net : g.net[k] \in Int

(* A wall is a strike, on its side of the spot.                            *)
LEMMA WallsStand ==
    ASSUME NEW g, Chain(g)
    PROVE  /\ CallWall(g) # NoLevel => CallWall(g) \in Int /\ g.spot <= CallWall(g)
           /\ PutWall(g)  # NoLevel => PutWall(g) \in Int /\ PutWall(g) < g.spot
  <1>1. CallWall(g) # NoLevel => CallWall(g) \in Int /\ g.spot <= CallWall(g)
    <2> DEFINE S == {k \in DOMAIN g.net : k >= g.spot}
    <2>1. S # {} => Strongest(S, g.net) \in S
      BY StrongestIsOne, FS_Subset DEF Chain
    <2> QED
      BY <2>1 DEF CallWall, Chain
  <1>2. PutWall(g) # NoLevel => PutWall(g) \in Int /\ PutWall(g) < g.spot
    <2> DEFINE S == {k \in DOMAIN g.net : k < g.spot}
    <2>1. S # {} => Strongest(S, g.net) \in S
      BY StrongestIsOne, FS_Subset DEF Chain
    <2> QED
      BY <2>1 DEF PutWall, Chain
  <1> QED
    BY <1>1, <1>2

(* The two scanners that have a branch for a breached wall never take it.  *)
LEMMA NoBreach ==
    ASSUME NEW g, Chain(g)
    PROVE  /\ ~(CallWall(g) # NoLevel /\ CallWall(g) < g.spot)
           /\ ~(PutWall(g) # NoLevel /\ g.spot < PutWall(g))
           /\ ~(CallWall(g) # NoLevel /\ g.spot > CallWall(g))
  BY WallsStand DEF Chain

LEMMA SqueezeIsQuiet ==
    ASSUME NEW g, Chain(g)
    PROVE  GammaSqueeze(g).cls \notin Squeezes
  BY NoBreach DEF GammaSqueeze, Quiet, Fire, Result, Squeezes

LEMMA CommandIsNoSqueeze ==
    ASSUME NEW g, Chain(g)
    PROVE  SpxGammaCommand(g).cls \notin Squeezes
  BY NoBreach DEF SpxGammaCommand, Quiet, Fire, Result, Squeezes

(* No other gamma scanner has such a class.                                *)
LEMMA OthersAreNoSqueeze ==
    ASSUME NEW g
    PROVE  /\ GammaExposure(g).cls \notin Squeezes
           /\ GammaWall(g).cls \notin Squeezes
           /\ ExpectedMove(g).cls \notin Squeezes
           /\ PinMagnet(g).cls \notin Squeezes
           /\ MaxPain(g).cls \notin Squeezes
           /\ SkewTerm(g).cls \notin Squeezes
           /\ CharmVanna(g).cls \notin Squeezes
           /\ OptionsFlow(g).cls \notin Squeezes
           /\ DealerHedgeFlow(g).cls \notin Squeezes
           /\ BrokenWingButterfly(g).cls \notin Squeezes
  <1>1. GammaExposure(g).cls \notin Squeezes /\ GammaWall(g).cls \notin Squeezes
    BY DEF GammaExposure, GammaWall, Quiet, Fire, Result, Squeezes
  <1>2. ExpectedMove(g).cls \notin Squeezes /\ PinMagnet(g).cls \notin Squeezes
    BY DEF ExpectedMove, PinMagnet, Quiet, Fire, Result, Squeezes
  <1>3. MaxPain(g).cls \notin Squeezes /\ SkewTerm(g).cls \notin Squeezes
    BY DEF MaxPain, SkewTerm, Quiet, Fire, Result, Squeezes
  <1>4. CharmVanna(g).cls \notin Squeezes /\ OptionsFlow(g).cls \notin Squeezes
    BY DEF CharmVanna, OptionsFlow, Quiet, Fire, Result, Squeezes
  <1>5. /\ DealerHedgeFlow(g).cls \notin Squeezes
        /\ BrokenWingButterfly(g).cls \notin Squeezes
    BY DEF DealerHedgeFlow, BrokenWingButterfly, Quiet, Fire, Result, Squeezes
  <1> QED
    BY <1>1, <1>2, <1>3, <1>4, <1>5

-----------------------------------------------------------------------------
(* The answer is the scanner's answer on one of its snapshots.             *)
Answered == \/ id = Nothing /\ result = Quiet(Nothing)
            \/ id \in ScannerIds /\ id # Nothing /\ view \in Snapshots[id] /\ result = Scan(id, view)

LEMMA AnsweredInit == Init => Answered
  BY DEF Init, Answered

LEMMA AnsweredNext == Answered /\ [Next]_vars => Answered'
  <1> SUFFICES ASSUME Answered, [Next]_vars PROVE Answered'
    OBVIOUS
  <1>1. ASSUME NEW i \in ScannerIds, NEW x \in Snapshots[i], Evaluate(i, x)
        PROVE  Answered'
    <2>1. i # Nothing
      BY DEF ScannerIds, PriceIds, GammaIds, BreadthIds, PeerIds, OtherIds, Nothing
    <2> QED
      BY <1>1, <2>1 DEF Evaluate, Answered
  <1>2. ASSUME NEW kind, NEW weight, NEW edges, NEW scalp, Build(kind, weight, edges, scalp)
        PROVE  Answered'
    BY <1>2 DEF Build, Answered
  <1>3. CASE NextSymbol
    BY <1>3 DEF NextSymbol, Answered
  <1>4. CASE UNCHANGED vars
    BY <1>4 DEF vars, Answered
  <1> QED
    BY <1>1, <1>2, <1>3, <1>4 DEF Next

LEMMA GammaAnswered ==
    ASSUME Answered, id \in GammaIds
    PROVE  view \in Snapshots[id] /\ result = ScanGamma(id, view)
  <1>1. id \notin PriceIds /\ id # Nothing
    BY DEF GammaIds, PriceIds, Nothing
  <1> QED
    BY <1>1 DEF Answered, Scan

LEMMA AnsweredGivesWalls == Answered => WallsBracketSpot
  <1> SUFFICES ASSUME Answered, id \in GammaIds
               PROVE  /\ CallWall(view) # NoLevel => view.spot <= CallWall(view)
                      /\ PutWall(view)  # NoLevel => PutWall(view) < view.spot
                      /\ ScanGamma(id, view).cls \notin Squeezes
    BY GammaAnswered DEF WallsBracketSpot
  <1>1. Chain(view)
    BY GammaAnswered, ChainsAssumption DEF Chain, Listed
  <1>2. ScanGamma(id, view).cls \notin Squeezes
    <2>1. id \in {"gamma_squeeze", "spx_gamma_command"} => ScanGamma(id, view).cls \notin Squeezes
      BY <1>1, SqueezeIsQuiet, CommandIsNoSqueeze DEF ScanGamma
    <2>2. id \notin {"gamma_squeeze", "spx_gamma_command"} => ScanGamma(id, view).cls \notin Squeezes
      BY OthersAreNoSqueeze DEF ScanGamma, GammaIds
    <2> QED
      BY <2>1, <2>2
  <1> QED
    BY <1>1, <1>2, WallsStand

(* Whatever chains come, the walls bracket the spot and no scanner calls a *)
(* gamma squeeze: what gamma_squeeze and the negative branch of            *)
(* spx_gamma_command wait for cannot happen.                               *)
THEOREM WallsAlwaysBracketSpot == Spec => []WallsBracketSpot
  <1>1. Spec => []Answered
    BY AnsweredInit, AnsweredNext, PTL DEF Spec
  <1> QED
    BY <1>1, AnsweredGivesWalls, PTL

-----------------------------------------------------------------------------
(* Max pain.  From one strike to the next one the payout grows by the gap  *)
(* times the balance there: the calls up to the strike less the puts past  *)
(* it.  The balance only grows from strike to strike, so the strike of the *)
(* least payout is where it turns from negative.                           *)
OpenInterest(g) == /\ Listed(Strikes(g))
                   /\ \A k \in Strikes(g) : g.calls[k] \in Nat /\ g.puts[k] \in Nat

CallsTo(g, s) == SumOver(g.calls, {k \in Strikes(g) : k <= s})
PutsPast(g, s) == SumOver(g.puts, {k \in Strikes(g) : k > s})
Contracts(g, s) == [k \in Strikes(g) |-> IF k <= s THEN g.calls[k] ELSE -g.puts[k]]
Balance(g, s) == SumOver(Contracts(g, s), Strikes(g))
Payouts(g, s) == [k \in Strikes(g) |-> IF k < s THEN (s - k) * g.calls[k]
                                       ELSE (k - s) * g.puts[k]]

LEMMA BalanceIs ==
    ASSUME NEW g, OpenInterest(g), NEW s \in Int
    PROVE  /\ Balance(g, s) = CallsTo(g, s) - PutsPast(g, s)
           /\ CallsTo(g, s) \in Nat /\ PutsPast(g, s) \in Nat
  <1> DEFINE S == Strikes(g)
             Low == {k \in S : k <= s}
             High == {k \in S : k > s}
             zero == [k \in S |-> 0]
             both == Contracts(g, s)
  <1>1. IsFiniteSet(S) /\ IsFiniteSet(Low) /\ IsFiniteSet(High) /\ S \subseteq Int
    BY FS_Subset DEF OpenInterest, Listed
  <1>2. S \ Low = High /\ Low \in SUBSET S
    BY <1>1
  <1>3. \A k \in S : /\ g.calls[k] \in Nat /\ g.puts[k] \in Nat /\ zero[k] = 0
                     /\ both[k] = IF k <= s THEN g.calls[k] ELSE -g.puts[k]
    BY DEF OpenInterest, Contracts
  <1> HIDE DEF S, zero, both
  <1>4. \A k \in S : both[k] \in Int
    BY <1>3
  <1>5. SumOver(both, S) = SumOver(both, Low) + SumOver(both, High)
    <2> HIDE DEF Low
    <2>1. SumOver(both, S) = SumOver(both, Low) + SumOver(both, S \ Low)
      <3>1. IsFiniteSet(S) /\ Low \in SUBSET S
        BY <1>1, <1>2
      <3> QED
        BY <1>4, <3>1, SumSplit
    <2> QED
      BY <1>2, <2>1
  <1>6. SumOver(both, Low) = SumOver(g.calls, Low)
    <2>1. \A k \in Low : both[k] = g.calls[k]
      BY <1>3
    <2> HIDE DEF Low
    <2> QED
      BY <1>1, <2>1, SumSame
  <1>7. SumOver(both, High) = -SumOver(g.puts, High)
    <2>1. \A k \in High : /\ zero[k] \in Int /\ g.puts[k] \in Int
                       /\ both[k] = zero[k] + (-1) * g.puts[k]
      BY <1>1, <1>3
    <2>2. \A k \in High : zero[k] = 0
      BY <1>3
    <2> HIDE DEF High
    <2>3. SumOver(both, High) = SumOver(zero, High) + (-1) * SumOver(g.puts, High)
      BY <1>1, <2>1, SumLinear
    <2>4. SumOver(zero, High) = 0
      BY <1>1, <2>2, SumZero
    <2>5. SumOver(g.puts, High) \in Int
      BY <1>1, <2>1, SumInt
    <2> QED
      BY <2>3, <2>4, <2>5
  <1>8. SumOver(g.calls, Low) \in Nat /\ SumOver(g.puts, High) \in Nat
    BY <1>1, <1>2, <1>3, SumNat
  <1> QED
    BY <1>5, <1>6, <1>7, <1>8 DEF Balance, CallsTo, PutsPast, S, Low, High, both

LEMMA BalanceGrows ==
    ASSUME NEW g, OpenInterest(g), NEW s \in Int, NEW t \in Int, s <= t
    PROVE  Balance(g, s) <= Balance(g, t)
  <1> DEFINE S == Strikes(g)
             f == Contracts(g, s)
             h == Contracts(g, t)
  <1>1. IsFiniteSet(S) /\ S \subseteq Int
    BY DEF OpenInterest, Listed
  <1>2. \A k \in S : f[k] \in Int /\ h[k] \in Int /\ f[k] <= h[k]
    BY <1>1 DEF OpenInterest, Contracts
  <1> HIDE DEF S, f, h
  <1>3. SumOver(f, S) <= SumOver(h, S)
    BY <1>1, <1>2, SumAtMost
  <1> QED
    BY <1>3 DEF Balance, S, f, h

LEMMA PainStep ==
    ASSUME NEW g, OpenInterest(g), NEW s \in Strikes(g), NEW t \in Strikes(g), s < t,
           \A k \in Strikes(g) : k <= s \/ t <= k
    PROVE  Pain(g, t) = Pain(g, s) + (t - s) * Balance(g, s)
  <1> DEFINE S == Strikes(g)
             f == Payouts(g, s)
             h == Payouts(g, t)
             c == Contracts(g, s)
  <1>1. IsFiniteSet(S) /\ S \subseteq Int /\ s \in Int /\ t \in Int /\ t - s \in Int
    BY DEF OpenInterest, Listed
  <1>2. ASSUME NEW k \in S
        PROVE  f[k] \in Int /\ c[k] \in Int /\ h[k] = f[k] + (t - s) * c[k]
    <2>1. g.calls[k] \in Nat /\ g.puts[k] \in Nat /\ k \in Int
      BY <1>1 DEF OpenInterest
    <2>2. CASE k <= s
      <3>1. k < t /\ c[k] = g.calls[k] /\ h[k] = (t - k) * g.calls[k]
        BY <1>1, <2>1, <2>2 DEF Contracts, Payouts
      <3>2. f[k] = (s - k) * g.calls[k]
        <4>1. CASE k < s
          BY <4>1 DEF Payouts
        <4>2. CASE k = s
          BY <1>1, <2>1, <4>2 DEF Payouts
        <4> QED
          BY <1>1, <2>1, <2>2, <4>1, <4>2
      <3>3. \A x \in Int : (t - k) * x = (s - k) * x + (t - s) * x
        BY <1>1, <2>1
      <3>4. \A x \in Int : (s - k) * x \in Int
        BY <1>1, <2>1
      <3>5. g.calls[k] \in Int
        BY <2>1
      <3> HIDE DEF f, c, h
      <3> QED
        BY <3>1, <3>2, <3>3, <3>4, <3>5
    <2>3. CASE t <= k
      <3>1. /\ c[k] = -g.puts[k] /\ f[k] = (k - s) * g.puts[k]
            /\ h[k] = (k - t) * g.puts[k]
        BY <1>1, <2>1, <2>3 DEF Contracts, Payouts
      <3>2. \A x \in Int : (k - t) * x = (k - s) * x + (t - s) * (-x)
        BY <1>1, <2>1
      <3>3. \A x \in Int : (k - s) * x \in Int /\ -x \in Int
        BY <1>1, <2>1
      <3>4. g.puts[k] \in Int
        BY <2>1
      <3> HIDE DEF f, c, h
      <3> QED
        BY <3>1, <3>2, <3>3, <3>4
    <2> QED
      BY <2>2, <2>3
  <1>3. Pain(g, s) = SumOver(f, S) /\ Pain(g, t) = SumOver(h, S)
    BY DEF Pain, Payouts
  <1> HIDE DEF S, f, h, c
  <1>4. SumOver(h, S) = SumOver(f, S) + (t - s) * SumOver(c, S)
    <2> DEFINE gap == t - s
    <2>1. gap \in Int /\ \A k \in S : h[k] = f[k] + gap * c[k]
      BY <1>1, <1>2
    <2> HIDE DEF gap
    <2>2. SumOver(h, S) = SumOver(f, S) + gap * SumOver(c, S)
      <3>1. IsFiniteSet(S) /\ \A k \in S : /\ f[k] \in Int /\ c[k] \in Int
                                          /\ h[k] = f[k] + gap * c[k]
        BY <1>1, <1>2, <2>1
      <3> QED
        BY <2>1, <3>1, SumLinear
    <2> QED
      BY <2>2 DEF gap
  <1> QED
    BY <1>3, <1>4 DEF Balance, S, c

LEMMA MaxPainIsLeast ==
    ASSUME NEW g, OpenInterest(g), Strikes(g) # {}
    PROVE  LET m == MaxPainStrike(g)
           IN  /\ m \in Strikes(g)
               /\ \A t \in Strikes(g) : Pain(g, m) < Pain(g, t) \/ (Pain(g, m) = Pain(g, t) /\ m <= t)
               /\ \A t \in Strikes(g) : Pain(g, t) \in Int
  <1> DEFINE S == Strikes(g)
             key == [t \in S |-> Pain(g, t)]
  <1>1. IsFiniteSet(S) /\ S \in SUBSET Int /\ S # {}
    BY DEF OpenInterest, Listed
  <1>2. ASSUME NEW t \in S
        PROVE  Pain(g, t) \in Int
    <2> DEFINE f == Payouts(g, t)
    <2>1. \A k \in S : f[k] \in Int
      <3> SUFFICES ASSUME NEW k \in S PROVE f[k] \in Int
        OBVIOUS
      <3>1. g.calls[k] \in Int /\ g.puts[k] \in Int /\ t - k \in Int /\ k - t \in Int
        BY <1>1 DEF OpenInterest
      <3>2. \A x, y \in Int : x * y \in Int
        OBVIOUS
      <3> QED
        BY <3>1, <3>2 DEF Payouts
    <2>2. Pain(g, t) = SumOver(f, S)
      BY DEF Pain, Payouts
    <2> HIDE DEF f, S
    <2> QED
      BY <1>1, <2>1, <2>2, SumInt
  <1>3. \A t \in S : key[t] = Pain(g, t) /\ key[t] \in Int
    BY <1>2
  <1> HIDE DEF key
  <1>4. \E m \in S : \A t \in S : key[m] < key[t] \/ (key[m] = key[t] /\ m <= t)
    <2> HIDE DEF S
    <2> QED
      BY <1>1, <1>3, LowestOfFirst
  <1>5. \E m \in S : \A t \in S : Pain(g, m) < Pain(g, t) \/ (Pain(g, m) = Pain(g, t) /\ m <= t)
    BY <1>3, <1>4
  <1> QED
    BY <1>2, <1>5 DEF MaxPainStrike

LEMMA PainBalances ==
    ASSUME NEW g, OpenInterest(g), Strikes(g) # {}
    PROVE  LET m == MaxPainStrike(g)
           IN  /\ \A s \in Strikes(g) : s < m => Balance(g, s) < 0
               /\ m # Greatest(Strikes(g)) => Balance(g, m) >= 0
  <1> DEFINE S == Strikes(g)
             m == MaxPainStrike(g)
  <1>1. IsFiniteSet(S) /\ S \in SUBSET Int
    BY DEF OpenInterest, Listed
  <1>2. /\ m \in S
        /\ \A t \in S : Pain(g, m) < Pain(g, t) \/ (Pain(g, m) = Pain(g, t) /\ m <= t)
        /\ \A t \in S : Pain(g, t) \in Int
    BY MaxPainIsLeast
  <1>3. \A s \in S : Balance(g, s) \in Int
    BY <1>1, BalanceIs
  <1> HIDE DEF m
  <1>4. ASSUME NEW s \in S, s < m
        PROVE  Balance(g, s) < 0
    <2> DEFINE B == {k \in S : k < m}
               p == Greatest(B)
    <2>1. p \in B /\ \A k \in B : k <= p
      <3>1. B \in SUBSET Int /\ IsFiniteSet(B) /\ B # {}
        BY <1>1, <1>4, FS_Subset
      <3> HIDE DEF B
      <3> QED
        BY <3>1, GreatestIsGreatest
    <2> HIDE DEF p
    <2>2. p \in S /\ p < m /\ s <= p /\ \A k \in S : k <= p \/ m <= k
      BY <1>1, <1>2, <1>4, <2>1
    <2>3. Pain(g, m) = Pain(g, p) + (m - p) * Balance(g, p)
      BY <1>2, <2>2, PainStep
    <2>4. Pain(g, m) < Pain(g, p)
      BY <1>1, <1>2, <2>2
    <2>5. Balance(g, p) < 0
      <3>1. \A gap, x \in Int : gap > 0 /\ gap * x < 0 => x < 0
        OBVIOUS
      <3>2. m - p \in Int /\ m - p > 0
        BY <1>1, <1>2, <2>2
      <3>3. (m - p) * Balance(g, p) < 0
        <4>1. \A x \in Int, y, z \in Int : x = y + z /\ x < y => z < 0
          OBVIOUS
        <4>2. (m - p) * Balance(g, p) \in Int
          BY <1>3, <2>2, <3>2
        <4> QED
          BY <1>2, <2>2, <2>3, <2>4, <4>1, <4>2
      <3> QED
        BY <1>3, <2>2, <3>1, <3>2, <3>3
    <2>6. Balance(g, s) <= Balance(g, p)
      BY <1>1, <2>2, BalanceGrows
    <2> QED
      BY <1>3, <2>2, <2>5, <2>6
  <1>5. ASSUME m # Greatest(S)
        PROVE  Balance(g, m) >= 0
    <2> DEFINE B == {k \in S : k > m}
               n == Least(B)
    <2>1. B # {}
      <3> SUFFICES ASSUME B = {} PROVE FALSE
        OBVIOUS
      <3>1. \A k \in S : k <= m
        BY <1>1, <1>2
      <3>2. Greatest(S) \in S /\ \A k \in S : k <= Greatest(S)
        BY <1>1, <1>2, GreatestIsGreatest
      <3> QED
        BY <1>1, <1>2, <1>5, <3>1, <3>2
    <2>2. n \in B /\ \A k \in B : n <= k
      <3>1. B \in SUBSET Int /\ IsFiniteSet(B)
        BY <1>1, FS_Subset
      <3> HIDE DEF B
      <3> QED
        BY <2>1, <3>1, LeastIsLeast
    <2> HIDE DEF n
    <2>3. n \in S /\ m < n /\ \A k \in S : k <= m \/ n <= k
      BY <1>1, <1>2, <2>2
    <2>4. Pain(g, n) = Pain(g, m) + (n - m) * Balance(g, m)
      BY <1>2, <2>3, PainStep
    <2>5. Pain(g, m) <= Pain(g, n)
      BY <1>2, <2>3
    <2>6. \A gap, x \in Int : gap > 0 /\ gap * x >= 0 => x >= 0
      OBVIOUS
    <2>7. n - m \in Int /\ n - m > 0
      BY <1>1, <1>2, <2>3
    <2>8. (n - m) * Balance(g, m) >= 0
      <3>1. \A x, y, z \in Int : x = y + z /\ y <= x => z >= 0
        OBVIOUS
      <3>2. (n - m) * Balance(g, m) \in Int
        BY <1>2, <1>3, <2>7
      <3> QED
        BY <1>2, <2>3, <2>4, <2>5, <3>1, <3>2
    <2> QED
      BY <1>2, <1>3, <2>6, <2>7, <2>8
  <1> QED
    BY <1>4, <1>5 DEF m

LEMMA AnsweredBalances == Answered => MaxPainBalances
  <1> SUFFICES ASSUME Answered, id = "max_pain_oi", ~NoChain(view)
               PROVE  LET m == MaxPainStrike(view)
                      IN  /\ \A s \in Strikes(view) : s < m => CallsTo(view, s) < PutsPast(view, s)
                          /\ m # Greatest(Strikes(view)) => CallsTo(view, m) >= PutsPast(view, m)
    BY DEF MaxPainBalances, CallsTo, PutsPast
  <1>1. OpenInterest(view) /\ Strikes(view) # {}
    BY GammaAnswered, ChainsAssumption DEF OpenInterest, NoChain, GammaIds
  <1> DEFINE m == MaxPainStrike(view)
  <1>2. m \in Strikes(view) /\ Strikes(view) \subseteq Int
    BY <1>1, MaxPainIsLeast DEF OpenInterest, Listed
  <1>3. \A s \in Strikes(view) : s < m => Balance(view, s) < 0
    BY <1>1, PainBalances
  <1>4. m # Greatest(Strikes(view)) => Balance(view, m) >= 0
    BY <1>1, PainBalances
  <1>5. \A s \in Strikes(view) : /\ Balance(view, s) = CallsTo(view, s) - PutsPast(view, s)
                                 /\ CallsTo(view, s) \in Nat /\ PutsPast(view, s) \in Nat
    BY <1>1, <1>2, BalanceIs
  <1> HIDE DEF m
  <1>6. \A s \in Strikes(view) : s < m => CallsTo(view, s) < PutsPast(view, s)
    BY <1>3, <1>5
  <1>7. m # Greatest(Strikes(view)) => CallsTo(view, m) >= PutsPast(view, m)
    BY <1>2, <1>4, <1>5
  <1> QED
    BY <1>6, <1>7 DEF m

(* The strike that the options_metrics search finds is where the balance   *)
(* of calls below and puts above turns, for every chain of open interest.  *)
THEOREM MaxPainAlwaysBalances == Spec => []MaxPainBalances
  <1>1. Spec => []Answered
    BY AnsweredInit, AnsweredNext, PTL DEF Spec
  <1> QED
    BY <1>1, AnsweredBalances, PTL

-----------------------------------------------------------------------------
(* The flip.  A curve that rises crosses zero once, at a point of the grid *)
(* or between two neighbours, and a spot that is not between those is on   *)
(* the side of the flip that the sign of the total tells.                  *)
Curve(c) == /\ Listed(DOMAIN c)
            /\ \A p \in DOMAIN c : c[p] \in Int
Inner(c)   == DOMAIN c \ {Greatest(DOMAIN c)}
After(c, p) == Least({q \in DOMAIN c : q > p})
Turns(c)   == {p \in Inner(c) : c[p] * c[After(c, p)] < 0}
Zeros(c)   == {p \in Inner(c) : c[p] = 0}
AtZero(p)  == [num |-> p, den |-> 1]
AtTurn(c, p) == ZeroBetween(p, After(c, p), c[p], c[After(c, p)])
Steep(c)   == \A p, q \in DOMAIN c : p < q => c[p] < c[q]

LEMMA CrossingsAre ==
    ASSUME NEW c
    PROVE  Crossings(c) = {AtZero(p) : p \in Zeros(c)} \cup {AtTurn(c, p) : p \in Turns(c)}
  BY DEF Crossings, Zeros, Turns, AtZero, AtTurn, Inner, After

LEMMA NextPoint ==
    ASSUME NEW c, Curve(c), NEW p \in Inner(c)
    PROVE  /\ p \in DOMAIN c /\ After(c, p) \in DOMAIN c /\ p < After(c, p)
           /\ p \in Int /\ After(c, p) \in Int /\ c[p] \in Int /\ c[After(c, p)] \in Int
           /\ \A q \in DOMAIN c : q <= p \/ After(c, p) <= q
  <1> DEFINE G == DOMAIN c
             B == {q \in G : q > p}
  <1>1. G \in SUBSET Int /\ IsFiniteSet(G) /\ p \in G /\ p # Greatest(G)
    BY DEF Curve, Listed, Inner
  <1>2. Greatest(G) \in G /\ \A q \in G : q <= Greatest(G)
    <2> HIDE DEF G
    <2> QED
      BY <1>1, GreatestIsGreatest
  <1>3. B \in SUBSET Int /\ B # {} /\ IsFiniteSet(B)
    BY <1>1, <1>2, FS_Subset
  <1>4. Least(B) \in B /\ \A q \in B : Least(B) <= q
    <2> HIDE DEF B
    <2> QED
      BY <1>3, LeastIsLeast
  <1>5. After(c, p) = Least(B)
    BY DEF After
  <1> DEFINE n == After(c, p)
  <1>6. n \in G /\ p < n /\ \A q \in G : q <= p \/ n <= q
    BY <1>1, <1>4, <1>5
  <1>7. c[p] \in Int /\ c[n] \in Int
    BY <1>1, <1>6 DEF Curve
  <1> QED
    BY <1>1, <1>6, <1>7 DEF n

(* Where a steep curve turns it is negative before and positive after.     *)
LEMMA TurnsUp ==
    ASSUME NEW c, Curve(c), Steep(c), NEW p \in Turns(c)
    PROVE  /\ c[p] < 0 /\ 0 < c[After(c, p)]
           /\ AtTurn(c, p).num = p * c[After(c, p)] - After(c, p) * c[p]
           /\ AtTurn(c, p).den = c[After(c, p)] - c[p]
  <1>1. /\ p \in DOMAIN c /\ After(c, p) \in DOMAIN c /\ p < After(c, p)
        /\ c[p] \in Int /\ c[After(c, p)] \in Int
    BY NextPoint DEF Turns
  <1>2. c[p] < c[After(c, p)]
    BY <1>1 DEF Steep
  <1>3. \A x, y \in Int : x < y /\ x * y < 0 => x < 0 /\ 0 < y
    OBVIOUS
  <1>4. c[p] * c[After(c, p)] < 0
    BY DEF Turns
  <1>5. /\ AtTurn(c, p).num = p * c[After(c, p)] - After(c, p) * c[p]
        /\ AtTurn(c, p).den = c[After(c, p)] - c[p]
    BY <1>2 DEF AtTurn, ZeroBetween
  <1> QED
    BY <1>1, <1>2, <1>3, <1>4, <1>5

LEMMA OneCrossing ==
    ASSUME NEW c, Curve(c), Steep(c), NEW a \in Crossings(c)
    PROVE  Crossings(c) = {a}
  <1>1. \A p, q \in DOMAIN c : /\ p \in Int /\ q \in Int /\ c[p] \in Int /\ c[q] \in Int
                               /\ p < q => c[p] < c[q]
    BY DEF Curve, Listed, Steep
  <1>2. \A p \in Zeros(c) : p \in DOMAIN c /\ c[p] = 0
    BY DEF Zeros, Inner
  <1>3. \A p \in Turns(c) : /\ p \in DOMAIN c /\ After(c, p) \in DOMAIN c
                            /\ c[p] < 0 /\ 0 < c[After(c, p)]
                            /\ \A q \in DOMAIN c : q <= p \/ After(c, p) <= q
    BY NextPoint, TurnsUp DEF Turns
  <1>4. \A p, q \in Zeros(c) : p = q
    BY <1>1, <1>2
  <1>5. ASSUME NEW p \in Turns(c), NEW q \in DOMAIN c, c[q] = 0
        PROVE  FALSE
    BY <1>1, <1>3, <1>5
  <1>6. ASSUME NEW p \in Turns(c), NEW q \in Turns(c), p < q
        PROVE  FALSE
    BY <1>1, <1>3, <1>6
  <1>7. \A p, q \in Turns(c) : p = q
    BY <1>1, <1>3, <1>6
  <1>8. \A p \in Turns(c), q \in Zeros(c) : FALSE
    BY <1>2, <1>5
  <1>9. ASSUME NEW b \in Crossings(c)
        PROVE  b = a
    BY <1>4, <1>7, <1>8, <1>9, CrossingsAre
  <1> QED
    BY <1>9

LEMMA FlipIsCrossing ==
    ASSUME NEW c, Curve(c), Steep(c), NEW spot \in Int, Crossings(c) # {}
    PROVE  NearestFlip(c, spot) \in Crossings(c)
  <1>1. PICK a \in Crossings(c) : TRUE
    OBVIOUS
  <1>2. Crossings(c) = {a}
    BY <1>1, OneCrossing
  <1>3. a.num \in Int /\ a.den \in Int
    <2>1. ASSUME NEW p \in Zeros(c), a = AtZero(p)
          PROVE  a.num \in Int /\ a.den \in Int
      BY <2>1 DEF Zeros, Inner, AtZero, Curve, Listed
    <2>2. ASSUME NEW p \in Turns(c), a = AtTurn(c, p)
          PROVE  a.num \in Int /\ a.den \in Int
      <3>1. p \in Int /\ After(c, p) \in Int /\ c[p] \in Int /\ c[After(c, p)] \in Int
        BY NextPoint DEF Turns
      <3> QED
        BY <2>2, <3>1, TurnsUp
    <2> QED
      BY <1>1, <2>1, <2>2, CrossingsAre
  <1>4. a.num * a.den <= a.num * a.den
    BY <1>3
  <1> QED
    BY <1>2, <1>4 DEF NearestFlip

(* The total is what the curve would be at the spot.                       *)
LEMMA FlipTells ==
    ASSUME NEW c, Curve(c), Steep(c), NEW spot \in Int, NEW total \in Int,
           Crossings(c) # {},
           \A p \in DOMAIN c : /\ p < spot => c[p] < total
                               /\ spot < p => total < c[p]
                               /\ p = spot => (c[p] > 0 <=> total > 0) /\ (c[p] < 0 <=> total < 0),
           \A p, q \in DOMAIN c :
              /\ p < spot /\ spot < q /\ c[p] < 0 /\ 0 < c[q]
              => \E x \in DOMAIN c : ~(x <= p \/ q <= x)
    PROVE  Past(NearestFlip(c, spot), spot) >= 0 <=> total >= 0
  <1> DEFINE f == NearestFlip(c, spot)
  <1>1. f \in Crossings(c)
    BY FlipIsCrossing
  <1> HIDE DEF f
  <1>2. ASSUME NEW p \in Zeros(c), f = AtZero(p)
        PROVE  Past(f, spot) >= 0 <=> total >= 0
    <2>1. p \in DOMAIN c /\ p \in Int /\ c[p] = 0
      BY DEF Zeros, Inner, Curve, Listed
    <2>2. Past(f, spot) = spot - p
      BY <1>2, <2>1 DEF Past, AtZero
    <2>3. p <= spot <=> total >= 0
      BY <2>1
    <2> QED
      BY <2>1, <2>2, <2>3
  <1>3. ASSUME NEW p \in Turns(c), f = AtTurn(c, p)
        PROVE  Past(f, spot) >= 0 <=> total >= 0
    <2> DEFINE q == After(c, p)
    <2>1. /\ p \in DOMAIN c /\ q \in DOMAIN c /\ p < q
          /\ p \in Int /\ q \in Int /\ c[p] \in Int /\ c[q] \in Int
          /\ \A x \in DOMAIN c : x <= p \/ q <= x
      BY NextPoint DEF Turns
    <2>2. /\ c[p] < 0 /\ 0 < c[q]
          /\ f.num = p * c[q] - q * c[p] /\ f.den = c[q] - c[p]
      BY <1>3, TurnsUp
    <2>3. spot <= p \/ q <= spot
      BY <2>1, <2>2
    <2>4. Past(f, spot) = spot * (c[q] - c[p]) - (p * c[q] - q * c[p])
      BY <2>2 DEF Past
    <2> HIDE DEF q
    <2>5. \A x, y, s, u, v \in Int :
             s * (y - x) - (u * y - v * x) = (s - u) * y - (s - v) * x
      OBVIOUS
    <2>6. Past(f, spot) = (spot - p) * c[q] - (spot - q) * c[p]
      BY <2>1, <2>4, <2>5
    <2>7. \A d, e, x, y \in Int : x < 0 /\ 0 < y =>
             /\ 0 < d /\ 0 <= e => d * y - e * x > 0
             /\ d <= 0 /\ e < 0 => d * y - e * x < 0
      <3>1. \A d, y \in Int : 0 < y => /\ 0 < d => d * y > 0
                                       /\ d <= 0 => d * y <= 0
        OBVIOUS
      <3>2. \A e, x \in Int : x < 0 => /\ 0 <= e => e * x <= 0
                                       /\ e < 0 => e * x > 0
        OBVIOUS
      <3> SUFFICES ASSUME NEW d \in Int, NEW e \in Int, NEW x \in Int, NEW y \in Int,
                          x < 0, 0 < y
                   PROVE  /\ 0 < d /\ 0 <= e => d * y - e * x > 0
                          /\ d <= 0 /\ e < 0 => d * y - e * x < 0
        OBVIOUS
      <3> DEFINE dy == d * y
                 ex == e * x
      <3>3. dy \in Int /\ ex \in Int
        OBVIOUS
      <3>4. /\ 0 < d => dy > 0
            /\ d <= 0 => dy <= 0
        BY <3>1
      <3>5. /\ 0 <= e => ex <= 0
            /\ e < 0 => ex > 0
        BY <3>2
      <3> HIDE DEF dy, ex
      <3>6. /\ 0 < d /\ 0 <= e => dy - ex > 0
            /\ d <= 0 /\ e < 0 => dy - ex < 0
        BY <3>3, <3>4, <3>5
      <3> QED
        BY <3>6 DEF dy, ex
    <2>8. CASE q <= spot
      <3>1. total > 0
        <4>1. q < spot => c[q] < total
          BY <2>1
        <4>2. q = spot => total > 0
          BY <2>1, <2>2
        <4>3. q < spot \/ q = spot
          BY <2>1, <2>8
        <4> DEFINE y == c[q]
        <4>4. y \in Int /\ 0 < y /\ (q < spot => y < total)
          BY <2>1, <2>2, <4>1
        <4> HIDE DEF y
        <4>5. \A t \in Int : y < t => t > 0
          BY <4>4
        <4> QED
          BY <4>2, <4>3, <4>4, <4>5
      <3>2. 0 < spot - p /\ 0 <= spot - q /\ spot - p \in Int /\ spot - q \in Int
        BY <2>1, <2>8
      <3>3. Past(f, spot) > 0
        BY <2>1, <2>2, <2>6, <2>7, <3>2
      <3>4. Past(f, spot) \in Int
        BY <2>1, <2>6
      <3> QED
        BY <3>1, <3>3, <3>4
    <2>9. CASE spot <= p
      <3>1. total < 0
        <4>1. spot < p => total < c[p]
          BY <2>1
        <4>2. p = spot => total < 0
          BY <2>1, <2>2
        <4> QED
          BY <2>1, <2>2, <2>9, <4>1, <4>2
      <3>2. spot - p <= 0 /\ spot - q < 0 /\ spot - p \in Int /\ spot - q \in Int
        BY <2>1, <2>9
      <3>3. Past(f, spot) < 0
        BY <2>1, <2>2, <2>6, <2>7, <3>2
      <3>4. Past(f, spot) \in Int
        BY <2>1, <2>6
      <3> QED
        BY <3>1, <3>3, <3>4
    <2> QED
      BY <2>3, <2>8, <2>9
  <1> QED
    BY <1>1, <1>2, <1>3, CrossingsAre DEF f

LEMMA AnsweredAgrees == Answered => RegimesAgree
  <1> SUFFICES ASSUME Answered, id \in GammaIds, Rising(view), ~NextToFlip(view)
               PROVE  SpxPositive(view) <=> PositiveRegime(view)
    BY DEF RegimesAgree
  <1> DEFINE c == view.curve
             spot == view.spot
             total == TotalGex(view)
  <1>1. Curve(c) /\ spot \in Int /\ Consistent(view) /\ Chain(view)
    BY GammaAnswered, ChainsAssumption DEF Curve, Chain, Listed
  <1>2. total \in Int
    BY <1>1, SumInt DEF TotalGex, Chain
  <1>3. CASE Crossings(c) = {}
    BY <1>3 DEF SpxPositive, Flip, NearestFlip
  <1>4. CASE Crossings(c) # {}
    <2>1. Steep(c)
      BY DEF Rising, Steep
    <2>2. \A p \in DOMAIN c : /\ p < spot => c[p] < total
                              /\ spot < p => total < c[p]
                              /\ p = spot => /\ c[p] > 0 <=> total > 0
                                             /\ c[p] < 0 <=> total < 0
      BY <1>1 DEF Rising, Consistent
    <2>3. \A p, q \in DOMAIN c : /\ p < spot /\ spot < q /\ c[p] < 0 /\ 0 < c[q]
                                 => \E x \in DOMAIN c : ~(x <= p \/ q <= x)
      BY DEF NextToFlip
    <2>4. PositiveRegime(view) <=> total >= 0
      BY DEF PositiveRegime
    <2>5. SpxPositive(view) <=> Past(NearestFlip(c, spot), spot) >= 0
      <3>1. NearestFlip(c, spot) # NoFlip
        <4>1. NearestFlip(c, spot) \in Crossings(c)
          BY <1>1, <1>4, <2>1, FlipIsCrossing
        <4>2. \A p \in Zeros(c) : AtZero(p).den # NoFlip.den
          BY DEF AtZero, NoFlip
        <4>3. ASSUME NEW p \in Turns(c)
              PROVE  AtTurn(c, p).den # NoFlip.den
          <5>1. c[p] \in Int /\ c[After(c, p)] \in Int
            BY <1>1, NextPoint DEF Turns
          <5> QED
            BY <1>1, <2>1, <5>1, TurnsUp DEF NoFlip
        <4> QED
          BY <4>1, <4>2, <4>3, CrossingsAre
      <3> QED
        BY <3>1 DEF SpxPositive, Flip
    <2> HIDE DEF c, spot, total
    <2>6. Past(NearestFlip(c, spot), spot) >= 0 <=> total >= 0
      BY <1>1, <1>2, <1>4, <2>1, <2>2, <2>3, FlipTells
    <2> QED
      BY <2>4, <2>5, <2>6
  <1> QED
    BY <1>3, <1>4

(* Where the exposure rises with the price, the scanner that compares the  *)
(* spot with the flip and those that look at the sign of the total agree,  *)
(* unless the spot is between the two points of the grid around the flip.  *)
THEOREM RegimesAlwaysAgree == Spec => []RegimesAgree
  <1>1. Spec => []Answered
    BY AnsweredInit, AnsweredNext, PTL DEF Spec
  <1> QED
    BY <1>1, AnsweredAgrees, PTL

-----------------------------------------------------------------------------
(* The shape of an answer, scanner by scanner: a side, a rule and a price  *)
(* that are ones, and a rule that does not hold at the price it was given. *)
Shaped(r) == /\ r.triggered \in BOOLEAN /\ r.side \in Sides /\ r.price \in Int
             /\ r.rule.cmp \in {"lt", "gt", "crosses", "none"}
Ahead(r, price) == Directional(r) => ~Hit(r.rule, price)
Fits(r, price) == Shaped(r) /\ Ahead(r, price)

LEMMA QuietFits ==
    \A cls, price : Fits(Quiet(cls), price)
  BY DEF Fits, Shaped, Ahead, Directional, Quiet, Result, Sides, NoSide, NoRule, NoLevel

LEMMA ResultFits ==
    ASSUME NEW on \in BOOLEAN, NEW side \in Sides, NEW cls, NEW price \in Int, NEW rule,
           rule.cmp \in {"lt", "gt", "crosses", "none"}
    PROVE  /\ Shaped(Result(on, side, cls, price, rule))
           /\ rule.cmp \in {"crosses", "none"}
                 => \A p : Ahead(Result(on, side, cls, price, rule), p)
  BY DEF Shaped, Ahead, Hit, Result

(* A rule that is no comparison is never hit.                              *)
LEMMA PlainFits ==
    ASSUME NEW on \in BOOLEAN, NEW side \in Sides, NEW cls, NEW price \in Int, NEW rule,
           rule.cmp \in {"crosses", "none"}, NEW p
    PROVE  Fits(Result(on, side, cls, price, rule), p)
  BY DEF Fits, Shaped, Ahead, Hit, Result

LEMMA FireFits ==
    ASSUME NEW side \in Sides, NEW cls, NEW price \in Int, NEW rule,
           rule.cmp \in {"crosses", "none"}, NEW p
    PROVE  Fits(Fire(side, cls, price, rule), p)
  BY DEF Fits, Shaped, Ahead, Hit, Fire, Result

LEMMA SideOfIsSide ==
    \A up : SideOf(up) \in Sides /\ SideOf(up) \in {LONG, SHORT}
  BY DEF SideOf, Sides, LONG, SHORT

LEMMA RulesAreRules ==
    \A level : /\ Below(level).cmp = "lt" /\ Above(level).cmp = "gt" /\ NoRule.cmp = "none"
               /\ Crosses(level).cmp \in {"crosses", "none"}
  BY DEF Below, Above, Crosses, NoRule

LEMMA FlipIsRule ==
    \A g : FlipRule(g).cmp \in {"crosses", "none"}
  BY RulesAreRules DEF FlipRule

Bar(x) == /\ x.c \in Int /\ x.h \in Int /\ x.l \in Int /\ x.l <= x.c /\ x.c <= x.h
          /\ x.ph \in Int /\ x.pl \in Int /\ x.hi \in Int /\ x.lo \in Int
          /\ x.prev \in Int /\ x.avwap \in Int /\ x.atr \in Nat /\ x.stat \in Int

(* Answers without a rule, or with no direction.                           *)
LEMMA PlainAnswers ==
    ASSUME NEW x, NEW p
    PROVE  /\ Fits(TrendExhaustion(x), p) /\ Fits(MomentumIgnition(x), p)
           /\ Fits(SqueezeCompression(x), p) /\ Fits(BiggerMove(x), p)
           /\ Fits(AccumulationDistribution(x), p) /\ Fits(VolumeDivergence(x), p)
           /\ Fits(VolumeDryUpReversal(x), p) /\ Fits(RvolExpansion(x), p)
           /\ Fits(VolatilityRegime(x), p) /\ Fits(AnomalyDetection(x), p)
           /\ Fits(PullbackClassifier(x), p) /\ Fits(CustomRule(x), p)
           /\ Fits(Seasonality(x), p) /\ Fits(RegimeClassification(x), p)
  <1>1. ASSUME NEW on \in BOOLEAN, NEW side \in Sides, NEW cls
        PROVE  Fits(Result(on, side, cls, NoLevel, NoRule), p)
    BY ResultFits, RulesAreRules DEF Fits, NoLevel
  <1>2. ASSUME NEW cls
        PROVE  /\ \A up : Fits(Fire(SideOf(up), cls, NoLevel, NoRule), p)
               /\ Fits(Fire(NoSide, cls, NoLevel, NoRule), p)
    BY <1>1, SideOfIsSide DEF Fire, Sides
  <1>3. ASSUME NEW on \in BOOLEAN, NEW up, NEW cls
        PROVE  Fits(Result(on, IF on THEN SideOf(up) ELSE NoSide, cls, NoLevel, NoRule), p)
    BY <1>1, SideOfIsSide DEF Sides
  <1>4. /\ Fits(TrendExhaustion(x), p) /\ Fits(MomentumIgnition(x), p)
        /\ Fits(SqueezeCompression(x), p) /\ Fits(BiggerMove(x), p)
    BY <1>2, QuietFits DEF TrendExhaustion, MomentumIgnition, SqueezeCompression, BiggerMove
  <1>5. /\ Fits(AccumulationDistribution(x), p) /\ Fits(VolumeDivergence(x), p)
        /\ Fits(VolumeDryUpReversal(x), p) /\ Fits(RvolExpansion(x), p)
    BY <1>2, QuietFits
       DEF AccumulationDistribution, VolumeDivergence, VolumeDryUpReversal, RvolExpansion
  <1>6. Fits(VolatilityRegime(x), p) /\ Fits(AnomalyDetection(x), p)
    BY <1>2, QuietFits DEF VolatilityRegime, AnomalyDetection
  <1>7. Fits(PullbackClassifier(x), p)
    <2> DEFINE on == PullbackReason(x) \in {"value_retest", "low_volume_pullback"}
               cls == PullbackReason(x)
               up == x.trend > 0
    <2>1. PullbackClassifier(x) \in
             {Quiet("no_trend"), Result(on, IF on THEN SideOf(up) ELSE NoSide, cls, NoLevel, NoRule)}
      BY DEF PullbackClassifier
    <2>2. on \in BOOLEAN
      OBVIOUS
    <2> HIDE DEF on, cls, up
    <2> QED
      BY <1>3, <2>1, <2>2, QuietFits
  <1>8. Fits(CustomRule(x), p)
    <2> DEFINE on == x.held > 0 /\ x.failed = 0
               cls == IF on THEN "rule_hit" ELSE "rule_miss"
               up == x.now
    <2>1. CustomRule(x) \in
             {Quiet("no_conditions"), Result(on, IF on THEN SideOf(up) ELSE NoSide, cls, NoLevel, NoRule)}
      BY DEF CustomRule
    <2>2. on \in BOOLEAN
      OBVIOUS
    <2> HIDE DEF on, cls, up
    <2> QED
      BY <1>3, <2>1, <2>2, QuietFits
  <1>9. Fits(Seasonality(x), p)
    <2> DEFINE on == 2 * Abs(x.stat) >= 3 /\ Abs(x.win - 50) >= 8
               cls == IF on THEN "seasonal_edge" ELSE "no_edge"
               up == x.stat > 0
    <2>1. Seasonality(x) \in
             {Quiet("insufficient_samples"), Result(on, IF on THEN SideOf(up) ELSE NoSide, cls, NoLevel, NoRule)}
      BY DEF Seasonality
    <2>2. on \in BOOLEAN
      OBVIOUS
    <2> HIDE DEF on, cls, up
    <2> QED
      BY <1>3, <2>1, <2>2, QuietFits
  <1>10. Fits(RegimeClassification(x), p)
    <2> DEFINE on == x.enough /\ Abs(x.stat) >= 2 /\ Abs(x.win - 50) >= 6
               up == x.stat > 0
    <2>1. RegimeClassification(x) =
             Result(on, IF on THEN SideOf(up) ELSE NoSide, "regime", NoLevel, NoRule)
      BY DEF RegimeClassification
    <2>2. on \in BOOLEAN
      OBVIOUS
    <2> HIDE DEF on, up
    <2> QED
      BY <1>3, <2>1, <2>2
  <1> QED
    BY <1>4, <1>5, <1>6, <1>7, <1>8, <1>9, <1>10

(* Answers whose rule is a level of the bars.                              *)
LEMMA LevelAnswers ==
    ASSUME NEW x, Bar(x)
    PROVE  /\ Fits(AnchoredVwap(x), x.c) /\ Fits(OpeningRange(x), x.c)
           /\ Fits(LiquiditySweep(x), x.c) /\ Fits(ShortTrap(x), x.c)
           /\ Fits(LongTrap(x), x.c) /\ Fits(FailedMove(x), x.c)
           /\ Fits(ReversalMaster(x), x.c) /\ Fits(Gap(x), x.c)
           /\ Fits(BreakoutQuality(x), x.c)
  <1>1. ASSUME NEW level \in Int, level <= x.c, NEW cls
        PROVE  Fits(Fire(LONG, cls, x.c, Below(level)), x.c)
    BY <1>1 DEF Fits, Shaped, Ahead, Directional, Hit, Fire, Result, Below, Sides, Bar
  <1>2. ASSUME NEW level \in Int, x.c <= level, NEW cls
        PROVE  Fits(Fire(SHORT, cls, x.c, Above(level)), x.c)
    BY <1>2 DEF Fits, Shaped, Ahead, Directional, Hit, Fire, Result, Above, Sides, Bar
  <1>3. ASSUME NEW on \in BOOLEAN, NEW side \in Sides, NEW cls
        PROVE  Fits(Result(on, side, cls, x.c, NoRule), x.c)
    BY ResultFits, RulesAreRules DEF Fits, Bar
  <1>4. Fits(AnchoredVwap(x), x.c)
    <2>1. Fits(Result(FALSE, NoSide, "avwap_test", x.c, NoRule), x.c)
      BY <1>3 DEF Sides
    <2> QED
      BY <1>1, <1>2, <2>1, QuietFits DEF AnchoredVwap, Bar
  <1>5. /\ Fits(OpeningRange(x), x.c) /\ Fits(LiquiditySweep(x), x.c)
        /\ Fits(FailedMove(x), x.c)
    BY <1>1, <1>2, QuietFits DEF OpeningRange, LiquiditySweep, FailedMove, Bar
  <1>6. Fits(ShortTrap(x), x.c) /\ Fits(LongTrap(x), x.c)
    BY <1>1, <1>2, QuietFits DEF ShortTrap, LongTrap, Bar
  <1>7. Fits(ReversalMaster(x), x.c)
    BY <1>1, <1>2, QuietFits DEF ReversalMaster, Bar
  <1>8. Fits(Gap(x), x.c)
    <2>1. CASE x.prev = NoLevel \/ x.stat = 0
      BY <2>1, QuietFits DEF Gap
    <2>2. CASE x.prev # NoLevel /\ x.stat > 0
      <3>1. Gap(x) \in {Fire(SideOf(x.stat < 0), "gap_fill", x.c, NoRule),
                        Fire(SideOf(x.stat > 0), "gap_and_go", x.c, Below(x.prev))}
        BY <2>2 DEF Gap, Bar
      <3>2. x.c > x.prev => Gap(x) = Fire(SideOf(x.stat > 0), "gap_and_go", x.c, Below(x.prev))
        BY <2>2 DEF Gap, Bar
      <3>3. x.c <= x.prev => Gap(x) = Fire(SideOf(x.stat < 0), "gap_fill", x.c, NoRule)
        BY <2>2 DEF Gap, Bar
      <3>4. SideOf(x.stat > 0) = LONG
        BY <2>2 DEF SideOf
      <3>5. Fits(Fire(SideOf(x.stat < 0), "gap_fill", x.c, NoRule), x.c)
        BY <1>3, SideOfIsSide DEF Fire
      <3> QED
        BY <1>1, <3>2, <3>3, <3>4, <3>5 DEF Bar
    <2>3. CASE x.prev # NoLevel /\ x.stat < 0
      <3>2. x.c < x.prev => Gap(x) = Fire(SideOf(x.stat > 0), "gap_and_go", x.c, Above(x.prev))
        BY <2>3 DEF Gap, Bar
      <3>3. x.c >= x.prev => Gap(x) = Fire(SideOf(x.stat < 0), "gap_fill", x.c, NoRule)
        BY <2>3 DEF Gap, Bar
      <3>4. SideOf(x.stat > 0) = SHORT
        BY <2>3 DEF SideOf, Bar
      <3>5. Fits(Fire(SideOf(x.stat < 0), "gap_fill", x.c, NoRule), x.c)
        BY <1>3, SideOfIsSide DEF Fire
      <3> QED
        BY <1>2, <3>2, <3>3, <3>4, <3>5 DEF Bar
    <2> QED
      BY <2>1, <2>2, <2>3 DEF Bar
  <1>9. Fits(BreakoutQuality(x), x.c)
    <2> DEFINE on == BreakoutReaches(x, 500)
               cls == IF BreakoutReaches(x, 700) THEN "breakout_strong" ELSE "breakout_weak"
    <2>1. on \in BOOLEAN
      BY DEF BreakoutReaches
    <2>2. x.c > x.ph => BreakoutQuality(x) \in {Quiet("insufficient_data"),
                                               Result(on, LONG, cls, x.c, Below(x.ph))}
      BY DEF BreakoutQuality
    <2>3. ~(x.c > x.ph) => BreakoutQuality(x) \in {Quiet("insufficient_data"), Quiet("no_breakout")}
      BY DEF BreakoutQuality
    <2> HIDE DEF on, cls
    <2>4. x.c > x.ph => Fits(Result(on, LONG, cls, x.c, Below(x.ph)), x.c)
      BY <2>1 DEF Fits, Shaped, Ahead, Directional, Hit, Result, Below, Sides, Bar
    <2> QED
      BY <2>2, <2>3, <2>4, QuietFits
  <1> QED
    BY <1>4, <1>5, <1>6, <1>7, <1>8, <1>9

LEMMA PullbackAnswers ==
    ASSUME NEW x, Bar(x)
    PROVE  Fits(LowVolumePullback(x), x.c)
  <1>1. ASSUME NEW side \in {LONG, SHORT}, NEW cls
        PROVE  Fits(Fire(side, cls, NoLevel, NoRule), x.c)
    <2>1. side \in Sides /\ NoLevel \in Int /\ NoRule.cmp \in {"crosses", "none"}
      BY RulesAreRules DEF Sides, NoLevel
    <2> QED
      BY <2>1, FireFits
  <1>2. ASSUME x.c > x.lo, NEW cls
        PROVE  Fits(Fire(LONG, cls, NoLevel, Below(x.lo)), x.c)
    BY <1>2 DEF Fits, Shaped, Ahead, Directional, Hit, Fire, Result, Below, Sides, NoLevel, Bar
  <1> QED
    BY <1>1, <1>2, QuietFits DEF LowVolumePullback

LEMMA FewOfFour ==
    ASSUME NEW S, S \subseteq 1..4
    PROVE  S \in SUBSET Int /\ IsFiniteSet(S)
  <1>1. 1 \in Int /\ 4 \in Int
    OBVIOUS
  <1>2. IsFiniteSet(1..4)
    BY <1>1, FS_Interval
  <1>3. IsFiniteSet(S)
    BY <1>2, FS_Subset
  <1> QED
    BY <1>3

(* The nearest levels are entries of a table of four.                      *)
LEMMA KeyLevelAnswers ==
    ASSUME NEW x, Bar(x)
    PROVE  Fits(KeyLevel(x), x.c)
  <1> DEFINE levels == << <<SHORT, x.ph>>, <<LONG, x.pl>>,
                          <<NEUTRAL, x.prev>>, <<NEUTRAL, x.round>> >>
             near == {n \in 1..4 : /\ levels[n][2] # NoLevel
                                   /\ 5 * Abs(x.c - levels[n][2]) <= 2 * x.atr}
             first == levels[Least(near)]
             rule == [level |-> first[2], cmp |-> "none"]
  <1>1. KeyLevel(x) = IF x.atr = 0 THEN Quiet("insufficient_data")
                      ELSE IF near = {} THEN Quiet("no_level_reaction")
                      ELSE Fire(first[1], "at_level", x.c, rule)
    BY DEF KeyLevel
  <1>2. near # {} => Least(near) \in 1..4
    <2>1. near \subseteq 1..4
      OBVIOUS
    <2> HIDE DEF near
    <2> QED
      BY <2>1, FewOfFour, LeastIsLeast
  <1>3. \A n \in 1..4 : levels[n][1] \in Sides
    <2>1. \A n \in 1..4 : n = 1 \/ n = 2 \/ n = 3 \/ n = 4
      OBVIOUS
    <2> QED
      BY <2>1 DEF Sides
  <1>4. rule.cmp = "none"
    OBVIOUS
  <1>5. near # {} => first[1] \in Sides
    BY <1>2, <1>3
  <1> HIDE DEF rule, first, near, levels
  <1>6. near # {} => Fits(Fire(first[1], "at_level", x.c, rule), x.c)
    <2>1. x.c \in Int /\ rule.cmp \in {"crosses", "none"}
      BY <1>4 DEF Bar
    <2> QED
      BY <1>5, <2>1, FireFits
  <1> QED
    BY <1>1, <1>6, QuietFits

LEMMA PocAnswers ==
    ASSUME NEW x, Bar(x)
    PROVE  Shaped(VolumeProfilePoc(x))
  <1> DEFINE accepted == x.rvol >= 12
             outside  == x.c > x.hi \/ x.c < x.lo
             side == IF ~outside THEN NoSide
                     ELSE IF x.c > x.hi THEN SideOf(accepted) ELSE SideOf(~accepted)
             cls  == IF outside THEN "edge_of_value"
                     ELSE IF 5 * Abs(x.c - x.poc) <= x.hi - x.lo THEN "poc_balance"
                     ELSE "inside_value"
             rule == IF side = LONG THEN Below(x.lo) ELSE Above(x.hi)
  <1>1. VolumeProfilePoc(x) = IF x.poc = NoLevel THEN Quiet("insufficient_data")
                              ELSE Result(outside, side, cls, x.c, rule)
    BY DEF VolumeProfilePoc
  <1>2. outside \in BOOLEAN /\ x.c \in Int
    BY DEF Bar
  <1>3. side \in Sides
    BY SideOfIsSide DEF Sides
  <1>4. rule.cmp \in {"lt", "gt", "crosses", "none"}
    BY RulesAreRules
  <1> HIDE DEF rule, side, cls, outside
  <1> QED
    BY <1>1, <1>2, <1>3, <1>4, QuietFits, ResultFits DEF Fits

(* A continuation closes beyond the last swing of its side, and so on the  *)
(* right side of the other one when the two are in order.                  *)
LEMMA StructureAnswers ==
    ASSUME NEW x, Bar(x)
    PROVE  /\ Shaped(MtfStructure(x))
           /\ (x.lo = NoLevel \/ x.hi = NoLevel \/ x.lo <= x.hi) => Ahead(MtfStructure(x), x.c)
  <1> DEFINE bos   == BreakOfStructure(x)
             htf   == IF x.htf = "none" THEN x.trend
                      ELSE IF x.htf = "up" THEN 1 ELSE IF x.htf = "down" THEN -1 ELSE 0
             on    == htf # 0 /\ bos = htf
             watch == ~on /\ ChangeOfCharacter(x) # 0
             side  == IF on \/ watch THEN SideOf(bos > 0) ELSE NoSide
             level == IF side = LONG THEN x.lo ELSE x.hi
             cls   == IF on THEN "continuation" ELSE IF watch THEN "reversal_watch" ELSE "no_trade"
             rule  == IF level = NoLevel THEN NoRule
                      ELSE IF side = LONG THEN Below(level) ELSE Above(level)
  <1>1. MtfStructure(x) = IF ~x.enough THEN Quiet("insufficient_data")
                          ELSE Result(on, side, cls, x.c, rule)
    BY DEF MtfStructure
  <1>2. on \in BOOLEAN /\ x.c \in Int
    BY DEF Bar
  <1>3. side \in Sides
    BY SideOfIsSide DEF Sides
  <1>4. rule.cmp \in {"lt", "gt", "crosses", "none"}
    BY RulesAreRules
  <1>5. ASSUME x.lo = NoLevel \/ x.hi = NoLevel \/ x.lo <= x.hi, on
        PROVE  ~Hit(rule, x.c)
    <2>0. on /\ bos # 0 /\ side = SideOf(bos > 0)
      BY <1>5
    <2>1. CASE bos = 1
      <3>1. side = LONG /\ level = x.lo
        BY <2>0, <2>1 DEF SideOf
      <3>2. x.hi # NoLevel /\ x.c > x.hi
        BY <2>1 DEF BreakOfStructure
      <3>3. rule = IF x.lo = NoLevel THEN NoRule ELSE Below(x.lo)
        BY <3>1
      <3> HIDE DEF rule
      <3> QED
        BY <1>5, <3>2, <3>3 DEF Hit, NoRule, Below, Bar
    <2>2. CASE bos = -1
      <3>1. side = SHORT /\ level = x.hi /\ side # LONG
        BY <2>0, <2>2 DEF SideOf, SHORT, LONG
      <3>2. x.lo # NoLevel /\ x.c < x.lo
        BY <2>2 DEF BreakOfStructure
      <3>3. rule = IF x.hi = NoLevel THEN NoRule ELSE Above(x.hi)
        BY <3>1
      <3> HIDE DEF rule
      <3> QED
        BY <1>5, <3>2, <3>3 DEF Hit, NoRule, Above, Bar
    <2> QED
      BY <2>0, <2>1, <2>2 DEF BreakOfStructure
  <1> HIDE DEF rule, side, cls, on
  <1>6. Shaped(Result(on, side, cls, x.c, rule))
    BY <1>2, <1>3, <1>4, ResultFits
  <1>7. on \in BOOLEAN /\ ~Hit(rule, x.c) => Ahead(Result(on, side, cls, x.c, rule), x.c)
    BY DEF Ahead, Result
  <1>8. ~on => Ahead(Result(on, side, cls, x.c, rule), x.c)
    BY <1>2 DEF Ahead, Directional, Result
  <1> QED
    BY <1>1, <1>2, <1>5, <1>6, <1>7, <1>8, QuietFits DEF Fits

(* Every price scanner but the two of which it is not true as it stands.   *)
LEMMA PriceAnswers ==
    ASSUME NEW i \in PriceIds, NEW x, Bar(x)
    PROVE  /\ Shaped(ScanPrice(i, x))
           /\ \/ i = "volume_profile_poc"
              \/ i = "mtf_structure" /\ ~(x.lo = NoLevel \/ x.hi = NoLevel \/ x.lo <= x.hi)
              \/ Ahead(ScanPrice(i, x), x.c)
  <1>1. CASE i = "mtf_structure"
    BY <1>1, StructureAnswers DEF ScanPrice
  <1>2. CASE i = "volume_profile_poc"
    BY <1>2, PocAnswers DEF ScanPrice
  <1>3. CASE i \notin {"mtf_structure", "volume_profile_poc"}
    <2>1. Fits(ScanPrice(i, x), x.c)
      BY <1>3, PlainAnswers, LevelAnswers, PullbackAnswers, KeyLevelAnswers
         DEF ScanPrice, PriceIds
    <2> QED
      BY <2>1 DEF Fits
  <1> QED
    BY <1>1, <1>2, <1>3

(* Of the gamma scanners only those that fade a wall have a level that can *)
(* be hit, and the wall stands beyond the spot.                            *)
LEMMA CommandFits ==
    ASSUME NEW g, Chain(g)
    PROVE  Fits(SpxGammaCommand(g), g.spot)
  <1>1. ASSUME NEW side \in {LONG, SHORT}, NEW cls
        PROVE  Fits(Fire(side, cls, g.spot, SpxRule(g, side)), g.spot)
    <2> DEFINE r == SpxRule(g, side)
    <2>1. /\ side \in Sides /\ g.spot \in Int
          /\ r.cmp \in {"lt", "gt", "crosses", "none"} /\ ~Hit(r, g.spot)
      <3>1. r \in {FlipRule(g), Above(CallWall(g)), Below(PutWall(g))}
        BY DEF SpxRule
      <3>2. r = Above(CallWall(g)) => ~Hit(r, g.spot)
        <4>1. CASE side = SHORT /\ CallWall(g) # NoLevel
          <5>1. r = Above(CallWall(g))
            BY <4>1 DEF SpxRule
          <5> HIDE DEF r
          <5> QED
            BY <4>1, <5>1, WallsStand DEF Hit, Above, Chain
        <4>2. CASE ~(side = SHORT /\ CallWall(g) # NoLevel)
          <5>1. r \in {FlipRule(g), Below(PutWall(g))}
            BY <4>2 DEF SpxRule
          <5> HIDE DEF r
          <5> QED
            BY <5>1 DEF Above, Below, Crosses, FlipRule
        <4> QED
          BY <4>1, <4>2
      <3>3. r = Below(PutWall(g)) => ~Hit(r, g.spot)
        <4>1. CASE side = LONG /\ PutWall(g) # NoLevel
          <5>1. r = Below(PutWall(g))
            BY <4>1 DEF SpxRule, LONG, SHORT
          <5> HIDE DEF r
          <5> QED
            BY <4>1, <5>1, WallsStand DEF Hit, Below, Chain
        <4>2. CASE ~(side = LONG /\ PutWall(g) # NoLevel)
          <5>1. r \in {FlipRule(g), Above(CallWall(g))}
            BY <4>2 DEF SpxRule
          <5> HIDE DEF r
          <5> QED
            BY <5>1 DEF Above, Below, Crosses, FlipRule
        <4> QED
          BY <4>1, <4>2
      <3>4. r = FlipRule(g) => ~Hit(r, g.spot)
        BY FlipIsRule DEF Hit
      <3> HIDE DEF r
      <3>5. r.cmp \in {"lt", "gt", "crosses", "none"}
        BY <3>1, RulesAreRules, FlipIsRule
      <3> QED
        BY <3>1, <3>2, <3>3, <3>4, <3>5 DEF Sides, Chain
    <2> HIDE DEF r
    <2>2. Fits(Fire(side, cls, g.spot, r), g.spot)
      BY <2>1 DEF Fits, Shaped, Ahead, Fire, Result
    <2> QED
      BY <2>2 DEF r
  <1>2. ASSUME NEW cls
        PROVE  Fits(Result(FALSE, NoSide, cls, g.spot, SpxRule(g, NoSide)), g.spot)
    <2>1. SpxRule(g, NoSide).cmp \in {"crosses", "none"}
      BY RulesAreRules, FlipIsRule DEF SpxRule, NoSide, LONG, SHORT
    <2> QED
      BY <2>1 DEF Fits, Shaped, Ahead, Directional, Result, Sides, Chain
  <1>3. ASSUME NEW up, NEW cls
        PROVE  Fits(Fire(SideOf(up), cls, g.spot, SpxRule(g, SideOf(up))), g.spot)
    BY <1>1, SideOfIsSide
  <1> QED
    BY <1>1, <1>2, <1>3, QuietFits DEF SpxGammaCommand

LEMMA GammaAnswers ==
    ASSUME NEW i \in GammaIds, NEW g, Chain(g)
    PROVE  Fits(ScanGamma(i, g), g.spot)
  <1>1. ASSUME NEW side \in Sides, NEW cls
        PROVE  /\ Fits(Fire(side, cls, g.spot, NoRule), g.spot)
               /\ Fits(Fire(side, cls, NoLevel, NoRule), g.spot)
               /\ Fits(Fire(side, cls, g.spot, FlipRule(g)), g.spot)
    <2>1. /\ g.spot \in Int /\ NoLevel \in Int /\ NoRule.cmp \in {"crosses", "none"}
          /\ FlipRule(g).cmp \in {"crosses", "none"}
      BY RulesAreRules, FlipIsRule DEF Chain, NoLevel
    <2> QED
      BY <2>1, FireFits
  <1>2. ASSUME NEW on \in BOOLEAN, NEW side \in Sides, NEW cls
        PROVE  /\ Fits(Result(on, side, cls, g.spot, NoRule), g.spot)
               /\ Fits(Result(on, side, cls, NoLevel, NoRule), g.spot)
    <2>1. g.spot \in Int /\ NoLevel \in Int /\ NoRule.cmp \in {"crosses", "none"}
      BY RulesAreRules, FlipIsRule DEF Chain, NoLevel
    <2> QED
      BY <2>1, PlainFits
  <1>3. /\ NoSide \in Sides /\ LONG \in Sides /\ SHORT \in Sides
        /\ \A up : SideOf(up) \in Sides
    BY SideOfIsSide DEF Sides
  <1>4. Fits(GammaExposure(g), g.spot) /\ Fits(DealerHedgeFlow(g), g.spot)
    BY <1>1, <1>3, QuietFits DEF GammaExposure, DealerHedgeFlow
  <1>5. Fits(GammaWall(g), g.spot)
    <2>1. ASSUME CallWall(g) # NoLevel, NEW cls
          PROVE  Fits(Fire(SHORT, cls, g.spot, Above(CallWall(g))), g.spot)
      BY <1>3, <2>1, WallsStand
         DEF Fits, Shaped, Ahead, Hit, Fire, Result, Above, Chain
    <2>2. ASSUME PutWall(g) # NoLevel, NEW cls
          PROVE  Fits(Fire(LONG, cls, g.spot, Below(PutWall(g))), g.spot)
      BY <1>3, <2>2, WallsStand
         DEF Fits, Shaped, Ahead, Hit, Fire, Result, Below, Chain
    <2> QED
      BY <2>1, <2>2, QuietFits DEF GammaWall
  <1>6. Fits(GammaSqueeze(g), g.spot)
    BY NoBreach, QuietFits DEF GammaSqueeze
  <1>7. Fits(ExpectedMove(g), g.spot)
    <2> DEFINE from == Or(g.poc, g.spot)
               exceeded == Abs(g.spot - from) > g.straddle
               side == IF exceeded THEN SideOf(g.spot <= from) ELSE NoSide
               cls == IF exceeded THEN "em_exceeded" ELSE "em_inside"
    <2>1. ExpectedMove(g) \in {Quiet("insufficient_data"),
                               Result(exceeded, side, cls, g.spot, NoRule)}
      BY DEF ExpectedMove
    <2>2. exceeded \in BOOLEAN /\ side \in Sides
      BY <1>3
    <2> HIDE DEF exceeded, side, cls
    <2> QED
      BY <1>2, <2>1, <2>2, QuietFits
  <1>8. Fits(PinMagnet(g), g.spot) /\ Fits(MaxPain(g), g.spot)
    BY <1>1, <1>3, QuietFits DEF PinMagnet, MaxPain
  <1>9. Fits(SkewTerm(g), g.spot)
    <2> DEFINE up == g.skew >= 3
               side == IF up THEN SHORT ELSE NoSide
               cls == IF up THEN "put_skew_elevated" ELSE "skew_normal"
    <2>1. SkewTerm(g) \in {Quiet("insufficient_data"), Result(up, side, cls, NoLevel, NoRule)}
      BY DEF SkewTerm
    <2>2. up \in BOOLEAN /\ side \in Sides
      BY <1>3
    <2> HIDE DEF up, side, cls
    <2> QED
      BY <1>2, <2>1, <2>2, QuietFits
  <1>10. Fits(CharmVanna(g), g.spot)
    BY <1>2, <1>3, QuietFits DEF CharmVanna
  <1>11. Fits(OptionsFlow(g), g.spot) /\ Fits(BrokenWingButterfly(g), g.spot)
    BY <1>1, <1>3, QuietFits DEF OptionsFlow, BrokenWingButterfly
  <1>12. Fits(SpxGammaCommand(g), g.spot)
    BY CommandFits
  <1> QED
    BY <1>4, <1>5, <1>6, <1>7, <1>8, <1>9, <1>10, <1>11, <1>12 DEF ScanGamma, GammaIds

(* No market scanner publishes a rule.                                     *)
LEMMA MarketAnswers ==
    ASSUME NEW i, NEW m, NEW p
    PROVE  Fits(ScanMarket(i, m), p)
  <1>1. ASSUME NEW on \in BOOLEAN, NEW side \in Sides, NEW cls
        PROVE  Fits(Lean(on, side, cls), p)
    <2>1. NoLevel \in Int /\ NoRule.cmp \in {"crosses", "none"}
      BY RulesAreRules DEF NoLevel
    <2> QED
      BY <2>1, PlainFits DEF Lean
  <1>2. ASSUME NEW side \in Sides, NEW cls PROVE Fits(Lean(TRUE, side, cls), p)
    BY <1>1
  <1>3. ASSUME NEW on, NEW side \in Sides, NEW cls, NEW other
        PROVE  Fits(When(on, side, cls, other), p)
    BY <1>2, <1>3, QuietFits DEF When
  <1>4. /\ NoSide \in Sides /\ LONG \in Sides /\ SHORT \in Sides
        /\ \A up : SideOf(up) \in Sides
    BY SideOfIsSide DEF Sides
  <1>5. \A u : Fits(MarketBreadth(u), p) /\ Fits(ArmsTrin(u), p) /\ Fits(PctAboveMa(u), p)
    BY <1>1, <1>2, <1>4, QuietFits DEF MarketBreadth, ArmsTrin, PctAboveMa
  <1>6. \A u : Fits(NewHighsLows(u), p)
    BY <1>3, <1>4, QuietFits DEF NewHighsLows
  <1>7. Fits(ZweigThrust(m), p)
    BY <1>3, <1>4, QuietFits DEF ZweigThrust
  <1>13. Fits(PutCallRatio(m), p)
    BY <1>2, <1>3, <1>4, QuietFits DEF PutCallRatio
  <1>12. Fits(McClellan(m), p)
    <2> DEFINE on == Abs(m.osc) >= 30
               side == SideOf(m.osc > 0)
               cls == IF m.osc > 0 THEN "mcclellan_positive" ELSE "mcclellan_negative"
    <2>1. McClellan(m) \in {Quiet("no_universe_data"), Lean(TRUE, LONG, "mcclellan_oversold"),
                            Lean(TRUE, SHORT, "mcclellan_overbought"), Lean(on, side, cls)}
      BY DEF McClellan
    <2>2. on \in BOOLEAN /\ side \in Sides
      BY <1>4
    <2> HIDE DEF on, side, cls
    <2> QED
      BY <1>1, <1>2, <1>4, <2>1, <2>2, QuietFits
  <1>8. /\ Fits(VixTermStructure(m), p) /\ Fits(AbsorptionRatio(m), p)
        /\ Fits(VixTailRisk(m), p) /\ Fits(IndexDivergence(m), p)
    BY <1>2, <1>3, <1>4, QuietFits
       DEF VixTermStructure, AbsorptionRatio, VixTailRisk, IndexDivergence
  <1>9. Fits(RiskAppetite(m), p)
    BY <1>1, <1>4, QuietFits DEF RiskAppetite
  <1>10. /\ Fits(CrossAssetRisk(m), p) /\ Fits(SectorRotation(m), p)
         /\ Fits(MacroRegime(m), p)
    BY <1>2, <1>3, <1>4, QuietFits DEF CrossAssetRisk, SectorRotation, MacroRegime
  <1>11. /\ Fits(InsiderCongress(m), p) /\ Fits(EarningsGuidance(m), p)
         /\ Fits(CatalystNews(m), p)
    BY <1>2, <1>3, <1>4, QuietFits DEF InsiderCongress, EarningsGuidance, CatalystNews
  <1> QED
    BY <1>5, <1>6, <1>7, <1>8, <1>9, <1>10, <1>11, <1>12, <1>13 DEF ScanMarket

(* round() moves by at most a half, and from one and a half on it gives at *)
(* least two.                                                              *)
LEMMA RoundedNear ==
    ASSUME NEW n \in Int, NEW d \in Nat, d > 0
    PROVE  /\ RoundedEven(n, d) \in Int
           /\ 2 * (d * RoundedEven(n, d)) <= 2 * n + d
           /\ 2 * n - d <= 2 * (d * RoundedEven(n, d))
           /\ 3 * d <= 2 * n => 2 <= RoundedEven(n, d)
  <1> DEFINE down == n \div d
             rest == n % d
             r == RoundedEven(n, d)
  <1>1. /\ down \in Int /\ rest \in Int /\ n = d * down + rest
        /\ 0 <= rest /\ rest < d
    OBVIOUS
  <1>2. /\ r = down \/ r = down + 1
        /\ r = down => 2 * rest <= d
        /\ r = down + 1 => 2 * rest >= d
        /\ r = down => 2 * rest < d \/ down % 2 = 0
    BY <1>1 DEF RoundedEven
  <1> HIDE DEF down, rest, r
  <1>3. r \in Int
    BY <1>1, <1>2
  <1>4. r = down => d * r = d * down
    OBVIOUS
  <1>5. r = down + 1 => d * r = d * down + d
    BY <1>1
  <1>6. d * down \in Int /\ d * r \in Int
    BY <1>1, <1>3
  <1>7. 2 * (d * r) <= 2 * n + d /\ 2 * n - d <= 2 * (d * r)
    BY <1>1, <1>2, <1>4, <1>5, <1>6
  <1>8. ASSUME 3 * d <= 2 * n
        PROVE  2 <= r
    <2>1. down >= 1
      <3> SUFFICES ASSUME down <= 0 PROVE FALSE
        BY <1>1
      <3>1. \A x, y \in Int : x > 0 /\ y <= 0 => x * y <= 0
        OBVIOUS
      <3>2. d * down <= 0
        BY <1>1, <3>1
      <3> QED
        BY <1>1, <1>6, <1>8, <3>2
    <2>2. CASE down >= 2
      BY <1>1, <1>2, <2>2
    <2>3. CASE down = 1
      <3>1. 2 * rest >= d
        <4>1. d * down = d
          BY <2>3
        <4> QED
          BY <1>1, <1>8, <4>1
      <3>2. r # down
        BY <1>1, <1>2, <2>3, <3>1
      <3> QED
        BY <1>2, <2>3, <3>2
    <2> QED
      BY <1>1, <2>1, <2>2, <2>3
  <1> QED
    BY <1>3, <1>7, <1>8 DEF r

(* The wings in the units of a price: w is a near wing's width, v a far    *)
(* one's, and b a body half an expected move m away from the spot.         *)
LEMMA WingsReach ==
    \A s, m, b, w, v, D \in Int :
        /\ 0 < D /\ 0 <= m
        /\ 2 * b <= 2 * s + m + D /\ 2 * s + m - D <= 2 * b
        /\ D <= w /\ 2 * m - D <= 2 * w /\ (3 * D <= 2 * m => 2 * D <= w)
        /\ w <= v
        => /\ s <= b + v
           /\ \/ b - w <= s
              \/ D < m /\ 2 * m < 3 * D /\ b - w > s /\ 4 * (b - w - s) < D
  OBVIOUS

LEMMA WingsHoldSpot ==
    ASSUME NEW g, g.spot \in Int, g.straddle \in Nat
    PROVE  LET b == Butterfly(g)
               low  == IF LeansUp(g) THEN b.near ELSE b.far
               high == IF LeansUp(g) THEN b.far ELSE b.near
           IN  \/ low <= g.spot /\ g.spot <= high
               \/ /\ Dollar < g.straddle /\ 2 * g.straddle < 3 * Dollar
                  /\ 4 * Abs(b.near - g.spot) < Dollar
  <1> DEFINE sign == IF LeansUp(g) THEN 1 ELSE -1
             size == RoundedEven(g.straddle, Dollar)
             pair == {size, 1}
             wing == Greatest(pair)
             n == 2 * g.spot + sign * g.straddle
             body == RoundedEven(n, 2 * Dollar)
             far == (3 * wing) \div 2
  <1>0. Dollar \in Nat /\ Dollar > 0 /\ 2 * Dollar \in Nat /\ 2 * Dollar > 0
    BY DollarAssumption
  <1>1. /\ size \in Int /\ 2 * g.straddle - Dollar <= 2 * (Dollar * size)
        /\ 3 * Dollar <= 2 * g.straddle => 2 <= size
    <2>1. g.straddle \in Int
      OBVIOUS
    <2> QED
      BY <1>0, <2>1, RoundedNear
  <1>2. wing \in Int /\ size <= wing /\ 1 <= wing
    <2>0. IsFiniteSet({1}) /\ IsFiniteSet({1} \cup {size}) /\ pair = {1} \cup {size}
      BY FS_Singleton, FS_AddElement
    <2>1. pair \in SUBSET Int /\ IsFiniteSet(pair) /\ pair # {} /\ size \in pair /\ 1 \in pair
      BY <1>1, <2>0
    <2> HIDE DEF pair
    <2> QED
      BY <2>1, GreatestIsGreatest
  <1>3. /\ Butterfly(g).near = Dollar * (body - sign * wing)
        /\ Butterfly(g).far = Dollar * (body + sign * far)
    BY DEF Butterfly
  <1>4. n \in Int /\ (sign = 1 \/ sign = -1)
    OBVIOUS
  <1>5. /\ body \in Int
        /\ 2 * ((2 * Dollar) * body) <= 2 * n + 2 * Dollar
        /\ 2 * n - 2 * Dollar <= 2 * ((2 * Dollar) * body)
    <2> HIDE DEF n
    <2> QED
      BY <1>0, <1>4, RoundedNear
  <1>6. far \in Int /\ wing <= far
    <2> HIDE DEF wing
    <2> QED
      BY <1>2
  <1> HIDE DEF size, wing, body, far
  <1> DEFINE B == Dollar * body
             W == Dollar * wing
             V == Dollar * far
  <1>7. B \in Int /\ W \in Int /\ V \in Int
    BY <1>0, <1>2, <1>5, <1>6
  <1>8. (2 * Dollar) * body = 2 * B
    BY <1>0, <1>5
  <1>9. /\ Dollar <= W /\ Dollar * size <= W /\ W <= V
        /\ 2 <= wing => 2 * Dollar <= W
    <2>1. \A D, x, y \in Int : D > 0 /\ x <= y => D * x <= D * y
      OBVIOUS
    <2>2. Dollar * 1 = Dollar /\ Dollar * 2 = 2 * Dollar
      BY <1>0
    <2> QED
      BY <1>0, <1>1, <1>2, <1>6, <2>1, <2>2
  <1>10. 2 * g.straddle - Dollar <= 2 * W
    <2>1. Dollar * size \in Int
      BY <1>0, <1>1
    <2> QED
      BY <1>0, <1>1, <1>7, <1>9, <2>1
  <1>11. 3 * Dollar <= 2 * g.straddle => 2 * Dollar <= W
    BY <1>1, <1>2, <1>9
  <1>12. 2 * B <= n + Dollar /\ n - Dollar <= 2 * B
    <2> HIDE DEF B, n
    <2> QED
      BY <1>0, <1>4, <1>5, <1>7, <1>8
  <1>13. CASE LeansUp(g)
    <2>1. /\ n = 2 * g.spot + g.straddle
          /\ Butterfly(g).near = B - W /\ Butterfly(g).far = B + V
      BY <1>0, <1>2, <1>3, <1>5, <1>6, <1>13
    <2> HIDE DEF B, W, V, n
    <2>2. /\ g.spot <= B + V
          /\ \/ B - W <= g.spot
             \/ /\ Dollar < g.straddle /\ 2 * g.straddle < 3 * Dollar
                /\ B - W > g.spot /\ 4 * (B - W - g.spot) < Dollar
      BY <1>0, <1>7, <1>9, <1>10, <1>11, <1>12, <2>1, WingsReach
    <2> QED
      BY <1>0, <1>7, <1>13, <2>1, <2>2 DEF Abs
  <1>14. CASE ~LeansUp(g)
    <2>1. /\ n = 2 * g.spot - g.straddle
          /\ Butterfly(g).near = B + W /\ Butterfly(g).far = B - V
      BY <1>0, <1>2, <1>3, <1>5, <1>6, <1>14
    <2> HIDE DEF B, W, V, n
    <2>2. /\ -g.spot <= -B + V
          /\ \/ -B - W <= -g.spot
             \/ /\ Dollar < g.straddle /\ 2 * g.straddle < 3 * Dollar
                /\ -B - W > -g.spot /\ 4 * (-B - W - (-g.spot)) < Dollar
      <3>1. /\ -g.spot \in Int /\ -B \in Int
            /\ 2 * (-B) <= 2 * (-g.spot) + g.straddle + Dollar
            /\ 2 * (-g.spot) + g.straddle - Dollar <= 2 * (-B)
        BY <1>0, <1>7, <1>12, <2>1
      <3> QED
        BY <1>0, <1>7, <1>9, <1>10, <1>11, <3>1, WingsReach
    <2> QED
      BY <1>0, <1>7, <1>14, <2>1, <2>2 DEF Abs
  <1> QED
    BY <1>13, <1>14

(* A plan has its stop on one side of the entry and its targets, in order, *)
(* on the other.                                                           *)
LEMMA PlansAreOrdered ==
    ASSUME NEW i, NEW r, Shaped(r), NEW atr \in Int, NEW kind, NEW weight, NEW edges, NEW scalp
    PROVE  LET s == BuildSignal(i, r, atr, kind, weight, edges, scalp)
           IN  /\ s.side \in Sides \ {NoSide}
               /\ s.plan = NoPlan \/ Ordered(s.plan)
  <1> DEFINE s == BuildSignal(i, r, atr, kind, weight, edges, scalp)
  <1>1. s.side \in Sides \ {NoSide}
    BY DEF BuildSignal, Shaped, Sides, NEUTRAL, NoSide
  <1>2. ASSUME s.plan # NoPlan PROVE Ordered(s.plan)
    <2>1. s.plan = BuildPlan(r.side, r.price, atr, scalp) /\ atr > 0 /\ r.side \in {LONG, SHORT}
      BY <1>2 DEF BuildSignal
    <2> DEFINE plan == BuildPlan(r.side, r.price, atr, scalp)
               a == IF scalp THEN 3 * atr ELSE 4 * atr
               b == IF scalp THEN 4 * atr ELSE 6 * atr
               c == IF scalp THEN 8 * atr ELSE 12 * atr
    <2>2. r.price \in Int
      BY DEF Shaped
    <2>3. /\ atr > 0 /\ 4 * r.price \in Int
          /\ a \in Int /\ b \in Int /\ c \in Int /\ 0 < a /\ 0 < b /\ b < c
      BY <2>1, <2>2
    <2>5. /\ plan.side = r.side /\ plan.entry = 4 * r.price
          /\ r.side = LONG => /\ plan.stop = 4 * r.price - a
                              /\ plan.targets = <<4 * r.price + b, 4 * r.price + c>>
          /\ r.side # LONG => /\ plan.stop = 4 * r.price + a
                              /\ plan.targets = <<4 * r.price - b, 4 * r.price - c>>
      BY <2>2 DEF BuildPlan
    <2> HIDE DEF plan, a, b, c
    <2>6. \A x \in Int : 1 * x = x /\ (-1) * x = -x
      OBVIOUS
    <2>4. Ordered(plan)
      <3>1. CASE r.side = LONG
        BY <2>3, <2>5, <2>6, <3>1 DEF Ordered
      <3>2. CASE r.side # LONG
        BY <2>3, <2>5, <2>6, <3>2 DEF Ordered
      <3> QED
        BY <3>1, <3>2
    <2> QED
      BY <2>1, <2>4 DEF plan
  <1> QED
    BY <1>1, <1>2

-----------------------------------------------------------------------------
(* The answers and signals of every reachable state.                       *)
Planned == \/ signal = NoSignal
           \/ signal.side \in Sides \ {NoSide} /\ (signal.plan = NoPlan \/ Ordered(signal.plan))

LEMMA AnswerIsShaped ==
    ASSUME Answered
    PROVE  /\ Shaped(result) /\ AtrOf(id, view) \in Int
           /\ id \in PriceIds => Bar(view)
           /\ id \in GammaIds => Chain(view)
  <1>1. CASE id = Nothing
    <2>1. id \notin PriceIds /\ id \notin GammaIds
      BY <1>1 DEF Nothing, PriceIds, GammaIds
    <2> QED
      BY <1>1, <2>1, QuietFits DEF Answered, Fits, AtrOf
  <1>2. CASE id \in PriceIds
    <2>1. Bar(view) /\ id \notin GammaIds /\ id # Nothing
      BY <1>2, BarsAssumption DEF Answered, Bar, PriceIds, GammaIds, Nothing
    <2> QED
      BY <1>2, <2>1, PriceAnswers DEF Answered, Scan, AtrOf, Bar
  <1>3. CASE id \in GammaIds
    <2>1. Chain(view) /\ id \notin PriceIds /\ id # Nothing /\ view.atr \in Int
      BY <1>3, ChainsAssumption DEF Answered, Chain, Listed, PriceIds, GammaIds, Nothing
    <2> QED
      BY <1>3, <2>1, GammaAnswers DEF Answered, Scan, AtrOf, Fits
  <1>4. CASE id # Nothing /\ id \notin PriceIds /\ id \notin GammaIds
    BY <1>4, MarketAnswers DEF Answered, Scan, AtrOf, Fits
  <1> QED
    BY <1>1, <1>2, <1>3, <1>4

LEMMA PlannedInit == Init => Planned
  BY DEF Init, Planned

LEMMA PlannedNext == Answered /\ Planned /\ [Next]_vars => Planned'
  <1> SUFFICES ASSUME Answered, Planned, [Next]_vars PROVE Planned'
    OBVIOUS
  <1>1. ASSUME NEW i, NEW x, Evaluate(i, x) PROVE Planned'
    BY <1>1 DEF Evaluate, Planned
  <1>2. ASSUME NEW kind, NEW weight, NEW edges, NEW scalp, Build(kind, weight, edges, scalp)
        PROVE  Planned'
    <2> DEFINE atr == AtrOf(id, view)
               s == BuildSignal(id, result, atr, kind, weight, edges, scalp)
    <2>1. Shaped(result) /\ atr \in Int
      BY AnswerIsShaped
    <2> HIDE DEF atr
    <2>2. s.side \in Sides \ {NoSide} /\ (s.plan = NoPlan \/ Ordered(s.plan))
      BY <2>1, PlansAreOrdered
    <2>3. signal' = s
      BY <1>2 DEF Build, atr
    <2> HIDE DEF s
    <2> QED
      BY <2>2, <2>3 DEF Planned
  <1>3. CASE NextSymbol
    BY <1>3 DEF NextSymbol, Planned
  <1>4. CASE UNCHANGED vars
    BY <1>4 DEF vars, Planned
  <1> QED
    BY <1>1, <1>2, <1>3, <1>4 DEF Next

(* Whatever the snapshots, weights and edges: answers and signals are well *)
(* formed, and every plan is in order.                                     *)
THEOREM SuiteTypeCorrect == Spec => []TypeOK
  <1>1. Spec => [](Answered /\ Planned)
    BY AnsweredInit, AnsweredNext, PlannedInit, PlannedNext, PTL DEF Spec
  <1>2. Answered /\ Planned => TypeOK
    BY AnswerIsShaped DEF Answered, Planned, TypeOK, Shaped
  <1> QED
    BY <1>1, <1>2, PTL

LEMMA AnsweredIsAhead == Answered => InvalidationAhead
  <1> SUFFICES ASSUME Answered, Directional(result), id # "volume_profile_poc"
               PROVE  /\ Hit(result.rule, PriceOf(id, view)) => id = "mtf_structure" /\ ~OrderedSwings
                      /\ id = "broken_wing_butterfly" => SpotInsideWings \/ SpotNearWing
    BY DEF InvalidationAhead
  <1>1. id # Nothing
    BY DEF Answered, Directional, Quiet, Result
  <1>2. CASE id \in PriceIds
    <2>1. id # "broken_wing_butterfly"
      BY <1>2 DEF PriceIds
    <2>2. Bar(view) /\ result = ScanPrice(id, view) /\ PriceOf(id, view) = view.c
      BY <1>1, <1>2, AnswerIsShaped DEF Answered, Scan, PriceOf
    <2>3. \/ id = "mtf_structure" /\ ~OrderedSwings
          \/ Ahead(result, view.c)
      BY <1>2, <2>2, PriceAnswers DEF OrderedSwings
    <2> QED
      BY <2>1, <2>2, <2>3 DEF Ahead
  <1>3. CASE id \in GammaIds
    <2>1. id \notin PriceIds
      BY <1>3 DEF GammaIds, PriceIds
    <2>2. Chain(view) /\ result = ScanGamma(id, view) /\ PriceOf(id, view) = view.spot
      BY <1>1, <1>3, <2>1, AnswerIsShaped DEF Answered, Scan, PriceOf
    <2>3. Ahead(result, view.spot)
      BY <1>3, <2>2, GammaAnswers DEF Fits
    <2>4. view.spot \in Int /\ view.straddle \in Nat
      BY <1>1, <1>3, ChainsAssumption DEF Answered
    <2>5. SpotInsideWings \/ SpotNearWing
      BY <2>4, WingsHoldSpot DEF SpotInsideWings, SpotNearWing, Wings
    <2> QED
      BY <2>2, <2>3, <2>5 DEF Ahead
  <1>4. CASE id \notin PriceIds /\ id \notin GammaIds
    <2>1. id # "broken_wing_butterfly"
      BY <1>4 DEF GammaIds
    <2>2. result = ScanMarket(id, view)
      BY <1>1, <1>4 DEF Answered, Scan
    <2>3. Ahead(result, PriceOf(id, view))
      BY <2>2, MarketAnswers DEF Fits
    <2> QED
      BY <2>1, <2>3 DEF Ahead
  <1> QED
    BY <1>2, <1>3, <1>4

(* No directional answer is born with its own invalidation rule holding.   *)
THEOREM InvalidationStaysAhead == Spec => []InvalidationAhead
  <1>1. Spec => []Answered
    BY AnsweredInit, AnsweredNext, PTL DEF Spec
  <1> QED
    BY <1>1, AnsweredIsAhead, PTL

-----------------------------------------------------------------------------
(* The two sides of the price scanners.  What the reflection of a view     *)
(* looks like, as far as scanners read it.                                 *)
Reflects(x, y) ==
    /\ y.o = Pivot - x.o /\ y.c = Pivot - x.c /\ y.h = Pivot - x.l /\ y.l = Pivot - x.h
    /\ y.ph = Pivot - x.pl /\ y.pl = Pivot - x.ph
    /\ y.rh = Pivot - x.rl /\ y.rl = Pivot - x.rh
    /\ y.hi = Flipped(x.lo) /\ y.lo = Flipped(x.hi) /\ y.prev = Flipped(x.prev)
    /\ y.poc = Flipped(x.poc) /\ y.avwap = Pivot - x.avwap /\ y.round = Flipped(x.round)
    /\ y.dist = -x.dist /\ y.trend = -x.trend
    /\ y.htf = IF x.htf = "up" THEN "down" ELSE IF x.htf = "down" THEN "up" ELSE x.htf
    /\ y.enough = x.enough /\ y.atr = x.atr /\ y.rvol = x.rvol /\ y.win = x.win
    /\ y.was = x.was /\ y.now = x.now

LEMMA FlippedLevel ==
    /\ \A p \in Market : /\ Flipped(p) = Pivot - p /\ Flipped(p) \in Market
                         /\ p # NoLevel /\ Flipped(p) # NoLevel
    /\ Flipped(NoLevel) = NoLevel
    /\ \A p \in MarketOrNone : Flipped(p) \in MarketOrNone /\ (Flipped(p) = NoLevel <=> p = NoLevel)
  BY ViewsAssumption DEF Flipped, Market, MarketOrNone, NoLevel

LEMMA MarketIsInt ==
    Pivot \in Int /\ Market \subseteq Int /\ MarketOrNone \subseteq Int
  BY ViewsAssumption DEF Market, MarketOrNone, NoLevel

LEMMA UpsideDownReflects ==
    ASSUME NEW i, NEW x \in Views
    PROVE  /\ Reflects(x, UpsideDown(i, x))
           /\ UpsideDown(i, x).stat = IF i \in Unsigned THEN x.stat ELSE -x.stat
  <1> DEFINE y == UpsideDown(i, x)
  <1>1. /\ y.o = Flipped(x.o) /\ y.c = Flipped(x.c) /\ y.h = Flipped(x.l) /\ y.l = Flipped(x.h)
        /\ y.ph = Flipped(x.pl) /\ y.pl = Flipped(x.ph)
    BY DEF UpsideDown, Views
  <1>2. /\ y.rh = Flipped(x.rl) /\ y.rl = Flipped(x.rh)
        /\ y.hi = Flipped(x.lo) /\ y.lo = Flipped(x.hi) /\ y.prev = Flipped(x.prev)
        /\ y.poc = Flipped(x.poc) /\ y.avwap = Flipped(x.avwap) /\ y.round = Flipped(x.round)
    BY DEF UpsideDown, Views
  <1>3. /\ y.dist = -x.dist /\ y.trend = -x.trend
        /\ y.stat = IF i \in Unsigned THEN x.stat ELSE -x.stat
    BY DEF UpsideDown, Views
  <1>4. /\ y.htf = IF x.htf = "up" THEN "down" ELSE IF x.htf = "down" THEN "up" ELSE x.htf
        /\ y.enough = x.enough /\ y.atr = x.atr /\ y.rvol = x.rvol /\ y.win = x.win
        /\ y.was = x.was /\ y.now = x.now
    BY DEF UpsideDown, Views
  <1>5. /\ x.o \in Market /\ x.c \in Market /\ x.h \in Market /\ x.l \in Market
        /\ x.ph \in Market /\ x.pl \in Market /\ x.rh \in Market /\ x.rl \in Market
        /\ x.avwap \in Market
    BY DEF Views
  <1> HIDE DEF y
  <1>6. Reflects(x, y)
    BY <1>1, <1>2, <1>3, <1>4, <1>5, FlippedLevel DEF Reflects
  <1> QED
    BY <1>3, <1>6 DEF y

-----------------------------------------------------------------------------
(* Answers that mirror each other, case by case.                           *)
LEMMA Opposites ==
    /\ Opposite(LONG) = SHORT /\ Opposite(SHORT) = LONG
    /\ Opposite(NEUTRAL) = NEUTRAL /\ Opposite(NoSide) = NoSide
    /\ \A up \in BOOLEAN : SideOf(~up) = Opposite(SideOf(up))
  BY DEF Opposite, LONG, SHORT, NEUTRAL, NoSide, SideOf

LEMMA MirrorQuiet ==
    \A cls, other : Mirrors(Quiet(cls), Quiet(other))
  BY Opposites DEF Mirrors, Quiet, Result, Directional

LEMMA MirrorResult ==
    ASSUME NEW on, NEW side, NEW cls, NEW price, NEW rule,
           NEW other, NEW elsewhere, NEW turned,
           on /\ side \in {LONG, SHORT} => turned = UpsideDownRule(rule)
    PROVE  Mirrors(Result(on, side, cls, price, rule),
                   Result(on, Opposite(side), other, elsewhere, turned))
  BY DEF Mirrors, Result, Directional

LEMMA RulesTurn ==
    /\ \A p : UpsideDownRule(Below(p)) = Above(Flipped(p))
    /\ \A p : UpsideDownRule(Above(p)) = Below(Flipped(p))
    /\ UpsideDownRule(NoRule) = NoRule
  BY DEF UpsideDownRule, Below, Above, NoRule, Flipped

LEMMA MirrorFire ==
    /\ \A cls, other, price, elsewhere, p :
          /\ Mirrors(Fire(LONG, cls, price, Below(p)), Fire(SHORT, other, elsewhere, Above(Flipped(p))))
          /\ Mirrors(Fire(SHORT, cls, price, Above(p)), Fire(LONG, other, elsewhere, Below(Flipped(p))))
    /\ \A cls, other, price, elsewhere : \A up \in BOOLEAN :
          Mirrors(Fire(SideOf(up), cls, price, NoRule), Fire(SideOf(~up), other, elsewhere, NoRule))
    /\ \A cls, other, price, elsewhere :
          Mirrors(Fire(NoSide, cls, price, NoRule), Fire(NoSide, other, elsewhere, NoRule))
  <1>1. \A cls, other, price, elsewhere, p :
          /\ Mirrors(Fire(LONG, cls, price, Below(p)), Fire(SHORT, other, elsewhere, Above(Flipped(p))))
          /\ Mirrors(Fire(SHORT, cls, price, Above(p)), Fire(LONG, other, elsewhere, Below(Flipped(p))))
    BY MirrorResult, Opposites, RulesTurn DEF Fire
  <1>2. ASSUME NEW side, NEW cls, NEW other, NEW price, NEW elsewhere
        PROVE  Mirrors(Fire(side, cls, price, NoRule), Fire(Opposite(side), other, elsewhere, NoRule))
    BY MirrorResult, RulesTurn DEF Fire
  <1> QED
    BY <1>1, <1>2, Opposites

-----------------------------------------------------------------------------
(* Scanner by scanner: first those that look at a signed statistic.        *)
Pair(x, y) == x \in Views /\ Reflects(x, y)

LEMMA MinusZero == \A n \in Int : -n = 0 <=> n = 0
  OBVIOUS

LEMMA AbsOfMinus ==
    \A n \in Int : Abs(-n) = Abs(n) /\ Abs(n) \in Nat /\ (Abs(n) > 0 <=> n # 0)
  BY DEF Abs

LEMMA StatMirrors ==
    ASSUME NEW x, NEW y, Pair(x, y), y.stat = -x.stat
    PROVE  /\ Mirrors(BiggerMove(x), BiggerMove(y))
           /\ Mirrors(AccumulationDistribution(x), AccumulationDistribution(y))
           /\ Mirrors(Seasonality(x), Seasonality(y))
           /\ Mirrors(RegimeClassification(x), RegimeClassification(y))
  <1>1. /\ x.stat \in Int /\ x.win \in Int /\ x.enough \in BOOLEAN
        /\ y.enough = x.enough /\ y.win = x.win
    BY DEF Pair, Views, Reflects
  <1>2. Abs(y.stat) = Abs(x.stat) /\ Abs(x.stat) \in Nat
    BY <1>1, AbsOfMinus
  <1>3. x.stat # 0 => (y.stat > 0 <=> ~(x.stat > 0))
    BY <1>1
  <1>4. Abs(x.stat) > 0 => x.stat # 0
    BY <1>1, AbsOfMinus
  <1>5. ASSUME x.stat # 0, NEW cls, NEW other
        PROVE  Mirrors(Fire(SideOf(x.stat > 0), cls, NoLevel, NoRule),
                       Fire(SideOf(y.stat > 0), other, NoLevel, NoRule))
    <2> DEFINE up == x.stat > 0
    <2>1. up \in BOOLEAN /\ (y.stat > 0) = ~up
      BY <1>1, <1>3, <1>5
    <2> HIDE DEF up
    <2>2. Mirrors(Fire(SideOf(up), cls, NoLevel, NoRule), Fire(SideOf(~up), other, NoLevel, NoRule))
      BY <2>1, MirrorFire
    <2> QED
      BY <2>1, <2>2 DEF up
  <1>6. Mirrors(BiggerMove(x), BiggerMove(y))
    BY <1>1, <1>2, <1>4, <1>5, MirrorQuiet DEF BiggerMove
  <1>7. Mirrors(AccumulationDistribution(x), AccumulationDistribution(y))
    BY <1>1, <1>2, <1>4, <1>5, MirrorQuiet DEF AccumulationDistribution
  <1>8. ASSUME NEW on \in BOOLEAN, on => x.stat # 0, NEW cls, NEW other
        PROVE  Mirrors(Result(on, IF on THEN SideOf(x.stat > 0) ELSE NoSide, cls, NoLevel, NoRule),
                       Result(on, IF on THEN SideOf(y.stat > 0) ELSE NoSide, other, NoLevel, NoRule))
    <2>1. CASE on
      BY <1>5, <1>8, <2>1 DEF Fire
    <2>2. CASE ~on
      BY <1>8, <2>2, MirrorResult, Opposites
    <2> QED
      BY <2>1, <2>2
  <1>9. Mirrors(Seasonality(x), Seasonality(y))
    <2> DEFINE on == 2 * Abs(x.stat) >= 3 /\ Abs(x.win - 50) >= 8
               cls == IF on THEN "seasonal_edge" ELSE "no_edge"
    <2>1. on \in BOOLEAN /\ (on => x.stat # 0)
      BY <1>2, <1>4
    <2>2. /\ Seasonality(x) = IF ~x.enough THEN Quiet("insufficient_samples")
             ELSE Result(on, IF on THEN SideOf(x.stat > 0) ELSE NoSide, cls, NoLevel, NoRule)
          /\ Seasonality(y) = IF ~x.enough THEN Quiet("insufficient_samples")
             ELSE Result(on, IF on THEN SideOf(y.stat > 0) ELSE NoSide, cls, NoLevel, NoRule)
      BY <1>1, <1>2 DEF Seasonality
    <2> HIDE DEF on, cls
    <2> QED
      BY <1>1, <1>8, <2>1, <2>2, MirrorQuiet
  <1>10. Mirrors(RegimeClassification(x), RegimeClassification(y))
    <2> DEFINE on == x.enough /\ Abs(x.stat) >= 2 /\ Abs(x.win - 50) >= 6
    <2>1. on \in BOOLEAN /\ (on => x.stat # 0)
      BY <1>1, <1>2, <1>4
    <2>2. /\ RegimeClassification(x) =
             Result(on, IF on THEN SideOf(x.stat > 0) ELSE NoSide, "regime", NoLevel, NoRule)
          /\ RegimeClassification(y) =
             Result(on, IF on THEN SideOf(y.stat > 0) ELSE NoSide, "regime", NoLevel, NoRule)
      BY <1>1, <1>2 DEF RegimeClassification
    <2> HIDE DEF on
    <2> QED
      BY <1>8, <2>1, <2>2
  <1> QED
    BY <1>6, <1>7, <1>9, <1>10

(* Then those that look at the distance from VWAP.                         *)
LEMMA DistanceMirrors ==
    ASSUME NEW x, NEW y, Pair(x, y)
    PROVE  /\ Mirrors(TrendExhaustion(x), TrendExhaustion(y))
           /\ Mirrors(VolumeDryUpReversal(x), VolumeDryUpReversal(y))
  <1>1. /\ x.dist \in Int /\ y.dist = -x.dist /\ y.enough = x.enough /\ y.now = x.now
        /\ x.enough \in BOOLEAN /\ x.now \in BOOLEAN
    BY DEF Pair, Views, Reflects
  <1>2. Abs(y.dist) = Abs(x.dist) /\ Abs(x.dist) \in Nat /\ (Abs(x.dist) > 0 => x.dist # 0)
    BY <1>1, AbsOfMinus
  <1>3. ASSUME x.dist # 0, NEW cls
        PROVE  Mirrors(Fire(SideOf(x.dist < 0), cls, NoLevel, NoRule),
                       Fire(SideOf(y.dist < 0), cls, NoLevel, NoRule))
    <2> DEFINE up == x.dist < 0
    <2>1. up \in BOOLEAN /\ (y.dist < 0) = ~up
      BY <1>1, <1>3
    <2> HIDE DEF up
    <2>2. Mirrors(Fire(SideOf(up), cls, NoLevel, NoRule), Fire(SideOf(~up), cls, NoLevel, NoRule))
      BY <2>1, MirrorFire
    <2> QED
      BY <2>1, <2>2 DEF up
  <1>4. Mirrors(TrendExhaustion(x), TrendExhaustion(y))
    BY <1>2, <1>3, MirrorQuiet DEF TrendExhaustion
  <1>5. Mirrors(VolumeDryUpReversal(x), VolumeDryUpReversal(y))
    BY <1>1, <1>2, <1>3, MirrorQuiet DEF VolumeDryUpReversal
  <1> QED
    BY <1>4, <1>5

(* Those that look at the body of the last bar.                            *)
LEMMA BodyMirrors ==
    ASSUME NEW x, NEW y, Pair(x, y), x.o # x.c
    PROVE  /\ Mirrors(MomentumIgnition(x), MomentumIgnition(y))
           /\ Mirrors(RvolExpansion(x), RvolExpansion(y))
           /\ y.stat = x.stat => Mirrors(VolumeDivergence(x), VolumeDivergence(y))
  <1>1. /\ x.o \in Int /\ x.c \in Int /\ x.h \in Int /\ x.l \in Int /\ Pivot \in Int
        /\ x.enough \in BOOLEAN /\ x.was \in BOOLEAN /\ x.now \in BOOLEAN
    BY MarketIsInt DEF Pair, Views
  <1>2. /\ y.o = Pivot - x.o /\ y.c = Pivot - x.c /\ y.h - y.l = x.h - x.l
        /\ y.enough = x.enough /\ y.was = x.was /\ y.now = x.now
        /\ y.atr = x.atr /\ y.rvol = x.rvol
    BY <1>1 DEF Pair, Reflects
  <1>3. ASSUME NEW cls
        PROVE  /\ Mirrors(Fire(SideOf(x.c >= x.o), cls, NoLevel, NoRule),
                          Fire(SideOf(y.c >= y.o), cls, NoLevel, NoRule))
               /\ Mirrors(Fire(SideOf(x.c < x.o), cls, NoLevel, NoRule),
                          Fire(SideOf(y.c < y.o), cls, NoLevel, NoRule))
    <2> DEFINE up   == x.c >= x.o
               down == x.c < x.o
    <2>1. up \in BOOLEAN /\ down \in BOOLEAN /\ (y.c >= y.o) = ~up /\ (y.c < y.o) = ~down
      BY <1>1, <1>2
    <2> HIDE DEF up, down
    <2>2. /\ Mirrors(Fire(SideOf(up), cls, NoLevel, NoRule), Fire(SideOf(~up), cls, NoLevel, NoRule))
          /\ Mirrors(Fire(SideOf(down), cls, NoLevel, NoRule), Fire(SideOf(~down), cls, NoLevel, NoRule))
      BY <2>1, MirrorFire
    <2> QED
      BY <2>1, <2>2 DEF up, down
  <1>4. Mirrors(MomentumIgnition(x), MomentumIgnition(y))
    BY <1>1, <1>2, <1>3, MirrorQuiet DEF MomentumIgnition
  <1>5. Mirrors(RvolExpansion(x), RvolExpansion(y))
    BY <1>2, <1>3, MirrorQuiet DEF RvolExpansion
  <1>6. y.stat = x.stat => Mirrors(VolumeDivergence(x), VolumeDivergence(y))
    BY <1>1, <1>2, <1>3, MirrorQuiet DEF VolumeDivergence
  <1> QED
    BY <1>4, <1>5, <1>6

(* Those without a side.                                                   *)
LEMMA SidelessMirrors ==
    ASSUME NEW x, NEW y, Pair(x, y)
    PROVE  /\ Mirrors(SqueezeCompression(x), SqueezeCompression(y))
           /\ Mirrors(AnomalyDetection(x), AnomalyDetection(y))
           /\ y.stat = x.stat => Mirrors(VolatilityRegime(x), VolatilityRegime(y))
  <1>1. y.enough = x.enough /\ y.now = x.now
    BY DEF Pair, Reflects
  <1> QED
    BY <1>1, MirrorFire, MirrorQuiet DEF SqueezeCompression, AnomalyDetection, VolatilityRegime

(* Those that compare the close with levels that are always there.         *)
LEMMA LevelMirrors ==
    ASSUME NEW x, NEW y, Pair(x, y)
    PROVE  /\ ~BothBranches("liquidity_sweep", x) => Mirrors(LiquiditySweep(x), LiquiditySweep(y))
           /\ ~BothBranches("failed_move", x) => Mirrors(FailedMove(x), FailedMove(y))
           /\ x.prev # NoLevel => Mirrors(AnchoredVwap(x), AnchoredVwap(y))
  <1>1. /\ x.c \in Market /\ x.h \in Market /\ x.l \in Market /\ x.ph \in Market
        /\ x.pl \in Market /\ x.rh \in Market /\ x.rl \in Market /\ x.avwap \in Market
        /\ x.prev \in MarketOrNone /\ x.atr \in Nat /\ x.enough \in BOOLEAN
    BY DEF Pair, Views
  <1>2. /\ x.c \in Int /\ x.h \in Int /\ x.l \in Int /\ x.ph \in Int /\ x.pl \in Int
        /\ x.rh \in Int /\ x.rl \in Int /\ x.avwap \in Int /\ x.prev \in Int /\ Pivot \in Int
    BY <1>1, MarketIsInt
  <1>3. /\ y.c = Pivot - x.c /\ y.h = Pivot - x.l /\ y.l = Pivot - x.h
        /\ y.ph = Pivot - x.pl /\ y.pl = Pivot - x.ph /\ y.rh = Pivot - x.rl /\ y.rl = Pivot - x.rh
        /\ y.avwap = Pivot - x.avwap /\ y.atr = x.atr /\ y.enough = x.enough
    BY DEF Pair, Reflects
  <1>4. ASSUME NEW p \in Market, NEW cls, NEW other, NEW price, NEW elsewhere
        PROVE  /\ Mirrors(Fire(LONG, cls, price, Below(p)), Fire(SHORT, other, elsewhere, Above(Pivot - p)))
               /\ Mirrors(Fire(SHORT, cls, price, Above(p)), Fire(LONG, other, elsewhere, Below(Pivot - p)))
    <2>1. Flipped(p) = Pivot - p
      BY FlippedLevel
    <2> QED
      BY <2>1, MirrorFire
  <1>5. ASSUME ~BothBranches("liquidity_sweep", x)
        PROVE  Mirrors(LiquiditySweep(x), LiquiditySweep(y))
    <2> DEFINE long  == x.l < x.pl /\ x.c > x.pl
               short == x.h > x.ph /\ x.c < x.ph
    <2>1. ~(long /\ short)
      BY <1>2, <1>5 DEF BothBranches
    <2>2. (y.l < y.pl /\ y.c > y.pl <=> short) /\ (y.h > y.ph /\ y.c < y.ph <=> long)
      BY <1>2, <1>3
    <2>3. CASE ~x.enough \/ x.atr = 0
      BY <1>3, <2>3, MirrorQuiet DEF LiquiditySweep
    <2>4. CASE ~(~x.enough \/ x.atr = 0) /\ long
      <3>1. LiquiditySweep(x) = Fire(LONG, "sweep_long", x.c, Below(x.l))
        BY <2>4 DEF LiquiditySweep
      <3>2. LiquiditySweep(y) = Fire(SHORT, "sweep_short", y.c, Above(Pivot - x.l))
        BY <1>3, <2>1, <2>2, <2>4 DEF LiquiditySweep
      <3> QED
        BY <1>1, <1>4, <3>1, <3>2
    <2>5. CASE ~(~x.enough \/ x.atr = 0) /\ short
      <3>1. LiquiditySweep(x) = Fire(SHORT, "sweep_short", x.c, Above(x.h))
        BY <2>1, <2>5 DEF LiquiditySweep
      <3>2. LiquiditySweep(y) = Fire(LONG, "sweep_long", y.c, Below(Pivot - x.h))
        BY <1>3, <2>2, <2>5 DEF LiquiditySweep
      <3> QED
        BY <1>1, <1>4, <3>1, <3>2
    <2>6. CASE ~(~x.enough \/ x.atr = 0) /\ ~long /\ ~short
      BY <1>3, <2>2, <2>6, MirrorQuiet DEF LiquiditySweep
    <2> QED
      BY <2>3, <2>4, <2>5, <2>6
  <1>6. ASSUME ~BothBranches("failed_move", x)
        PROVE  Mirrors(FailedMove(x), FailedMove(y))
    <2> DEFINE long  == x.rl < x.pl /\ x.c > x.pl
               short == x.rh > x.ph /\ x.c < x.ph
    <2>1. ~(long /\ short)
      BY <1>2, <1>6 DEF BothBranches
    <2>2. (y.rl < y.pl /\ y.c > y.pl <=> short) /\ (y.rh > y.ph /\ y.c < y.ph <=> long)
      BY <1>2, <1>3
    <2>3. CASE ~x.enough
      BY <1>3, <2>3, MirrorQuiet DEF FailedMove
    <2>4. CASE x.enough /\ long
      <3>1. FailedMove(x) = Fire(LONG, "failed_breakdown", x.c, Below(x.pl))
        BY <2>1, <2>4 DEF FailedMove
      <3>2. FailedMove(y) = Fire(SHORT, "failed_breakout", y.c, Above(Pivot - x.pl))
        BY <1>3, <2>2, <2>4 DEF FailedMove
      <3> QED
        BY <1>1, <1>4, <3>1, <3>2
    <2>5. CASE x.enough /\ short
      <3>1. FailedMove(x) = Fire(SHORT, "failed_breakout", x.c, Above(x.ph))
        BY <2>5 DEF FailedMove
      <3>2. FailedMove(y) = Fire(LONG, "failed_breakdown", y.c, Below(Pivot - x.ph))
        BY <1>3, <2>1, <2>2, <2>5 DEF FailedMove
      <3> QED
        BY <1>1, <1>4, <3>1, <3>2
    <2>6. CASE x.enough /\ ~long /\ ~short
      BY <1>3, <2>2, <2>6, MirrorQuiet DEF FailedMove
    <2> QED
      BY <2>3, <2>4, <2>5, <2>6
  <1>7. ASSUME x.prev # NoLevel
        PROVE  Mirrors(AnchoredVwap(x), AnchoredVwap(y))
    <2> DEFINE long  == x.prev < x.avwap /\ x.avwap <= x.c
               short == x.prev > x.avwap /\ x.avwap >= x.c
               test  == 5 * Abs(x.c - x.avwap) <= 2 * x.atr
    <2>1. y.prev = Pivot - x.prev
      BY <1>7 DEF Pair, Reflects, Flipped
    <2>2. ~(long /\ short)
      BY <1>2
    <2>3. (y.prev < y.avwap /\ y.avwap <= y.c <=> short) /\ (y.prev > y.avwap /\ y.avwap >= y.c <=> long)
      BY <1>2, <1>3, <2>1
    <2>4. 5 * Abs(y.c - y.avwap) <= 2 * y.atr <=> test
      BY <1>1, <1>2, <1>3 DEF Abs
    <2>5. CASE ~x.enough \/ x.atr = 0
      BY <1>3, <2>5, MirrorQuiet DEF AnchoredVwap
    <2>6. CASE ~(~x.enough \/ x.atr = 0) /\ long
      <3>1. AnchoredVwap(x) = Fire(LONG, "avwap_reclaim", x.c, Below(x.avwap))
        BY <2>6 DEF AnchoredVwap
      <3>2. AnchoredVwap(y) = Fire(SHORT, "avwap_fail", y.c, Above(Pivot - x.avwap))
        BY <1>3, <2>2, <2>3, <2>6 DEF AnchoredVwap
      <3> QED
        BY <1>1, <1>4, <3>1, <3>2
    <2>7. CASE ~(~x.enough \/ x.atr = 0) /\ short
      <3>1. AnchoredVwap(x) = Fire(SHORT, "avwap_fail", x.c, Above(x.avwap))
        BY <2>2, <2>7 DEF AnchoredVwap
      <3>2. AnchoredVwap(y) = Fire(LONG, "avwap_reclaim", y.c, Below(Pivot - x.avwap))
        BY <1>3, <2>3, <2>7 DEF AnchoredVwap
      <3> QED
        BY <1>1, <1>4, <3>1, <3>2
    <2>8. CASE ~(~x.enough \/ x.atr = 0) /\ ~long /\ ~short /\ test
      <3>1. /\ AnchoredVwap(x) = Result(FALSE, NoSide, "avwap_test", x.c, NoRule)
            /\ AnchoredVwap(y) = Result(FALSE, NoSide, "avwap_test", y.c, NoRule)
        BY <1>3, <2>3, <2>4, <2>8 DEF AnchoredVwap
      <3>2. Mirrors(Result(FALSE, NoSide, "avwap_test", x.c, NoRule),
                    Result(FALSE, Opposite(NoSide), "avwap_test", y.c, NoRule))
        BY MirrorResult
      <3> QED
        BY <3>1, <3>2, Opposites
    <2>9. CASE ~(~x.enough \/ x.atr = 0) /\ ~long /\ ~short /\ ~test
      BY <1>3, <2>3, <2>4, <2>9, MirrorQuiet DEF AnchoredVwap
    <2> QED
      BY <2>5, <2>6, <2>7, <2>8, <2>9
  <1> QED
    BY <1>5, <1>6, <1>7

(* A trap's level is the near edge of the value area or, without one, that *)
(* of the lookback.                                                        *)
LEMMA TrapMirrors ==
    ASSUME NEW x, NEW y, Pair(x, y)
    PROVE  Mirrors(ShortTrap(x), LongTrap(y)) /\ Mirrors(LongTrap(x), ShortTrap(y))
  <1> DEFINE low  == IF x.lo # NoLevel THEN x.lo ELSE x.pl
             high == IF x.hi # NoLevel THEN x.hi ELSE x.ph
  <1>1. /\ x.lo \in MarketOrNone /\ x.hi \in MarketOrNone /\ x.pl \in Market /\ x.ph \in Market
        /\ x.c \in Market /\ x.rl \in Market /\ x.rh \in Market
    BY DEF Pair, Views
  <1>2. low \in Market /\ high \in Market
    BY <1>1 DEF MarketOrNone
  <1>3. /\ (IF y.hi # NoLevel THEN y.hi ELSE y.ph) = Pivot - low
        /\ (IF y.lo # NoLevel THEN y.lo ELSE y.pl) = Pivot - high
    <2>1. /\ y.hi = Flipped(x.lo) /\ y.lo = Flipped(x.hi)
          /\ y.ph = Pivot - x.pl /\ y.pl = Pivot - x.ph
      BY DEF Pair, Reflects
    <2>2. /\ y.hi = NoLevel <=> x.lo = NoLevel
          /\ y.lo = NoLevel <=> x.hi = NoLevel
      BY <1>1, <2>1, FlippedLevel
    <2> QED
      BY <2>1, <2>2 DEF Flipped
  <1>4. y.c = Pivot - x.c /\ y.rh = Pivot - x.rl /\ y.rl = Pivot - x.rh
        /\ y.enough = x.enough /\ y.atr = x.atr
    BY DEF Pair, Reflects
  <1>5. /\ ShortTrap(x) = IF ~x.enough \/ x.atr = 0 THEN Quiet("insufficient_data")
                          ELSE IF x.rl < low /\ x.c > low
                               THEN Fire(LONG, "short_trap_long", x.c, Below(low))
                          ELSE Quiet("no_trap")
        /\ LongTrap(x) = IF ~x.enough \/ x.atr = 0 THEN Quiet("insufficient_data")
                         ELSE IF x.rh > high /\ x.c < high
                              THEN Fire(SHORT, "long_trap_short", x.c, Above(high))
                         ELSE Quiet("no_trap")
    BY DEF ShortTrap, LongTrap
  <1>6. /\ LongTrap(y) = IF ~x.enough \/ x.atr = 0 THEN Quiet("insufficient_data")
                         ELSE IF y.rh > Pivot - low /\ y.c < Pivot - low
                              THEN Fire(SHORT, "long_trap_short", y.c, Above(Pivot - low))
                         ELSE Quiet("no_trap")
        /\ ShortTrap(y) = IF ~x.enough \/ x.atr = 0 THEN Quiet("insufficient_data")
                          ELSE IF y.rl < Pivot - high /\ y.c > Pivot - high
                               THEN Fire(LONG, "short_trap_long", y.c, Below(Pivot - high))
                          ELSE Quiet("no_trap")
    BY <1>3, <1>4 DEF ShortTrap, LongTrap
  <1> HIDE DEF low, high
  <1>7. Flipped(low) = Pivot - low /\ Flipped(high) = Pivot - high
    BY <1>2, FlippedLevel
  <1>8. /\ y.rh > Pivot - low /\ y.c < Pivot - low <=> x.rl < low /\ x.c > low
        /\ y.rl < Pivot - high /\ y.c > Pivot - high <=> x.rh > high /\ x.c < high
    <2>1. /\ low \in Int /\ high \in Int /\ x.rl \in Int /\ x.rh \in Int /\ x.c \in Int
          /\ Pivot \in Int
      BY <1>1, <1>2, MarketIsInt
    <2> QED
      BY <1>4, <2>1
  <1>9. /\ Mirrors(Fire(LONG, "short_trap_long", x.c, Below(low)),
                   Fire(SHORT, "long_trap_short", y.c, Above(Pivot - low)))
        /\ Mirrors(Fire(SHORT, "long_trap_short", x.c, Above(high)),
                   Fire(LONG, "short_trap_long", y.c, Below(Pivot - high)))
    BY <1>7, MirrorFire
  <1>10. Mirrors(ShortTrap(x), LongTrap(y))
    BY <1>5, <1>6, <1>8, <1>9, MirrorQuiet
  <1>11. Mirrors(LongTrap(x), ShortTrap(y))
    BY <1>5, <1>6, <1>8, <1>9, MirrorQuiet
  <1> QED
    BY <1>10, <1>11

(* Those that compare the close with levels that may be missing.           *)
LEMMA RangeMirrors ==
    ASSUME NEW x, NEW y, Pair(x, y), x.lo = NoLevel <=> x.hi = NoLevel, x.lo <= x.hi
    PROVE  /\ Mirrors(OpeningRange(x), OpeningRange(y))
           /\ (x.hi = NoLevel => x.poc = NoLevel)
                => Mirrors(VolumeProfilePoc(x), VolumeProfilePoc(y))
  <1>1. /\ x.c \in Market /\ x.hi \in MarketOrNone /\ x.lo \in MarketOrNone
        /\ x.poc \in MarketOrNone /\ x.enough \in BOOLEAN
    BY DEF Pair, Views
  <1>2. x.c \in Int /\ x.hi \in Int /\ x.lo \in Int /\ Pivot \in Int
    BY <1>1, MarketIsInt
  <1>3. /\ y.c = Pivot - x.c /\ y.hi = Flipped(x.lo) /\ y.lo = Flipped(x.hi)
        /\ y.poc = Flipped(x.poc) /\ y.enough = x.enough /\ y.rvol = x.rvol
    BY DEF Pair, Reflects
  <1>4. Mirrors(OpeningRange(x), OpeningRange(y))
    <2>1. CASE ~x.enough \/ x.hi = NoLevel
      <3>1. ~y.enough \/ y.hi = NoLevel
        BY <1>3, <2>1, FlippedLevel
      <3> QED
        BY <2>1, <3>1, MirrorQuiet DEF OpeningRange
    <2>2. CASE x.enough /\ x.hi # NoLevel
      <3>1. /\ y.hi # NoLevel /\ y.hi = Pivot - x.lo /\ y.lo = Pivot - x.hi
        BY <1>1, <1>3, <2>2, FlippedLevel DEF Flipped
      <3>2. /\ y.c > y.hi <=> x.c < x.lo
            /\ y.c < y.lo <=> x.c > x.hi
            /\ ~(x.c > x.hi /\ x.c < x.lo)
        BY <1>2, <1>3, <3>1
      <3>3. CASE x.c > x.hi
        <4>1. /\ OpeningRange(x) = Fire(LONG, "orb_long", x.c, Below(x.hi))
              /\ OpeningRange(y) = Fire(SHORT, "orb_short", y.c, Above(Flipped(x.hi)))
          BY <1>3, <2>2, <3>1, <3>2, <3>3 DEF OpeningRange
        <4> QED
          BY <4>1, MirrorFire
      <3>4. CASE x.c < x.lo
        <4>1. /\ OpeningRange(x) = Fire(SHORT, "orb_short", x.c, Above(x.lo))
              /\ OpeningRange(y) = Fire(LONG, "orb_long", y.c, Below(Flipped(x.lo)))
          BY <1>3, <2>2, <3>1, <3>2, <3>4 DEF OpeningRange
        <4> QED
          BY <4>1, MirrorFire
      <3>5. CASE ~(x.c > x.hi) /\ ~(x.c < x.lo)
        BY <1>3, <2>2, <3>1, <3>2, <3>5, MirrorQuiet DEF OpeningRange
      <3> QED
        BY <3>3, <3>4, <3>5
    <2> QED
      BY <1>1, <2>1, <2>2
  <1>5. ASSUME x.hi = NoLevel => x.poc = NoLevel
        PROVE  Mirrors(VolumeProfilePoc(x), VolumeProfilePoc(y))
    <2>1. CASE x.poc = NoLevel
      <3>1. y.poc = NoLevel
        BY <1>3, <2>1, FlippedLevel
      <3> QED
        BY <2>1, <3>1, MirrorQuiet DEF VolumeProfilePoc
    <2>2. CASE x.poc # NoLevel
      <3> DEFINE accepted == x.rvol >= 12
                 outside(v) == v.c > v.hi \/ v.c < v.lo
                 cls(v) == IF outside(v) THEN "edge_of_value"
                           ELSE IF 5 * Abs(v.c - v.poc) <= v.hi - v.lo THEN "poc_balance"
                           ELSE "inside_value"
                 short(v, k) == Result(TRUE, SHORT, k, v.c, Above(v.hi))
                 long(v, k)  == Result(TRUE, LONG, k, v.c, Below(v.lo))
      <3>1. y.poc # NoLevel /\ y.hi # NoLevel /\ y.hi = Pivot - x.lo /\ y.lo = Pivot - x.hi
        BY <1>1, <1>3, <1>5, <2>2, FlippedLevel DEF Flipped
      <3>2. /\ y.c > y.hi <=> x.c < x.lo
            /\ y.c < y.lo <=> x.c > x.hi
            /\ ~(x.c > x.hi /\ x.c < x.lo)
        BY <1>2, <1>3, <3>1
      <3>3. LONG # SHORT /\ NoSide # LONG
        BY DEF LONG, SHORT, NoSide
      <3>4. ASSUME NEW v, v.poc # NoLevel, ~(v.c > v.hi /\ v.c < v.lo)
            PROVE  VolumeProfilePoc(v) =
                      IF v.c > v.hi THEN IF v.rvol >= 12 THEN long(v, cls(v)) ELSE short(v, cls(v))
                      ELSE IF v.c < v.lo THEN IF v.rvol >= 12 THEN short(v, cls(v)) ELSE long(v, cls(v))
                      ELSE Result(FALSE, NoSide, cls(v), v.c, Above(v.hi))
        <4>1. CASE v.c > v.hi
          BY <3>3, <3>4, <4>1 DEF VolumeProfilePoc, SideOf
        <4>2. CASE ~(v.c > v.hi) /\ v.c < v.lo
          BY <3>3, <3>4, <4>2 DEF VolumeProfilePoc, SideOf
        <4>3. CASE ~(v.c > v.hi) /\ ~(v.c < v.lo)
          BY <3>3, <3>4, <4>3 DEF VolumeProfilePoc
        <4> QED
          BY <4>1, <4>2, <4>3
      <3>5. ~(y.c > y.hi /\ y.c < y.lo)
        BY <3>2
      <3>6. VolumeProfilePoc(x) =
               IF x.c > x.hi THEN IF accepted THEN long(x, cls(x)) ELSE short(x, cls(x))
               ELSE IF x.c < x.lo THEN IF accepted THEN short(x, cls(x)) ELSE long(x, cls(x))
               ELSE Result(FALSE, NoSide, cls(x), x.c, Above(x.hi))
        BY <2>2, <3>2, <3>4
      <3>7. VolumeProfilePoc(y) =
               IF x.c < x.lo THEN IF accepted THEN long(y, cls(y)) ELSE short(y, cls(y))
               ELSE IF x.c > x.hi THEN IF accepted THEN short(y, cls(y)) ELSE long(y, cls(y))
               ELSE Result(FALSE, NoSide, cls(y), y.c, Above(y.hi))
        BY <1>3, <3>1, <3>2, <3>4, <3>5
      <3>8. \A k, q : /\ Mirrors(long(x, k), short(y, q))
                      /\ Mirrors(short(x, k), long(y, q))
        BY <1>3, MirrorFire DEF Fire
      <3>9. \A k, q : Mirrors(Result(FALSE, NoSide, k, x.c, Above(x.hi)),
                              Result(FALSE, NoSide, q, y.c, Above(y.hi)))
        BY Opposites DEF Mirrors, Result, Directional
      <3> HIDE DEF accepted, outside, cls, long, short
      <3>10. CASE x.c > x.hi
        BY <3>2, <3>6, <3>7, <3>8, <3>10
      <3>11. CASE x.c < x.lo
        BY <3>2, <3>6, <3>7, <3>8, <3>11
      <3>12. CASE ~(x.c > x.hi) /\ ~(x.c < x.lo)
        BY <3>6, <3>7, <3>9, <3>12
      <3> QED
        BY <3>10, <3>11, <3>12
    <2> QED
      BY <2>1, <2>2
  <1> QED
    BY <1>4, <1>5

(* A gap filled or followed by the close.                                  *)
LEMMA GapMirrors ==
    ASSUME NEW x, NEW y, Pair(x, y), y.stat = -x.stat
    PROVE  Mirrors(Gap(x), Gap(y))
  <1>1. x.c \in Market /\ x.prev \in MarketOrNone /\ x.stat \in Int
    BY DEF Pair, Views
  <1>2. x.c \in Int /\ x.prev \in Int /\ Pivot \in Int
    BY <1>1, MarketIsInt
  <1>3. y.c = Pivot - x.c /\ y.prev = Flipped(x.prev)
    BY DEF Pair, Reflects
  <1>4. CASE x.prev = NoLevel
    BY <1>3, <1>4, FlippedLevel, MirrorQuiet DEF Gap
  <1>5. CASE x.prev # NoLevel /\ x.stat = 0
    <2>1. y.prev # NoLevel
      BY <1>1, <1>3, <1>5, FlippedLevel
    <2>2. y.stat = 0
      BY <1>1, <1>5, MinusZero
    <2> QED
      BY <1>5, <2>1, <2>2, MirrorQuiet DEF Gap
  <1>6. CASE x.prev # NoLevel /\ x.stat # 0
    <2> DEFINE up == x.stat > 0
               filled(v) == \/ v.stat > 0 /\ v.c <= v.prev
                            \/ v.stat < 0 /\ v.c >= v.prev
    <2>1. y.prev # NoLevel /\ y.prev = Pivot - x.prev /\ y.stat # 0
      BY <1>1, <1>3, <1>6, FlippedLevel DEF Flipped
    <2>2. /\ up \in BOOLEAN /\ (x.stat < 0) = ~up
          /\ (y.stat > 0) = ~up /\ (y.stat < 0) = up
      BY <1>1, <1>6
    <2>3. filled(y) <=> filled(x)
      BY <1>1, <1>2, <1>3, <2>1
    <2>4. /\ Gap(x) = IF filled(x) THEN Fire(SideOf(~up), "gap_fill", x.c, NoRule)
                      ELSE Fire(SideOf(up), "gap_and_go", x.c,
                                IF up THEN Below(x.prev) ELSE Above(x.prev))
          /\ Gap(y) = IF filled(y) THEN Fire(SideOf(up), "gap_fill", y.c, NoRule)
                      ELSE Fire(SideOf(~up), "gap_and_go", y.c,
                                IF ~up THEN Below(y.prev) ELSE Above(y.prev))
      BY <1>6, <2>1, <2>2 DEF Gap
    <2> HIDE DEF up, filled
    <2>5. Mirrors(Fire(SideOf(~up), "gap_fill", x.c, NoRule), Fire(SideOf(up), "gap_fill", y.c, NoRule))
      <3>1. CASE up
        <4>1. Mirrors(Fire(SideOf(FALSE), "gap_fill", x.c, NoRule), Fire(SideOf(~FALSE), "gap_fill", y.c, NoRule))
          BY MirrorFire
        <4> QED
          BY <3>1, <4>1 DEF SideOf
      <3>2. CASE ~up
        <4>1. Mirrors(Fire(SideOf(TRUE), "gap_fill", x.c, NoRule), Fire(SideOf(~TRUE), "gap_fill", y.c, NoRule))
          BY MirrorFire
        <4> QED
          BY <3>2, <4>1 DEF SideOf
      <3> QED
        BY <3>1, <3>2
    <2>6. CASE filled(x)
      BY <2>3, <2>4, <2>5, <2>6
    <2>7. CASE ~filled(x) /\ up
      <3>1. /\ Gap(x) = Fire(LONG, "gap_and_go", x.c, Below(x.prev))
            /\ Gap(y) = Fire(SHORT, "gap_and_go", y.c, Above(Flipped(x.prev)))
        BY <1>3, <2>3, <2>4, <2>7 DEF SideOf
      <3> QED
        BY <3>1, MirrorFire
    <2>8. CASE ~filled(x) /\ ~up
      <3>1. /\ Gap(x) = Fire(SHORT, "gap_and_go", x.c, Above(x.prev))
            /\ Gap(y) = Fire(LONG, "gap_and_go", y.c, Below(Flipped(x.prev)))
        BY <1>3, <2>3, <2>4, <2>8 DEF SideOf
      <3> QED
        BY <3>1, MirrorFire
    <2> QED
      BY <2>6, <2>7, <2>8
  <1> QED
    BY <1>4, <1>5, <1>6

(* The tails of a bar change places: its body's top becomes the bottom.    *)
LEMMA BodyEnds ==
    ASSUME NEW m \in Int, NEW n \in Int
    PROVE  /\ Greatest({m, n}) = IF m < n THEN n ELSE m
           /\ Least({m, n}) = IF m < n THEN m ELSE n
  <1>1. {m, n} \in SUBSET Int /\ IsFiniteSet({m, n}) /\ {m, n} # {}
    <2>1. IsFiniteSet({m}) /\ {m, n} = {m} \cup {n}
      BY FS_Singleton
    <2> QED
      BY <2>1, FS_AddElement
  <1>2. Greatest({m, n}) \in {m, n} /\ \A j \in {m, n} : j <= Greatest({m, n})
    BY <1>1, GreatestIsGreatest
  <1>3. Least({m, n}) \in {m, n} /\ \A j \in {m, n} : Least({m, n}) <= j
    BY <1>1, LeastIsLeast
  <1> QED
    BY <1>2, <1>3

LEMMA TailMirrors ==
    ASSUME NEW x, NEW y, Pair(x, y)
    PROVE  Mirrors(ReversalMaster(x), ReversalMaster(y))
  <1>1. /\ x.o \in Int /\ x.c \in Int /\ x.h \in Int /\ x.l \in Int /\ Pivot \in Int
        /\ x.h \in Market /\ x.l \in Market /\ x.dist \in Int /\ x.enough \in BOOLEAN
        /\ x.rvol \in Nat
    BY MarketIsInt DEF Pair, Views
  <1>2. /\ y.o = Pivot - x.o /\ y.c = Pivot - x.c /\ y.h = Pivot - x.l /\ y.l = Pivot - x.h
        /\ y.dist = -x.dist /\ y.enough = x.enough /\ y.rvol = x.rvol
    BY DEF Pair, Reflects
  <1> DEFINE rng(v)   == v.h - v.l
             upper(v) == v.h - Greatest({v.o, v.c})
             lower(v) == Least({v.o, v.c}) - v.l
             out(v)   == ~v.enough \/ rng(v) = 0 \/ v.rvol < 15
             short(v) == v.dist >= 20 /\ 2 * upper(v) >= rng(v)
             long(v)  == v.dist <= -20 /\ 2 * lower(v) >= rng(v)
  <1>3. /\ upper(y) = lower(x) /\ lower(y) = upper(x) /\ rng(y) = rng(x)
    <2>1. /\ Greatest({x.o, x.c}) = IF x.o < x.c THEN x.c ELSE x.o
          /\ Least({x.o, x.c}) = IF x.o < x.c THEN x.o ELSE x.c
      BY <1>1, BodyEnds
    <2>2. y.o \in Int /\ y.c \in Int
      BY <1>1, <1>2
    <2>3. /\ Greatest({y.o, y.c}) = IF y.o < y.c THEN y.c ELSE y.o
          /\ Least({y.o, y.c}) = IF y.o < y.c THEN y.o ELSE y.c
      BY <2>2, BodyEnds
    <2> QED
      BY <1>1, <1>2, <2>1, <2>3
  <1>4. /\ out(y) <=> out(x)
        /\ short(y) <=> long(x)
        /\ long(y) <=> short(x)
        /\ ~(short(x) /\ long(x))
    <2>1. /\ y.dist >= 20 <=> x.dist <= -20
          /\ y.dist <= -20 <=> x.dist >= 20
          /\ ~(x.dist >= 20 /\ x.dist <= -20)
      BY <1>1, <1>2
    <2> QED
      BY <1>2, <1>3, <2>1
  <1>5. \A v : ReversalMaster(v) =
           IF out(v) THEN Quiet("no_reversal")
           ELSE IF short(v) THEN Fire(SHORT, "top", v.c, Above(v.h))
           ELSE IF long(v) THEN Fire(LONG, "bottom", v.c, Below(v.l))
           ELSE Quiet("no_reversal")
    BY DEF ReversalMaster
  <1>6. y.h = Flipped(x.l) /\ y.l = Flipped(x.h)
    BY <1>1, <1>2, FlippedLevel
  <1> HIDE DEF rng, upper, lower, out, short, long
  <1>7. CASE out(x)
    BY <1>4, <1>5, <1>7, MirrorQuiet
  <1>8. CASE ~out(x) /\ short(x)
    <2>1. /\ ReversalMaster(x) = Fire(SHORT, "top", x.c, Above(x.h))
          /\ ReversalMaster(y) = Fire(LONG, "bottom", y.c, Below(Flipped(x.h)))
      BY <1>4, <1>5, <1>6, <1>8
    <2> QED
      BY <2>1, MirrorFire
  <1>9. CASE ~out(x) /\ long(x)
    <2>1. /\ ReversalMaster(x) = Fire(LONG, "bottom", x.c, Below(x.l))
          /\ ReversalMaster(y) = Fire(SHORT, "top", y.c, Above(Flipped(x.l)))
      BY <1>4, <1>5, <1>6, <1>9
    <2> QED
      BY <2>1, MirrorFire
  <1>10. CASE ~out(x) /\ ~short(x) /\ ~long(x)
    <2>1. /\ ReversalMaster(x) = Quiet("no_reversal")
          /\ ReversalMaster(y) = Quiet("no_reversal")
      BY <1>4, <1>5, <1>10
    <2> QED
      BY <2>1, MirrorQuiet
  <1> QED
    BY <1>7, <1>8, <1>9, <1>10

(* A pullback is read alike from either side.                              *)
LEMMA PullbackMirrors ==
    ASSUME NEW x, NEW y, Pair(x, y)
    PROVE  Mirrors(PullbackClassifier(x), PullbackClassifier(y))
  <1>1. /\ x.c \in Market /\ x.poc \in MarketOrNone /\ x.trend \in Int /\ x.enough \in BOOLEAN
        /\ x.atr \in Nat
    BY DEF Pair, Views
  <1>2. x.c \in Int /\ x.poc \in Int /\ Pivot \in Int
    BY <1>1, MarketIsInt
  <1>3. /\ y.c = Pivot - x.c /\ y.poc = Flipped(x.poc) /\ y.trend = -x.trend
        /\ y.enough = x.enough /\ y.atr = x.atr /\ y.rvol = x.rvol
    BY DEF Pair, Reflects
  <1>4. PullbackReason(y) = PullbackReason(x)
    <2>1. CASE x.poc = NoLevel
      <3>1. y.poc = NoLevel
        BY <1>3, <2>1, FlippedLevel
      <3> QED
        BY <1>3, <2>1, <3>1 DEF PullbackReason
    <2>2. CASE x.poc # NoLevel
      <3>1. y.poc # NoLevel /\ y.poc = Pivot - x.poc
        BY <1>1, <1>3, <2>2, FlippedLevel DEF Flipped
      <3>2. Abs(y.c - y.poc) = Abs(x.c - x.poc)
        BY <1>2, <1>3, <3>1 DEF Abs
      <3> QED
        BY <1>3, <2>2, <3>1, <3>2 DEF PullbackReason
    <2> QED
      BY <2>1, <2>2
  <1>5. CASE ~x.enough \/ x.trend = 0
    <2>1. x.trend = 0 => y.trend = 0
      <3>1. x.trend \in Int
        BY DEF Pair, Views
      <3> QED
        BY <1>3, <3>1, MinusZero
    <2> QED
      BY <1>3, <1>5, <2>1, MirrorQuiet DEF PullbackClassifier
  <1>6. CASE x.enough /\ x.trend # 0
    <2> DEFINE on  == PullbackReason(x) \in {"value_retest", "low_volume_pullback"}
               cls == PullbackReason(x)
               up  == x.trend > 0
    <2>1. up \in BOOLEAN /\ (y.trend > 0) = ~up /\ y.trend # 0
      BY <1>1, <1>3, <1>6
    <2>2. /\ PullbackClassifier(x) = Result(on, IF on THEN SideOf(up) ELSE NoSide, cls, NoLevel, NoRule)
          /\ PullbackClassifier(y) = Result(on, IF on THEN SideOf(~up) ELSE NoSide, cls, NoLevel, NoRule)
      BY <1>3, <1>4, <1>6, <2>1 DEF PullbackClassifier
    <2> HIDE DEF on, cls, up
    <2>3. CASE on
      BY <2>1, <2>2, <2>3, MirrorResult, Opposites, RulesTurn
    <2>4. CASE ~on
      BY <2>2, <2>4, MirrorResult, Opposites, RulesTurn
    <2> QED
      BY <2>3, <2>4
  <1> QED
    BY <1>1, <1>5, <1>6

(* The structure breaks the other way, but where the last swings are the   *)
(* wrong way round and the close lies between them.                        *)
LEMMA BreakMirrors ==
    ASSUME NEW x, NEW y, Pair(x, y), ~BothBranches("mtf_structure", x)
    PROVE  /\ BreakOfStructure(y) = -BreakOfStructure(x)
           /\ BreakOfStructure(x) \in {-1, 0, 1}
  <1>1. x.c \in Market /\ x.hi \in MarketOrNone /\ x.lo \in MarketOrNone
    BY DEF Pair, Views
  <1>2. x.c \in Int /\ x.hi \in Int /\ x.lo \in Int /\ Pivot \in Int
    BY <1>1, MarketIsInt
  <1>3. y.c = Pivot - x.c /\ y.hi = Flipped(x.lo) /\ y.lo = Flipped(x.hi)
    BY DEF Pair, Reflects
  <1> DEFINE up   == x.hi # NoLevel /\ x.c > x.hi
             down == x.lo # NoLevel /\ x.c < x.lo
  <1>4. ~(up /\ down)
    BY <1>2 DEF BothBranches
  <1>5. y.hi # NoLevel /\ y.c > y.hi <=> down
    <2>1. y.hi # NoLevel <=> x.lo # NoLevel
      BY <1>1, <1>3, FlippedLevel
    <2>2. x.lo # NoLevel => y.hi = Pivot - x.lo
      BY <1>3 DEF Flipped
    <2>3. x.lo # NoLevel => (y.c > y.hi <=> x.c < x.lo)
      BY <1>2, <1>3, <2>2
    <2> QED
      BY <2>1, <2>3
  <1>6. y.lo # NoLevel /\ y.c < y.lo <=> up
    <2>1. y.lo # NoLevel <=> x.hi # NoLevel
      BY <1>1, <1>3, FlippedLevel
    <2>2. x.hi # NoLevel => y.lo = Pivot - x.hi
      BY <1>3 DEF Flipped
    <2>3. x.hi # NoLevel => (y.c < y.lo <=> x.c > x.hi)
      BY <1>2, <1>3, <2>2
    <2> QED
      BY <2>1, <2>3
  <1>7. BreakOfStructure(x) = IF up THEN 1 ELSE IF down THEN -1 ELSE 0
    BY DEF BreakOfStructure
  <1>8. BreakOfStructure(y) = IF down THEN 1 ELSE IF up THEN -1 ELSE 0
    BY <1>5, <1>6 DEF BreakOfStructure
  <1> HIDE DEF up, down
  <1> QED
    BY <1>4, <1>7, <1>8

LEMMA StructureMirrors ==
    ASSUME NEW x, NEW y, Pair(x, y), ~BothBranches("mtf_structure", x)
    PROVE  Mirrors(MtfStructure(x), MtfStructure(y))
  <1> DEFINE bos(v)   == BreakOfStructure(v)
             htf(v)   == IF v.htf = "none" THEN v.trend
                         ELSE IF v.htf = "up" THEN 1 ELSE IF v.htf = "down" THEN -1 ELSE 0
             on(v)    == htf(v) # 0 /\ bos(v) = htf(v)
             turns(v) == ChangeOfCharacter(v) # 0
             side(v)  == IF on(v) \/ (~on(v) /\ turns(v)) THEN SideOf(bos(v) > 0) ELSE NoSide
             cls(v)   == IF on(v) THEN "continuation"
                         ELSE IF ~on(v) /\ turns(v) THEN "reversal_watch" ELSE "no_trade"
             level(v) == IF side(v) = LONG THEN v.lo ELSE v.hi
             rule(v)  == IF level(v) = NoLevel THEN NoRule
                         ELSE IF side(v) = LONG THEN Below(level(v)) ELSE Above(level(v))
  <1>1. /\ x.hi \in MarketOrNone /\ x.lo \in MarketOrNone /\ x.trend \in Int
        /\ x.htf \in {"none", "up", "down", "range"}
    BY DEF Pair, Views
  <1>2. /\ y.hi = Flipped(x.lo) /\ y.lo = Flipped(x.hi) /\ y.trend = -x.trend
        /\ y.htf = (IF x.htf = "up" THEN "down" ELSE IF x.htf = "down" THEN "up" ELSE x.htf)
        /\ y.enough = x.enough
    BY DEF Pair, Reflects
  <1>3. bos(y) = -bos(x) /\ bos(x) \in {-1, 0, 1}
    BY BreakMirrors
  <1>4. htf(x) \in Int /\ htf(y) = -htf(x)
    BY <1>1, <1>2
  <1>5. /\ on(y) <=> on(x)
        /\ on(x) \in BOOLEAN /\ on(y) \in BOOLEAN
    BY <1>3, <1>4
  <1>6. turns(y) <=> turns(x)
    <2>1. ASSUME NEW v, bos(v) \in {-1, 0, 1}, v.trend \in Int
          PROVE  turns(v) <=> ((bos(v) = 1 /\ v.trend < 0) \/ (bos(v) = -1 /\ v.trend > 0))
      <3>1. \A b \in {-1, 0, 1} : \A t \in Int :
               b * t < 0 <=> ((b = 1 /\ t < 0) \/ (b = -1 /\ t > 0))
        OBVIOUS
      <3>2. bos(v) * v.trend < 0
                 <=> ((bos(v) = 1 /\ v.trend < 0) \/ (bos(v) = -1 /\ v.trend > 0))
        BY <2>1, <3>1
      <3>3. ChangeOfCharacter(v) = IF bos(v) * v.trend < 0 THEN bos(v) ELSE 0
        BY DEF ChangeOfCharacter
      <3> HIDE DEF bos
      <3> QED
        BY <3>2, <3>3
    <2>2. bos(y) \in {-1, 0, 1} /\ y.trend \in Int
      BY <1>1, <1>2, <1>3
    <2>3. turns(x) <=> ((bos(x) = 1 /\ x.trend < 0) \/ (bos(x) = -1 /\ x.trend > 0))
      BY <1>1, <1>3, <2>1
    <2>4. turns(y) <=> ((bos(y) = 1 /\ y.trend < 0) \/ (bos(y) = -1 /\ y.trend > 0))
      BY <2>1, <2>2
    <2> HIDE DEF bos, turns
    <2>5. /\ bos(y) = 1 <=> bos(x) = -1
          /\ bos(y) = -1 <=> bos(x) = 1
          /\ y.trend < 0 <=> x.trend > 0
          /\ y.trend > 0 <=> x.trend < 0
      BY <1>1, <1>2, <1>3
    <2> QED
      BY <2>3, <2>4, <2>5
  <1>7. on(x) \/ turns(x) => bos(x) # 0
    BY <1>3 DEF ChangeOfCharacter
  <1>8. \A v : MtfStructure(v) = IF ~v.enough THEN Quiet("insufficient_data")
                                 ELSE Result(on(v), side(v), cls(v), v.c, rule(v))
    BY DEF MtfStructure
  <1>9. CASE ~x.enough
    BY <1>2, <1>8, <1>9, MirrorQuiet
  <1>10. CASE x.enough
    <2>1. /\ MtfStructure(x) = Result(on(x), side(x), cls(x), x.c, rule(x))
          /\ MtfStructure(y) = Result(on(y), side(y), cls(y), y.c, rule(y))
      BY <1>2, <1>8, <1>10
    <2>2. side(y) = Opposite(side(x)) /\ side(x) \in {LONG, SHORT, NoSide}
      <3>1. CASE on(x) \/ turns(x)
        <4> DEFINE up == bos(x) > 0
        <4>1. up \in BOOLEAN /\ (bos(y) > 0) = ~up
          BY <1>3, <1>7, <3>1
        <4>2. side(x) = SideOf(up) /\ side(y) = SideOf(~up)
          <5>1. side(x) = SideOf(bos(x) > 0) /\ side(y) = SideOf(bos(y) > 0)
            BY <1>5, <1>6, <3>1
          <5> QED
            BY <4>1, <5>1
        <4> HIDE DEF up, side
        <4> QED
          BY <4>1, <4>2, Opposites DEF SideOf
      <3>2. CASE ~(on(x) \/ turns(x))
        <4>1. side(x) = NoSide /\ side(y) = NoSide
          BY <1>5, <1>6, <3>2
        <4> QED
          BY <4>1, Opposites
      <3> QED
        BY <3>1, <3>2
    <2>3. LONG # SHORT /\ NoSide # LONG /\ NoSide # SHORT
      BY DEF LONG, SHORT, NoSide
    <2>4. side(x) = LONG => rule(y) = UpsideDownRule(rule(x))
      <3>1. SUFFICES ASSUME side(x) = LONG PROVE rule(y) = UpsideDownRule(rule(x))
        OBVIOUS
      <3> HIDE DEF side
      <3>2. side(y) = SHORT
        BY <2>2, <3>1, Opposites
      <3>3. /\ rule(x) = (IF x.lo = NoLevel THEN NoRule ELSE Below(x.lo))
            /\ rule(y) = (IF y.hi = NoLevel THEN NoRule ELSE Above(y.hi))
        BY <2>3, <3>1, <3>2
      <3>4. y.hi = NoLevel <=> x.lo = NoLevel
        BY <1>1, <1>2, FlippedLevel
      <3> HIDE DEF rule
      <3> QED
        BY <1>2, <3>3, <3>4, RulesTurn
    <2>5. side(x) = SHORT => rule(y) = UpsideDownRule(rule(x))
      <3>1. SUFFICES ASSUME side(x) = SHORT PROVE rule(y) = UpsideDownRule(rule(x))
        OBVIOUS
      <3> HIDE DEF side
      <3>2. side(y) = LONG
        BY <2>2, <3>1, Opposites
      <3>3. /\ rule(x) = (IF x.hi = NoLevel THEN NoRule ELSE Above(x.hi))
            /\ rule(y) = (IF y.lo = NoLevel THEN NoRule ELSE Below(y.lo))
        BY <2>3, <3>1, <3>2
      <3>4. y.lo = NoLevel <=> x.hi = NoLevel
        BY <1>1, <1>2, FlippedLevel
      <3> HIDE DEF rule
      <3> QED
        BY <1>2, <3>3, <3>4, RulesTurn
    <2> HIDE DEF on, side, cls, rule
    <2>6. Mirrors(Result(on(x), side(x), cls(x), x.c, rule(x)),
                  Result(on(x), Opposite(side(x)), cls(y), y.c, rule(y)))
      BY <2>4, <2>5, MirrorResult
    <2>7. on(y) = on(x)
      BY <1>5
    <2> QED
      BY <2>1, <2>2, <2>6, <2>7
  <1> QED
    BY <1>9, <1>10


-----------------------------------------------------------------------------
(* The nearest level of four, of which the first two change places.        *)
LEMMA KeyLevelMirrors ==
    ASSUME NEW x, NEW y, Pair(x, y), ~BothBranches("key_levels", x)
    PROVE  Mirrors(KeyLevel(x), KeyLevel(y))
  <1> DEFINE levels(v) == << <<SHORT, v.ph>>, <<LONG, v.pl>>,
                             <<NEUTRAL, v.prev>>, <<NEUTRAL, v.round>> >>
             near(v)  == {n \in 1..4 : /\ levels(v)[n][2] # NoLevel
                                       /\ 5 * Abs(v.c - levels(v)[n][2]) <= 2 * v.atr}
             first(v) == levels(v)[Least(near(v))]
             rule(v)  == [level |-> first(v)[2], cmp |-> "none"]
             swap(n)  == IF n = 1 THEN 2 ELSE IF n = 2 THEN 1 ELSE n
  <1>1. \A v : KeyLevel(v) = IF v.atr = 0 THEN Quiet("insufficient_data")
                             ELSE IF near(v) = {} THEN Quiet("no_level_reaction")
                             ELSE Fire(first(v)[1], "at_level", v.c, rule(v))
    BY DEF KeyLevel
  <1>2. \A n \in 1..4 : n = 1 \/ n = 2 \/ n = 3 \/ n = 4
    OBVIOUS
  <1>3. /\ x.c \in Market /\ x.ph \in Market /\ x.pl \in Market
        /\ x.prev \in MarketOrNone /\ x.round \in MarketOrNone /\ x.atr \in Nat
    BY DEF Pair, Views
  <1>4. /\ y.c = Pivot - x.c /\ y.ph = Pivot - x.pl /\ y.pl = Pivot - x.ph
        /\ y.prev = Flipped(x.prev) /\ y.round = Flipped(x.round) /\ y.atr = x.atr
    BY DEF Pair, Reflects
  <1>5. \A n \in 1..4 : /\ levels(x)[n][2] \in MarketOrNone
                        /\ swap(n) \in 1..4
                        /\ levels(y)[swap(n)][2] = Flipped(levels(x)[n][2])
                        /\ levels(y)[swap(n)][1] = Opposite(levels(x)[n][1])
    <2>1. /\ x.ph \in MarketOrNone /\ x.pl \in MarketOrNone
          /\ y.ph = Flipped(x.pl) /\ y.pl = Flipped(x.ph)
      BY <1>3, <1>4, FlippedLevel DEF MarketOrNone
    <2> QED
      BY <1>2, <1>3, <1>4, <2>1, Opposites
  <1>6. ASSUME NEW p \in MarketOrNone
        PROVE  /\ Flipped(p) # NoLevel <=> p # NoLevel
               /\ p # NoLevel => Abs(y.c - Flipped(p)) = Abs(x.c - p)
    <2>1. p \in Int /\ x.c \in Int /\ Pivot \in Int
      BY <1>3, MarketIsInt
    <2> QED
      BY <1>4, <2>1, FlippedLevel DEF Flipped, Abs
  <1>7. \A n \in 1..4 : swap(n) \in near(y) <=> n \in near(x)
    <2> SUFFICES ASSUME NEW n \in 1..4
                 PROVE  swap(n) \in near(y) <=> n \in near(x)
      OBVIOUS
    <2> DEFINE p == levels(x)[n][2]
    <2>1. n \in near(x) <=> p # NoLevel /\ 5 * Abs(x.c - p) <= 2 * x.atr
      OBVIOUS
    <2>2. swap(n) \in near(y) <=> Flipped(p) # NoLevel /\ 5 * Abs(y.c - Flipped(p)) <= 2 * y.atr
      BY <1>5
    <2>3. p \in MarketOrNone
      BY <1>5
    <2> HIDE DEF p, near, swap
    <2> QED
      BY <1>4, <1>6, <2>1, <2>2, <2>3
  <1>8. ~(1 \in near(x) /\ 2 \in near(x))
    BY DEF BothBranches
  <1>9. near(x) \subseteq 1..4 /\ near(y) \subseteq 1..4
    OBVIOUS
  <1>10. CASE x.atr = 0
    BY <1>1, <1>4, <1>10, MirrorQuiet
  <1>11. CASE x.atr # 0 /\ near(x) = {}
    <2>1. near(y) = {}
      <3>1. \A n \in 1..4 : swap(swap(n)) = n /\ swap(n) \in 1..4
        BY <1>2
      <3> HIDE DEF near, swap
      <3> QED
        BY <1>7, <1>9, <1>11, <3>1
    <2> QED
      BY <1>1, <1>4, <1>11, <2>1, MirrorQuiet
  <1>12. CASE x.atr # 0 /\ near(x) # {}
    <2>1. Least(near(x)) \in near(x) /\ \A k \in near(x) : Least(near(x)) <= k
      <3> HIDE DEF near
      <3> QED
        BY <1>9, <1>12, FewOfFour, LeastIsLeast
    <2> DEFINE n == Least(near(x))
    <2>2. n \in 1..4 /\ swap(n) \in near(y)
      BY <1>7, <1>9, <2>1
    <2>3. \A k \in near(y) : swap(n) <= k
      <3> SUFFICES ASSUME NEW k \in near(y) PROVE swap(n) <= k
        OBVIOUS
      <3>1. k \in 1..4 /\ swap(k) \in 1..4 /\ swap(swap(k)) = k
        BY <1>2, <1>9
      <3>2. swap(k) \in near(x)
        BY <1>7, <3>1
      <3>3. n <= swap(k) /\ ~(n = 1 /\ swap(k) = 2) /\ n \in 1..4
        BY <1>8, <2>1, <2>2, <3>2
      <3> HIDE DEF near, n
      <3> QED
        BY <1>2, <3>1, <3>3
    <2>4. Least(near(y)) = swap(n)
      <3>1. Least(near(y)) \in near(y) /\ \A k \in near(y) : Least(near(y)) <= k
        <4> HIDE DEF near, swap, n
        <4> QED
          BY <1>9, <2>2, FewOfFour, LeastIsLeast
      <3>2. Least(near(y)) <= swap(n) /\ swap(n) <= Least(near(y))
        BY <2>2, <2>3, <3>1
      <3>3. Least(near(y)) \in 1..4 /\ swap(n) \in 1..4
        <4>1. swap(n) \in 1..4
          BY <1>5, <2>2
        <4> HIDE DEF near, swap, n
        <4> QED
          BY <1>9, <3>1, <4>1
      <3> HIDE DEF near, swap, n
      <3> QED
        BY <3>2, <3>3
    <2>5. first(y)[1] = Opposite(first(x)[1]) /\ first(y)[2] = Flipped(first(x)[2])
      <3> HIDE DEF near, swap, levels
      <3> QED
        BY <1>5, <2>2, <2>4
    <2>6. rule(y) = UpsideDownRule(rule(x))
      BY <2>5 DEF UpsideDownRule
    <2>7. near(y) # {}
      BY <2>2
    <2>8. /\ KeyLevel(x) = Fire(first(x)[1], "at_level", x.c, rule(x))
          /\ KeyLevel(y) = Fire(first(y)[1], "at_level", y.c, rule(y))
      BY <1>1, <1>4, <1>12, <2>7
    <2> HIDE DEF rule, first
    <2> QED
      BY <2>5, <2>6, <2>8, MirrorResult DEF Fire
  <1> QED
    BY <1>10, <1>11, <1>12


(* Every price scanner that has two sides, and its twin.                   *)
LEMMA PriceMirrors ==
    ASSUME NEW i \in PriceIds \ OneSided, NEW x \in Snapshots[i], ~BothBranches(i, x)
    PROVE  Mirrors(ScanPrice(i, x), ScanPrice(Twin(i), UpsideDown(i, x)))
  <1> DEFINE y == UpsideDown(i, x)
  <1>1. x \in Views
    BY ViewsAssumption
  <1>2. Pair(x, y) /\ y.stat = IF i \in Unsigned THEN x.stat ELSE -x.stat
    BY <1>1, UpsideDownReflects DEF Pair
  <1> HIDE DEF y
  <1>3. CASE i \in {"bigger_move", "accumulation_distribution", "seasonality", "regime_classification"}
    <2>1. y.stat = -x.stat /\ Twin(i) = i
      BY <1>2, <1>3 DEF Unsigned, Twin
    <2> QED
      BY <1>2, <1>3, <2>1, StatMirrors DEF ScanPrice, y
  <1>4. CASE i \in {"trend_exhaustion", "volume_dryup_reversal"}
    <2>1. Twin(i) = i
      BY <1>4 DEF Twin
    <2> QED
      BY <1>2, <1>4, <2>1, DistanceMirrors DEF ScanPrice, y
  <1>5. CASE i \in {"momentum_ignition", "rvol_expansion", "volume_divergence"}
    <2>1. Twin(i) = i /\ x.o # x.c
      BY <1>5 DEF Twin, BothBranches
    <2>2. i = "volume_divergence" => y.stat = x.stat
      BY <1>2 DEF Unsigned
    <2> QED
      BY <1>2, <1>5, <2>1, <2>2, BodyMirrors DEF ScanPrice, y
  <1>6. CASE i \in {"squeeze_compression", "anomaly_detection", "volatility_regime"}
    <2>1. Twin(i) = i
      BY <1>6 DEF Twin
    <2>2. i = "volatility_regime" => y.stat = x.stat
      BY <1>2 DEF Unsigned
    <2> QED
      BY <1>2, <1>6, <2>1, <2>2, SidelessMirrors DEF ScanPrice, y
  <1>7. CASE i \in {"liquidity_sweep", "failed_move", "anchored_vwap"}
    <2>1. Twin(i) = i
      BY <1>7 DEF Twin
    <2>2. i = "anchored_vwap" => x.prev # NoLevel
      BY ViewsAssumption
    <2> QED
      BY <1>2, <1>7, <2>1, <2>2, LevelMirrors DEF ScanPrice, y
  <1>8. CASE i = "short_trap"
    BY <1>2, <1>8, TrapMirrors DEF ScanPrice, Twin, y
  <1>9. CASE i = "long_trap"
    BY <1>2, <1>9, TrapMirrors DEF ScanPrice, Twin, y
  <1>10. CASE i \in Paired
    <2>1. Twin(i) = i
      BY <1>10 DEF Twin, Paired
    <2>2. /\ x.lo = NoLevel <=> x.hi = NoLevel
          /\ x.lo <= x.hi
          /\ i = "volume_profile_poc" => (x.hi = NoLevel => x.poc = NoLevel)
      BY <1>10, ViewsAssumption
    <2> QED
      BY <1>2, <1>10, <2>1, <2>2, RangeMirrors DEF ScanPrice, Paired, y
  <1>11. CASE i = "gap_scan"
    <2>1. y.stat = -x.stat
      BY <1>2, <1>11 DEF Unsigned
    <2> QED
      BY <1>2, <1>11, <2>1, GapMirrors DEF ScanPrice, Twin, y
  <1>12. CASE i \in {"reversal_master", "pullback_classifier"}
    <2>1. Twin(i) = i
      BY <1>12 DEF Twin
    <2> QED
      BY <1>2, <1>12, <2>1, TailMirrors, PullbackMirrors DEF ScanPrice, y
  <1>13. CASE i = "mtf_structure"
    BY <1>2, <1>13, StructureMirrors DEF ScanPrice, Twin, y
  <1>14. CASE i = "key_levels"
    BY <1>2, <1>14, KeyLevelMirrors DEF ScanPrice, Twin, y
  <1> QED
    BY <1>3, <1>4, <1>5, <1>6, <1>7, <1>8, <1>9, <1>10, <1>11, <1>12, <1>13, <1>14
       DEF PriceIds, OneSided, Paired

(* Turned upside down, a snapshot gets the opposite answer under the       *)
(* opposite rule from the same scanner, or from the other trap.            *)
THEOREM SidesMirror == Spec => []MirrorImages
  <1>1. Spec => []Answered
    BY AnsweredInit, AnsweredNext, PTL DEF Spec
  <1>2. Answered => MirrorImages
    <2> SUFFICES ASSUME Answered, id \in PriceIds \ OneSided, ~BothBranches(id, view)
                 PROVE  Mirrors(result, Scan(Twin(id), UpsideDown(id, view)))
      BY DEF MirrorImages
    <2>1. id # Nothing /\ Twin(id) \in PriceIds
      BY DEF Nothing, Twin, PriceIds
    <2>2. view \in Snapshots[id] /\ result = ScanPrice(id, view)
      BY <2>1 DEF Answered, Scan
    <2>3. Scan(Twin(id), UpsideDown(id, view)) = ScanPrice(Twin(id), UpsideDown(id, view))
      BY <2>1 DEF Scan
    <2> QED
      BY <2>2, <2>3, PriceMirrors
  <1> QED
    BY <1>1, <1>2, PTL

==============================================================================
