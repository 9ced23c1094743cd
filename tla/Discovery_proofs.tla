-------------------------- MODULE Discovery_proofs --------------------------
(***************************************************************************)
(* What discovery learns from is in order, whatever the vendor returns;    *)
(* its turning points alternate, are worth the minimum move and stay where *)
(* they are; and a rule it suggests fires on its reason, which paid twice: *)
(* for any shapes of bars, any number of them, any order they arrive in,   *)
(* and any history of turns.                                               *)
(***************************************************************************)
EXTENDS Discovery, Sums_proofs, TLAPS

-----------------------------------------------------------------------------
BarRecords == [ts : Nat, high : Nat, low : Nat, row : {x.row : x \in Shapes}]
Turns      == {"bought", "sold"}
TurnEvents == [turn : Turns, bar : Nat, move : {l.move : l \in Lessons},
               reasons : {Reasons(l.row, t) : l \in Lessons, t \in Turns}]

(* The bars are whole and in order, and none is dated further ahead than   *)
(* the clock allows.                                                       *)
Whole(b, clock) == b.low <= b.high /\ b.ts \in 1..(clock + 2)
InOrder ==
    /\ bars \in Seq(BarRecords)
    /\ \A n \in 1..Len(bars) : Whole(bars[n], newest)
    /\ \A m, n \in 1..Len(bars) : m < n => bars[m].ts < bars[n].ts

DiscoveryInv ==
    /\ fetched \in 0..MaxBars /\ newest \in Nat
    /\ turns \in Seq(TurnEvents) /\ Len(turns) <= MaxTurns
    /\ Len(bars) <= fetched
    /\ InOrder

-----------------------------------------------------------------------------
LEMMA BarFields ==
    \A b \in BarRecords : b.ts \in Nat /\ b.high \in Nat /\ b.low \in Nat
  BY DEF BarRecords

LEMMA BarsAreRecords ==
    ASSUME InOrder
    PROVE  /\ Len(bars) \in Nat
           /\ \A n \in 1..Len(bars) : bars[n] \in BarRecords /\ bars[n].ts \in Nat
           /\ bars # <<>> => Last(bars).ts \in Nat
  <1>1. Len(bars) \in Nat /\ \A n \in 1..Len(bars) : bars[n] \in BarRecords
    BY DEF InOrder
  <1>2. bars # <<>> => Last(bars) = bars[Len(bars)] /\ Len(bars) \in 1..Len(bars)
    BY DEF InOrder, Last
  <1>. QED  BY <1>1, <1>2, BarFields

(* In a list in order the last bar is the newest, so a bar that is newer   *)
(* than it may follow.                                                     *)
LEMMA AppendNewer ==
    ASSUME InOrder, newest \in Nat, NEW clock \in Nat, newest <= clock,
           NEW b \in BarRecords, Whole(b, clock),
           bars = <<>> \/ Last(bars).ts < b.ts
    PROVE  LET longer == Append(bars, b)
           IN  /\ longer \in Seq(BarRecords) /\ Len(longer) = Len(bars) + 1
               /\ \A n \in 1..Len(longer) : Whole(longer[n], clock)
               /\ \A m, n \in 1..Len(longer) : m < n => longer[m].ts < longer[n].ts
  <1>. DEFINE longer == Append(bars, b)
  <1>1. /\ longer \in Seq(BarRecords) /\ Len(longer) = Len(bars) + 1
        /\ Len(bars) \in Nat
        /\ \A n \in 1..Len(bars) : longer[n] = bars[n]
        /\ longer[Len(bars) + 1] = b
    BY DEF InOrder
  <1>2. \A n \in 1..Len(bars) : bars[n] \in BarRecords /\ bars[n].ts \in Nat
    BY BarsAreRecords
  <1>3. \A n \in 1..Len(bars) : Whole(bars[n], clock)
    BY <1>2 DEF InOrder, Whole
  <1>4. \A n \in 1..Len(bars) : bars[n].ts < b.ts
    <2>. SUFFICES ASSUME NEW n \in 1..Len(bars)
                  PROVE  bars[n].ts < b.ts
      OBVIOUS
    <2>1. Last(bars) = bars[Len(bars)] /\ bars # <<>> /\ Len(bars) \in 1..Len(bars)
      BY <1>1 DEF Last
    <2>2. n = Len(bars) \/ bars[n].ts < bars[Len(bars)].ts
      BY <2>1, <1>1 DEF InOrder
    <2>3. b.ts \in Nat
      BY DEF BarRecords
    <2>. QED  BY <2>1, <2>2, <2>3, <1>2
  <1>. HIDE DEF longer
  <1>5. \A n \in 1..Len(longer) : Whole(longer[n], clock)
    BY <1>1, <1>3
  <1>6. \A m, n \in 1..Len(longer) : m < n => longer[m].ts < longer[n].ts
    <2>. SUFFICES ASSUME NEW m \in 1..Len(longer), NEW n \in 1..Len(longer), m < n
                  PROVE  longer[m].ts < longer[n].ts
      OBVIOUS
    <2>1. m \in 1..Len(bars) /\ longer[m] = bars[m]
      BY <1>1
    <2>2. CASE n = Len(bars) + 1
      BY <1>1, <1>4, <2>1, <2>2
    <2>3. CASE n # Len(bars) + 1
      <3>1. n \in 1..Len(bars)
        BY <1>1, <2>3
      <3>. QED  BY <1>1, <2>1, <3>1 DEF InOrder
    <2>. QED  BY <2>2, <2>3
  <1>. QED  BY <1>1, <1>5, <1>6 DEF longer

(* validate keeps the order whatever bar it is handed.                     *)
LEMMA ArriveKeeps ==
    ASSUME DiscoveryInv, NEW ts \in Nat, NEW b \in BarRecords, b.ts \in 1..(newest + 3),
           ts = newest + 1 \/ (ts = newest /\ b.ts = newest), Arrive(ts, b)
    PROVE  DiscoveryInv'
  <1>. USE DEF DiscoveryInv
  <1>1. fetched' \in 0..MaxBars /\ fetched' = fetched + 1 /\ UNCHANGED turns
    BY DiscoveryAssumption DEF Arrive
  <1>2. newest' = ts /\ newest' \in Nat /\ newest <= newest'
    BY DEF Arrive
  <1>3. CASE b.high < b.low \/ (bars # <<>> /\ b.ts <= Last(bars).ts)
    <2>1. bars' = bars
      BY <1>3 DEF Arrive, Keep
    <2>2. \A n \in 1..Len(bars) : bars[n].ts \in Nat
      BY BarsAreRecords
    <2>3. InOrder'
      BY <1>2, <2>1, <2>2 DEF InOrder, Whole
    <2>4. Len(bars) \in Nat
      BY DEF InOrder
    <2>. QED  BY <1>1, <1>2, <2>1, <2>3, <2>4
  <1>4. CASE ~(b.high < b.low \/ (bars # <<>> /\ b.ts <= Last(bars).ts))
    <2>1. bars' = Append(bars, b)
      BY <1>4 DEF Arrive, Keep
    <2>2. b.low \in Nat /\ b.high \in Nat /\ b.ts \in Nat
      BY DEF BarRecords
    <2>3. Whole(b, newest')
      BY <1>2, <1>4, <2>2 DEF Whole
    <2>4. bars = <<>> \/ Last(bars).ts < b.ts
      <3>. SUFFICES ASSUME bars # <<>>  PROVE  Last(bars).ts \in Nat
        BY <1>4, <2>2
      <3>. QED  BY BarsAreRecords
    <2>5. /\ bars' \in Seq(BarRecords) /\ Len(bars') = Len(bars) + 1
          /\ \A n \in 1..Len(bars') : Whole(bars'[n], newest')
          /\ \A m, n \in 1..Len(bars') : m < n => bars'[m].ts < bars'[n].ts
      BY <1>2, <2>1, <2>3, <2>4, AppendNewer
    <2>6. Len(bars) \in Nat
      BY DEF InOrder
    <2>. QED  BY <1>1, <1>2, <2>5, <2>6 DEF InOrder
  <1>. QED  BY <1>3, <1>4

LEMMA ShapesMakeBars ==
    ASSUME newest \in Nat
    PROVE  /\ \A x \in Shapes, ts \in Nat : Bar(ts, x) \in BarRecords /\ Bar(ts, x).ts = ts
           /\ \A ts \in Nat : LET broken == [Bar(ts, Odd) EXCEPT !.high = Odd.low - 1]
                              IN  broken \in BarRecords /\ broken.ts = ts
  BY DiscoveryAssumption DEF Bar, BarRecords

LEMMA RecordKeeps == ASSUME DiscoveryInv, RecordTurn PROVE DiscoveryInv'
  <1>. USE DEF DiscoveryInv
  <1>. DEFINE turn == IF turns # <<>> /\ Last(turns).turn = "bought" THEN "sold" ELSE "bought"
  <1>1. PICK lesson \in Lessons : turns' = Append(turns, TurnAt(turn, lesson.move, lesson.row))
    BY DEF RecordTurn
  <1>2. turn \in Turns
    BY DEF Turns
  <1>. HIDE DEF turn
  <1>3. TurnAt(turn, lesson.move, lesson.row) \in TurnEvents
    <2>1. Len(turns) + 1 \in Nat
      OBVIOUS
    <2>2. Reasons(lesson.row, turn) \in {Reasons(l.row, t) : l \in Lessons, t \in Turns}
      BY <1>2
    <2>. QED  BY <1>2, <2>1, <2>2 DEF TurnAt, TurnEvents
  <1>4. turns' \in Seq(TurnEvents) /\ Len(turns') <= MaxTurns
    BY <1>1, <1>3, DiscoveryAssumption DEF RecordTurn
  <1>. QED  BY <1>4 DEF RecordTurn, InOrder

LEMMA StepKeeps == ASSUME DiscoveryInv, [Next]_vars PROVE DiscoveryInv'
  <1>. USE DEF DiscoveryInv
  <1>1. CASE FreshBar
    BY <1>1, ArriveKeeps, ShapesMakeBars DEF FreshBar
  <1>2. CASE RepeatedBar
    BY <1>2, ArriveKeeps, ShapesMakeBars, DiscoveryAssumption DEF RepeatedBar
  <1>3. CASE LeapingBar
    <2>1. Bar(newest + 3, Odd) \in BarRecords /\ Bar(newest + 3, Odd).ts = newest + 3
      BY ShapesMakeBars, DiscoveryAssumption
    <2>. QED  BY <1>3, <2>1, ArriveKeeps DEF LeapingBar
  <1>4. CASE BrokenBar
    <2>. DEFINE broken == [Bar(newest + 1, Odd) EXCEPT !.high = Odd.low - 1]
    <2>1. broken \in BarRecords /\ broken.ts = newest + 1
      BY ShapesMakeBars
    <2>2. Arrive(newest + 1, broken)
      BY <1>4 DEF BrokenBar
    <2>. HIDE DEF broken
    <2>. QED  BY <2>1, <2>2, ArriveKeeps
  <1>5. CASE RecordTurn
    BY <1>5, RecordKeeps
  <1>6. CASE UNCHANGED vars
    BY <1>6 DEF vars, InOrder
  <1>. QED  BY <1>1, <1>2, <1>3, <1>4, <1>5, <1>6 DEF Next

-----------------------------------------------------------------------------
(* The bars discovery learns from are whole and their times rise strictly, *)
(* whatever repeated, early, late or broken bars arrive (validate).        *)
THEOREM BarsInOrder == Spec => []TypeOK
  <1>1. Init => DiscoveryInv
    BY DiscoveryAssumption DEF Init, DiscoveryInv, InOrder
  <1>2. DiscoveryInv /\ [Next]_vars => DiscoveryInv'
    BY StepKeeps
  <1>3. DiscoveryInv => TypeOK
    BY DEF DiscoveryInv, InOrder, Whole, TypeOK
  <1>. QED  BY <1>1, <1>2, <1>3, PTL DEF Spec

-----------------------------------------------------------------------------
(* The two tables of thresholds agree: what makes a reason also makes the  *)
(* rule it becomes fire, up to the threshold itself.                       *)
LEMMA RuleFires ==
    ASSUME NEW row \in Rows, NEW turn, NEW code, code \in Reasons(row, turn),
           code # "no_obvious_signature"
    PROVE  Fires(Condition(code), row)
              \/ row[Condition(code).feature] = Condition(code).threshold
  <1>1. /\ row.rsi \in Int /\ row.dist \in Int /\ row.bb \in Int /\ row.rvol \in Int
        /\ row.ret \in Int /\ row.obv \in Int /\ row.range \in Int
    BY DEF Rows
  <1>2. code \in Codes /\ Evident(code, row, turn)
    BY DEF Reasons
  <1>. USE <1>1, <1>2 DEF Evident, Condition, ReasonToCondition, Cond, Fires
  <1>3. CASE code = "rsi_oversold"
    BY <1>3
  <1>4. CASE code = "rsi_overbought"
    BY <1>4
  <1>5. CASE code = "stretched_below_mean"
    BY <1>5
  <1>6. CASE code = "stretched_above_mean"
    BY <1>6
  <1>7. CASE code = "band_extreme_low"
    BY <1>7
  <1>8. CASE code = "band_extreme_high"
    BY <1>8
  <1>9. CASE code = "volume_climax"
    BY <1>9
  <1>10. CASE code = "volume_dry_up"
    BY <1>10
  <1>11. CASE code = "momentum_flush"
    BY <1>11
  <1>12. CASE code = "momentum_blowoff"
    BY <1>12
  <1>13. CASE code = "obv_divergence_bull"
    BY <1>13
  <1>14. CASE code = "obv_divergence_bear"
    BY <1>14
  <1>15. CASE code = "climactic_bar"
    BY <1>15
  <1>16. CASE code = "compression_turn"
    BY <1>16
  <1>. QED
    BY <1>3, <1>4, <1>5, <1>6, <1>7, <1>8, <1>9, <1>10, <1>11, <1>12, <1>13, <1>14,
       <1>15, <1>16 DEF Codes

(* A rule that discovery suggests fires on every bar that carried its      *)
(* reason on its side, but for those on the threshold itself               *)
(* (_REASON_TO_CONDITION beside _identify_reasons, and custom_rule).       *)
THEOREM RulesAlwaysFire == Spec => []RulesFireOnTheirReason
  <1>1. RulesFireOnTheirReason
    <2>. SUFFICES ASSUME NEW rule \in Suggested(turns), NEW x \in Shapes,
                         rule.code \in Reasons(x.row, rule.turn)
                  PROVE  \/ Fires(Condition(rule.code), x.row)
                         \/ x.row[Condition(rule.code).feature] = Condition(rule.code).threshold
      BY DEF RulesFireOnTheirReason
    <2>1. rule.code # "no_obvious_signature"
      BY DEF Suggested
    <2>2. x.row \in Rows
      BY DiscoveryAssumption
    <2>. QED  BY <2>1, <2>2, RuleFires
  <1>. QED  BY <1>1, PTL

-----------------------------------------------------------------------------
(* A subset whose mean exceeds that of the whole has a member above one of *)
(* the rest.                                                               *)
LEMMA TimesKeepsOrder ==
    ASSUME NEW x \in Int, NEW y \in Int, NEW n \in Nat, x <= y
    PROVE  x * n <= y * n
  OBVIOUS

LEMMA MeanBelow ==
    ASSUME NEW sa \in Int, NEW sr \in Int, NEW c \in Int, NEW a \in Nat, NEW r \in Nat,
           sa <= c * a, c * r <= sr
    PROVE  sa * (a + r) <= (sa + sr) * a
  <1>1. sa * r <= (c * a) * r
    BY TimesKeepsOrder
  <1>2. (c * r) * a <= sr * a
    BY TimesKeepsOrder
  <1>3. (c * a) * r = (c * r) * a
    OBVIOUS
  <1>4. sa * (a + r) = sa * a + sa * r /\ (sa + sr) * a = sa * a + sr * a
    OBVIOUS
  <1>5. sa * r \in Int /\ (c * a) * r \in Int /\ sr * a \in Int /\ sa * a \in Int
    OBVIOUS
  <1>. QED  BY <1>1, <1>2, <1>3, <1>4, <1>5

LEMMA LiftedHasBetter ==
    ASSUME NEW move, NEW all, IsFiniteSet(all), all \subseteq Int, NEW some \in SUBSET all,
           \A n \in all : move[n] \in Int,
           SumOver(move, some) * Cardinality(all) > SumOver(move, all) * Cardinality(some)
    PROVE  \E m \in some, n \in all \ some : move[m] > move[n]
  <1>. DEFINE rest == all \ some
  <1>. SUFFICES ASSUME \A m \in some, n \in rest : move[m] <= move[n]
                PROVE  FALSE
    BY SMT
  <1>1. /\ IsFiniteSet(some) /\ IsFiniteSet(rest)
        /\ Cardinality(some) \in Nat /\ Cardinality(rest) \in Nat
    BY FS_Subset, FS_CardinalityType
  <1>2. Cardinality(all) = Cardinality(some) + Cardinality(rest)
    <2>1. some \cup rest = all /\ some \cap rest = {}
      OBVIOUS
    <2>. HIDE DEF rest
    <2>2. Cardinality(some \cup rest)
             = Cardinality(some) + Cardinality(rest) - Cardinality(some \cap rest)
      BY <1>1, FS_Union
    <2>3. Cardinality(some \cap rest) = 0
      BY <2>1, FS_EmptySet
    <2>4. Cardinality(all) = Cardinality(some \cup rest)
      BY <2>1, Zenon
    <2>. QED  BY <1>1, <2>2, <2>3, <2>4
  <1>3. /\ SumOver(move, some) \in Int /\ SumOver(move, rest) \in Int
        /\ SumOver(move, all) = SumOver(move, some) + SumOver(move, rest)
    <2>1. (\A n \in some : move[n] \in Int) /\ (\A n \in rest : move[n] \in Int)
      OBVIOUS
    <2>2. SumOver(move, all) = SumOver(move, some) + SumOver(move, all \ some)
      <3>1. IsFiniteSet(all) /\ (\A n \in all : move[n] \in Int) /\ some \in SUBSET all
        OBVIOUS
      <3>. QED  BY ONLY <3>1, SumSplit
    <2>3. SumOver(move, some) \in Int
      BY <1>1, <2>1, SumInt
    <2>4. SumOver(move, rest) \in Int
      <3>. HIDE DEF rest
      <3>. QED  BY <1>1, <2>1, SumInt
    <2>. QED  BY <2>2, <2>3, <2>4
  <1>4. some # {}
    <2>. SUFFICES ASSUME some = {} PROVE FALSE
      OBVIOUS
    <2>1. SumOver(move, some) = 0 /\ Cardinality(some) = 0
      BY SumEmpty, FS_EmptySet
    <2>. QED  BY <1>1, <1>2, <1>3, <2>1
  <1>5. PICK b \in some : \A m \in some : move[m] <= move[b]
    <2>. DEFINE key == [n \in some |-> -move[n]]
    <2>1. \A n \in some : key[n] \in Int /\ key[n] = -move[n]
      OBVIOUS
    <2>. HIDE DEF key
    <2>2. some \in SUBSET Int
      OBVIOUS
    <2>3. PICK b \in some : \A m \in some : key[b] < key[m] \/ (key[b] = key[m] /\ b <= m)
      BY <1>1, <1>4, <2>1, <2>2, LowestOfFirst
    <2>. QED  BY <2>1, <2>3
  <1>6. move[b] \in Int
    OBVIOUS
  <1>7. SumOver(move, some) <= move[b] * Cardinality(some)
    BY <1>1, <1>5, <1>6, SumBound
  <1>8. move[b] * Cardinality(rest) <= SumOver(move, rest)
    <2>. DEFINE less == [n \in rest |-> -move[n]]
                none == [n \in rest |-> 0]
    <2>1. \A n \in rest : less[n] \in Int /\ less[n] <= -move[b]
      BY <1>6
    <2>2. SumOver(less, rest) <= (-move[b]) * Cardinality(rest)
      <3>1. -move[b] \in Int
        BY <1>6
      <3>. HIDE DEF less
      <3>. QED  BY <1>1, <2>1, <3>1, SumBound
    <2>. PICK c \in Int : c = -1
      OBVIOUS
    <2>3. \A n \in rest : none[n] \in Int /\ move[n] \in Int /\ less[n] = none[n] + c * move[n]
      OBVIOUS
    <2>4. SumOver(none, rest) = 0
      <3>1. \A n \in rest : none[n] = 0
        OBVIOUS
      <3>. HIDE DEF none
      <3>. QED  BY <1>1, <3>1, SumZero
    <2>. HIDE DEF less, none, rest
    <2>5. SumOver(less, rest) = SumOver(none, rest) + c * SumOver(move, rest)
      BY <1>1, <2>3, SumLinear
    <2>6. SumOver(less, rest) = -SumOver(move, rest)
      BY <1>3, <2>4, <2>5
    <2>. QED  BY <1>1, <1>3, <1>6, <2>2, <2>6
  <1>9. SumOver(move, some) * (Cardinality(some) + Cardinality(rest))
           <= (SumOver(move, some) + SumOver(move, rest)) * Cardinality(some)
    BY <1>1, <1>3, <1>6, <1>7, <1>8, MeanBelow
  <1>10. /\ SumOver(move, some) * Cardinality(all) \in Int
         /\ SumOver(move, all) * Cardinality(some) \in Int
    BY <1>1, <1>2, <1>3
  <1>. QED  BY <1>2, <1>3, <1>9, <1>10

LEMMA LiftsHasBetter ==
    ASSUME NEW events, NEW all, IsFiniteSet(all), all \subseteq Int, NEW some \in SUBSET all,
           \A n \in all : events[n].move \in Int, Lifts(events, some, all)
    PROVE  \E m \in some, n \in all \ some : events[m].move > events[n].move
  <1>. DEFINE move == [n \in all |-> events[n].move]
              part == [n \in some |-> events[n].move]
  <1>1. SumOver(part, some) * Cardinality(all) > SumOver(move, all) * Cardinality(some)
    BY DEF Lifts
  <1>2. \A n \in some : part[n] = move[n]
    OBVIOUS
  <1>3. \A n \in all : move[n] \in Int /\ move[n] = events[n].move
    OBVIOUS
  <1>4. IsFiniteSet(some)
    BY FS_Subset
  <1>. HIDE DEF move, part
  <1>5. SumOver(part, some) = SumOver(move, some)
    BY <1>2, <1>4, SumSame
  <1>6. \E m \in some, n \in all \ some : move[m] > move[n]
    BY <1>1, <1>3, <1>5, LiftedHasBetter
  <1>. QED  BY <1>3, <1>6

(* A reason that discovery suggests moved price further, in both parts of  *)
(* the history, at some turn with it than at some turn without it          *)
(* (_aggregate: lift, oos_lift and holds).                                 *)
THEOREM SuggestedPaidTwice == Spec => []PaidTwice
  <1>1. ASSUME turns \in Seq(TurnEvents)  PROVE PaidTwice
    <2>1. SUFFICES ASSUME NEW rule \in Suggested(turns), NEW part \in {"learnt", "proved"}
                   PROVE  LET ns == Halves(turns, rule.turn)[part]
                          IN  \E m \in With(turns, ns, rule.code),
                                 n \in ns \ With(turns, ns, rule.code) :
                                 turns[m].move > turns[n].move
      BY DEF PaidTwice
    <2>. DEFINE h  == Halves(turns, rule.turn)
                ns == h[part]
    <2>2. HoldsUp(turns, rule.turn, rule.code)
      BY DEF Suggested
    <2>3. /\ Lifts(turns, With(turns, h.learnt, rule.code), h.learnt)
          /\ Lifts(turns, With(turns, h.proved, rule.code), h.proved)
      BY <2>2 DEF HoldsUp
    <2>4. Lifts(turns, With(turns, ns, rule.code), ns)
      BY <2>3
    <2>5. Len(turns) \in Nat /\ \A n \in 1..Len(turns) : turns[n].move \in Int
      <3>1. Len(turns) \in Nat /\ \A n \in 1..Len(turns) : turns[n] \in TurnEvents
        BY <1>1
      <3>2. \A e \in TurnEvents : e.move \in {l.move : l \in Lessons}
        BY DEF TurnEvents
      <3>3. \A e \in TurnEvents : e.move \in Int
        BY <3>2, DiscoveryAssumption
      <3>. QED  BY <3>1, <3>3
    <2>6. TrainedOn(turns) \in Nat /\ TrainedOn(turns) <= Len(turns)
      BY <2>5 DEF TrainedOn
    <2>7. ns \subseteq 1..Len(turns)
      BY <2>5, <2>6 DEF Halves
    <2>8. IsFiniteSet(1..Len(turns))
      BY <2>5, FS_Interval
    <2>. HIDE DEF ns
    <2>9. IsFiniteSet(ns) /\ ns \subseteq Int /\ \A n \in ns : turns[n].move \in Int
      <3>1. IsFiniteSet(ns)
        BY <2>7, <2>8, FS_Subset
      <3>. QED  BY <2>5, <2>7, <3>1
    <2>10. With(turns, ns, rule.code) \in SUBSET ns
      BY DEF With
    <2>11. \E m \in With(turns, ns, rule.code), n \in ns \ With(turns, ns, rule.code) :
              turns[m].move > turns[n].move
      BY <2>4, <2>9, <2>10, LiftsHasBetter
    <2>. QED  BY <2>11 DEF ns
  <1>2. Init => DiscoveryInv
    BY DiscoveryAssumption DEF Init, DiscoveryInv, InOrder
  <1>3. DiscoveryInv /\ [Next]_vars => DiscoveryInv'
    BY StepKeeps
  <1>4. DiscoveryInv => PaidTwice
    BY <1>1 DEF DiscoveryInv
  <1>. QED  BY <1>2, <1>3, <1>4, PTL DEF Spec

-----------------------------------------------------------------------------
(* Pivots.  They are taken bar by bar, so what holds of the pivots up to a *)
(* bar is shown by going from each bar to the next.                        *)
LEMMA StepInduction ==
    ASSUME NEW lo \in Int, NEW hi \in Int, NEW G, lo \in G,
           \A i \in lo..hi : i + 1 \in lo..hi /\ i \in G => i + 1 \in G
    PROVE  \A i \in lo..hi : i \in G
  <1>. DEFINE left == {i \in lo..hi : i \notin G}
              key  == [i \in left |-> 0]
  <1>. SUFFICES ASSUME left # {} PROVE FALSE
    OBVIOUS
  <1>1. IsFiniteSet(left) /\ left \in SUBSET Int
    <2>1. IsFiniteSet(lo..hi)
      BY FS_Interval
    <2>. QED  BY <2>1, FS_Subset
  <1>2. \A k \in left : key[k] \in Int /\ key[k] = 0
    OBVIOUS
  <1>. HIDE DEF key
  <1>3. PICK k \in left : \A j \in left : k <= j
    <2>. HIDE DEF left
    <2>1. PICK k \in left : \A j \in left : key[k] < key[j] \/ (key[k] = key[j] /\ k <= j)
      BY <1>1, <1>2, LowestOfFirst
    <2>. QED  BY <1>2, <2>1
  <1>4. k # lo /\ k \in lo..hi /\ k \notin G
    OBVIOUS
  <1>5. k - 1 \in lo..hi /\ (k - 1) + 1 = k
    BY <1>4
  <1>6. k - 1 \notin left
    BY <1>3, <1>5
  <1>. QED  BY <1>4, <1>5, <1>6

(* The pivots of b up to each bar.                                         *)
UpTo(it, b, m) ==
    it = [i \in K..m |-> IF i = K THEN <<>> ELSE PivotsAfter(b, it[i - 1], i)]

LEMMA UpToSteps ==
    ASSUME NEW b, NEW m \in Int, NEW it, UpTo(it, b, m)
    PROVE  /\ K <= m => it[K] = <<>>
           /\ \A i \in (K + 1)..m : it[i] = PivotsAfter(b, it[i - 1], i)
  <1>1. K \in Int
    BY DiscoveryAssumption
  <1>. QED  BY <1>1 DEF UpTo

LEMMA UpToExists ==
    ASSUME NEW b, NEW m \in Int, K <= m
    PROVE  \E it : UpTo(it, b, m)
  <1>. DEFINE G == {n \in K..m : \E it : UpTo(it, b, n)}
  <1>1. K \in Int
    BY DiscoveryAssumption
  <1>2. K \in G
    <2>. DEFINE it == [i \in K..K |-> <<>>]
    <2>1. it = [i \in K..K |-> IF i = K THEN <<>> ELSE PivotsAfter(b, it[i - 1], i)]
      BY <1>1
    <2>2. UpTo(it, b, K)
      BY <2>1 DEF UpTo
    <2>. QED  BY <1>1, <2>2
  <1>3. ASSUME NEW n \in K..m, n + 1 \in K..m, n \in G
        PROVE  n + 1 \in G
    <2>1. PICK it : UpTo(it, b, n)
      BY <1>3
    <2>. DEFINE iu == [i \in K..(n + 1) |->
                         IF i = n + 1 THEN PivotsAfter(b, it[n], n + 1) ELSE it[i]]
    <2>2. n \in Int /\ K <= n
      BY <1>1
    <2>3. ASSUME NEW i \in K..(n + 1)
          PROVE  iu[i] = IF i = K THEN <<>> ELSE PivotsAfter(b, iu[i - 1], i)
      <3>1. CASE i = n + 1
        <4>1. iu[i] = PivotsAfter(b, it[n], n + 1) /\ iu[i - 1] = it[n] /\ i # K
          BY <1>1, <2>2, <3>1
        <4>. QED  BY <3>1, <4>1
      <3>2. CASE i = K
        <4>1. iu[i] = it[K] /\ it[K] = <<>>
          BY <1>1, <2>1, <2>2, <3>2, UpToSteps
        <4>. QED  BY <3>2, <4>1
      <3>3. CASE i # K /\ i # n + 1
        <4>1. i \in (K + 1)..n /\ i - 1 \in K..(n + 1) /\ i - 1 # n + 1
          BY <1>1, <2>2, <3>3
        <4>2. iu[i] = it[i] /\ iu[i - 1] = it[i - 1]
          BY <3>3, <4>1
        <4>3. it[i] = PivotsAfter(b, it[i - 1], i)
          BY <2>1, <2>2, <4>1, UpToSteps
        <4>. QED  BY <3>3, <4>2, <4>3
      <3>. QED  BY <3>1, <3>2, <3>3
    <2>4. iu = [i \in K..(n + 1) |-> iu[i]]
      OBVIOUS
    <2>. HIDE DEF iu
    <2>5. UpTo(iu, b, n + 1)
      BY <2>3, <2>4 DEF UpTo
    <2>. QED  BY <1>3, <2>5
  <1>. HIDE DEF G
  <1>4. \A n \in K..m : n \in G
    BY <1>1, <1>2, <1>3, StepInduction
  <1>5. m \in G
    BY <1>1, <1>4
  <1>. QED  BY <1>5 DEF G

LEMMA PivotsAreUpTo ==
    ASSUME NEW b, Judged(b) \in Int, K <= Judged(b)
    PROVE  \E it : UpTo(it, b, Judged(b)) /\ Pivots(b) = it[Judged(b)]
  <1>1. Pivots(b) = (CHOOSE it : UpTo(it, b, Judged(b)))[Judged(b)]
    BY DiscoveryAssumption DEF Pivots, UpTo
  <1>2. UpTo(CHOOSE it : UpTo(it, b, Judged(b)), b, Judged(b))
    BY UpToExists
  <1>. QED  BY <1>1, <1>2

-----------------------------------------------------------------------------
(* The pivots up to bar i: in order, of alternating kinds, each a turn of  *)
(* its kind, and each pair worth its while.                                *)
PivotsOf(i) == [idx : (K + 1)..i, kind : {"high", "low"}]
GoodPivots(b, out, i) ==
    /\ out \in Seq(PivotsOf(i))
    /\ \A n \in 1..Len(out) : Turned(b, out[n])
    /\ \A n \in 1..Len(out) - 1 :
          /\ out[n].idx < out[n + 1].idx /\ out[n].kind # out[n + 1].kind
          /\ Worth(b, out[n], out[n + 1])

(* Bars with prices; all that pivots look at.                              *)
Priced(b) == /\ Len(b) \in Nat /\ DOMAIN b = 1..Len(b)
             /\ \A i \in 1..Len(b) : b[i].high \in Int /\ b[i].low \in Int

LEMMA ReplaceLast ==
    ASSUME NEW S, NEW s \in Seq(S), s # <<>>, NEW x \in S
    PROVE  LET new == Append(Front(s), x)
           IN  /\ new \in Seq(S) /\ Len(new) = Len(s) /\ Len(s) \in Nat \ {0}
               /\ \A n \in 1..Len(s) - 1 : new[n] = s[n]
               /\ new[Len(s)] = x
  <1>1. Len(s) \in Nat \ {0}
    OBVIOUS
  <1>. DEFINE top   == Len(s) - 1
              front == SubSeq(s, 1, top)
  <1>2. /\ front \in Seq(S) /\ Len(front) = Len(s) - 1
        /\ \A n \in 1..Len(s) - 1 : front[n] = s[n]
    <2>1. top \in Nat /\ top <= Len(s) /\ top = Len(s) - 1
      BY <1>1
    <2>. HIDE DEF top
    <2>2. /\ front \in Seq(S) /\ Len(front) = top
          /\ \A n \in 1..top : front[n] = s[n]
      BY <1>1, <2>1
    <2>. QED  BY <2>1, <2>2
  <1>3. Front(s) = front
    BY DEF Front
  <1>. HIDE DEF front
  <1>. QED  BY <1>1, <1>2, <1>3

LEMMA PriceIsInt ==
    ASSUME NEW b, Priced(b), NEW p, p.idx \in 1..Len(b)
    PROVE  Price(b, p) \in Int
  BY DEF Priced, Price

(* A later pivot that is more extreme keeps the turn worth its while.      *)
LEMMA MoreIsWorth ==
    ASSUME NEW b, Priced(b), NEW i \in 1..Len(b),
           NEW prev \in PivotsOf(i), NEW last \in PivotsOf(i), NEW p \in PivotsOf(i),
           prev.idx < last.idx, prev.kind # last.kind, p.kind = last.kind,
           last.idx < p.idx, MoreExtreme(b, p, last), Worth(b, prev, last)
    PROVE  Worth(b, prev, p)
  <1>1. /\ prev.idx \in (K + 1)..i /\ last.idx \in (K + 1)..i /\ p.idx \in (K + 1)..i
        /\ prev.kind \in {"high", "low"} /\ last.kind \in {"high", "low"}
    BY DEF PivotsOf
  <1>2. K \in Nat /\ Len(b) \in Nat /\ MinMove \in Int
    BY DiscoveryAssumption DEF Priced
  <1>3. /\ prev.idx \in 1..Len(b) /\ last.idx \in 1..Len(b) /\ p.idx \in 1..Len(b)
    BY <1>1, <1>2
  <1>4. Price(b, prev) \in Int /\ Price(b, last) \in Int /\ Price(b, p) \in Int
    BY <1>3, PriceIsInt
  <1>5. /\ Gain(b, prev, last) \in Int /\ Gain(b, prev, p) \in Int
        /\ Gain(b, prev, last) <= Gain(b, prev, p)
    BY <1>1, <1>4 DEF Gain, MoreExtreme
  <1>6. CASE Gain(b, prev, last) >= MinMove
    BY <1>2, <1>5, <1>6 DEF Worth
  <1>7. CASE ~(Gain(b, prev, last) >= MinMove)
    <2>1. PICK j \in (prev.idx + 1)..last.idx :
             LET r == [idx |-> j, kind |-> last.kind]
             IN  /\ Turned(b, r) /\ Gain(b, prev, r) <= -MinMove
                 /\ Gain(b, prev, r) <= Gain(b, prev, last)
      BY <1>7 DEF Worth
    <2>. DEFINE r == [idx |-> j, kind |-> last.kind]
    <2>2. j \in (prev.idx + 1)..p.idx /\ j \in 1..Len(b)
      BY <1>1, <1>2, <1>3
    <2>3. Price(b, r) \in Int
      BY <2>2, PriceIsInt
    <2>4. Gain(b, prev, r) \in Int
      BY <1>4, <2>3 DEF Gain
    <2>5. Gain(b, prev, r) <= Gain(b, prev, p)
      BY <1>5, <2>1, <2>4
    <2>6. Turned(b, [idx |-> j, kind |-> p.kind]) /\ Gain(b, prev, [idx |-> j, kind |-> p.kind]) <= -MinMove
      BY <2>1
    <2>. QED  BY <2>2, <2>5, <2>6 DEF Worth
  <1>. QED  BY <1>6, <1>7

(* So does one on the other side that is far enough, either way.           *)
LEMMA FarIsWorth ==
    ASSUME NEW b, Priced(b), NEW i \in 1..Len(b),
           NEW last \in PivotsOf(i), NEW p \in PivotsOf(i), Turned(b, p),
           last.idx < p.idx, ~(AbsDiff(Price(b, p), Price(b, last)) < MinMove)
    PROVE  Worth(b, last, p)
  <1>1. last.idx \in (K + 1)..i /\ p.idx \in (K + 1)..i
    BY DEF PivotsOf
  <1>2. K \in Nat /\ Len(b) \in Nat /\ MinMove \in Int
    BY DiscoveryAssumption DEF Priced
  <1>3. last.idx \in 1..Len(b) /\ p.idx \in 1..Len(b)
    BY <1>1, <1>2
  <1>4. Price(b, last) \in Int /\ Price(b, p) \in Int
    BY <1>3, PriceIsInt
  <1>5. Gain(b, last, p) >= MinMove \/ Gain(b, last, p) <= -MinMove
    BY <1>2, <1>4 DEF Gain, AbsDiff
  <1>6. p.idx \in (last.idx + 1)..p.idx
    BY <1>1, <1>2
  <1>7. p = [idx |-> p.idx, kind |-> p.kind]
    BY DEF PivotsOf
  <1>8. Gain(b, last, p) <= Gain(b, last, p)
    BY <1>4 DEF Gain
  <1>. HIDE DEF Turned, Gain
  <1>. QED  BY <1>5, <1>6, <1>7, <1>8 DEF Worth

LEMMA PivotsWiden ==
    ASSUME NEW i \in Int, NEW out \in Seq(PivotsOf(i - 1))
    PROVE  /\ out \in Seq(PivotsOf(i)) /\ Len(out) \in Nat
           /\ \A n \in 1..Len(out) : out[n] \in PivotsOf(i) /\ out[n].idx < i
                                      /\ out[n].kind \in {"high", "low"}
  <1>1. PivotsOf(i - 1) \subseteq PivotsOf(i) /\ \A p \in PivotsOf(i - 1) : p.idx < i
    BY DiscoveryAssumption DEF PivotsOf
  <1>2. out \in Seq(PivotsOf(i))
    BY <1>1
  <1>3. \A n \in 1..Len(out) : out[n] \in PivotsOf(i - 1)
    OBVIOUS
  <1>. QED  BY <1>1, <1>2, <1>3 DEF PivotsOf

LEMMA TakeKeeps ==
    ASSUME NEW b, Priced(b), NEW i \in (K + 1)..Len(b), NEW out, GoodPivots(b, out, i - 1),
           NEW kind \in {"high", "low"}, Turned(b, [idx |-> i, kind |-> kind])
    PROVE  GoodPivots(b, TakePivot(b, out, [idx |-> i, kind |-> kind]), i)
  <1>. DEFINE p == [idx |-> i, kind |-> kind]
              new == TakePivot(b, out, p)
  <1>. SUFFICES GoodPivots(b, new, i)
    OBVIOUS
  <1>1. i \in 1..Len(b) /\ i \in Int
    BY DiscoveryAssumption DEF Priced
  <1>2. p \in PivotsOf(i) /\ p.idx = i /\ p.kind = kind
    BY <1>1, DiscoveryAssumption DEF PivotsOf
  <1>3. /\ out \in Seq(PivotsOf(i)) /\ Len(out) \in Nat
        /\ \A n \in 1..Len(out) : out[n] \in PivotsOf(i) /\ out[n].idx < i
                                   /\ out[n].kind \in {"high", "low"}
    BY <1>1, PivotsWiden DEF GoodPivots
  <1>4. /\ \A n \in 1..Len(out) : Turned(b, out[n])
        /\ \A n \in 1..Len(out) - 1 :
              /\ out[n].idx < out[n + 1].idx /\ out[n].kind # out[n + 1].kind
              /\ Worth(b, out[n], out[n + 1])
    BY DEF GoodPivots
  <1>5. Turned(b, p)
    OBVIOUS
  <1>6. CASE new = out
    BY <1>3, <1>4, <1>6 DEF GoodPivots
  <1>7. CASE out = <<>> /\ new = <<p>>
    <2>1. <<p>> \in Seq(PivotsOf(i)) /\ Len(<<p>>) = 1 /\ <<p>>[1] = p
      BY <1>2
    <2>. HIDE DEF p, new
    <2>. QED  BY <1>5, <1>7, <2>1 DEF GoodPivots
  <1>8. CASE out # <<>> /\ p.kind = Last(out).kind /\ MoreExtreme(b, p, Last(out))
             /\ new = Append(Front(out), p)
    <2>. HIDE DEF new, p
    <2>1. /\ new \in Seq(PivotsOf(i)) /\ Len(new) = Len(out) /\ Len(out) \in Nat \ {0}
          /\ \A n \in 1..Len(out) - 1 : new[n] = out[n]
          /\ new[Len(out)] = p
      <3>1. out \in Seq(PivotsOf(i)) /\ out # <<>> /\ p \in PivotsOf(i)
        BY <1>2, <1>3, <1>8
      <3>2. LET far == Append(Front(out), p)
            IN  /\ far \in Seq(PivotsOf(i)) /\ Len(far) = Len(out) /\ Len(out) \in Nat \ {0}
                /\ \A n \in 1..Len(out) - 1 : far[n] = out[n]
                /\ far[Len(out)] = p
        BY ONLY <3>1, ReplaceLast
      <3>. QED  BY <1>8, <3>2
    <2>2. Last(out) = out[Len(out)]
      BY DEF Last
    <2>3. \A n \in 1..Len(new) : Turned(b, new[n])
      BY <1>4, <1>5, <2>1
    <2>4. ASSUME NEW n \in 1..Len(new) - 1
          PROVE  /\ new[n].idx < new[n + 1].idx /\ new[n].kind # new[n + 1].kind
                 /\ Worth(b, new[n], new[n + 1])
      <3>1. CASE n + 1 = Len(out)
        <4>1. new[n] = out[n] /\ new[n + 1] = p /\ n \in 1..Len(out) - 1 /\ n \in 1..Len(out)
          BY <2>1, <3>1
        <4>2. /\ out[n].idx < out[n + 1].idx /\ out[n].kind # out[n + 1].kind
              /\ Worth(b, out[n], out[n + 1]) /\ out[n + 1] = Last(out)
          BY <1>4, <2>2, <3>1, <4>1
        <4>3. /\ out[n] \in PivotsOf(i) /\ out[n].idx < i
              /\ Last(out) \in PivotsOf(i) /\ Last(out).idx < i
          BY <1>3, <2>1, <2>2, <4>1
        <4>4. Worth(b, out[n], p)
          BY <1>1, <1>2, <1>8, <4>2, <4>3, MoreIsWorth
        <4>. QED  BY <1>2, <1>8, <4>1, <4>2, <4>3, <4>4
      <3>2. CASE n + 1 # Len(out)
        <4>1. new[n] = out[n] /\ new[n + 1] = out[n + 1] /\ n \in 1..Len(out) - 1
          BY <2>1, <3>2
        <4>. QED  BY <1>4, <4>1
      <3>. QED  BY <3>1, <3>2
    <2>. QED  BY <2>1, <2>3, <2>4 DEF GoodPivots
  <1>9. CASE out # <<>> /\ p.kind # Last(out).kind /\ new = Append(out, p)
             /\ ~(AbsDiff(Price(b, p), Price(b, Last(out))) < MinMove)
    <2>. HIDE DEF new, p
    <2>1. /\ new \in Seq(PivotsOf(i)) /\ Len(new) = Len(out) + 1 /\ Len(out) \in Nat \ {0}
          /\ \A n \in 1..Len(out) : new[n] = out[n]
          /\ new[Len(out) + 1] = p
      BY <1>2, <1>3, <1>9
    <2>2. Last(out) = out[Len(out)] /\ Len(out) \in 1..Len(out)
      BY <2>1 DEF Last
    <2>3. \A n \in 1..Len(new) : Turned(b, new[n])
      BY <1>4, <1>5, <2>1
    <2>4. ASSUME NEW n \in 1..Len(new) - 1
          PROVE  /\ new[n].idx < new[n + 1].idx /\ new[n].kind # new[n + 1].kind
                 /\ Worth(b, new[n], new[n + 1])
      <3>1. CASE n = Len(out)
        <4>1. new[n] = Last(out) /\ new[n + 1] = p
          BY <2>1, <2>2, <3>1
        <4>2. Last(out) \in PivotsOf(i) /\ Last(out).idx < i
          BY <1>3, <2>2
        <4>3. Worth(b, Last(out), p)
          BY <1>1, <1>2, <1>5, <1>9, <4>2, FarIsWorth
        <4>. QED  BY <1>2, <1>9, <4>1, <4>2, <4>3
      <3>2. CASE n # Len(out)
        <4>1. new[n] = out[n] /\ new[n + 1] = out[n + 1] /\ n \in 1..Len(out) - 1
          BY <2>1, <3>2
        <4>. QED  BY <1>4, <4>1
      <3>. QED  BY <3>1, <3>2
    <2>. QED  BY <2>1, <2>3, <2>4 DEF GoodPivots
  <1>10. \/ new = out
         \/ out = <<>> /\ new = <<p>>
         \/ out # <<>> /\ p.kind = Last(out).kind /\ MoreExtreme(b, p, Last(out))
             /\ new = Append(Front(out), p)
         \/ out # <<>> /\ p.kind # Last(out).kind /\ new = Append(out, p)
             /\ ~(AbsDiff(Price(b, p), Price(b, Last(out))) < MinMove)
    <2>. HIDE DEF p
    <2>. QED  BY DEF TakePivot
  <1>. QED  BY <1>6, <1>7, <1>8, <1>9, <1>10

LEMMA AfterKeeps ==
    ASSUME NEW b, Priced(b), NEW i \in (K + 1)..Len(b), NEW out, GoodPivots(b, out, i - 1)
    PROVE  GoodPivots(b, PivotsAfter(b, out, i), i)
  <1>1. CASE IsHigh(b, i)
    <2>1. Turned(b, [idx |-> i, kind |-> "high"])
      BY <1>1 DEF Turned
    <2>. QED  BY <1>1, <2>1, TakeKeeps DEF PivotsAfter
  <1>2. CASE ~IsHigh(b, i) /\ IsLow(b, i)
    <2>1. Turned(b, [idx |-> i, kind |-> "low"])
      BY <1>2 DEF Turned
    <2>. QED  BY <1>2, <2>1, TakeKeeps DEF PivotsAfter
  <1>3. CASE ~IsHigh(b, i) /\ ~IsLow(b, i)
    <2>1. PivotsAfter(b, out, i) = out
      BY <1>3 DEF PivotsAfter
    <2>2. i \in Int
      OBVIOUS
    <2>. QED  BY <2>1, <2>2, PivotsWiden DEF GoodPivots
  <1>. QED  BY <1>1, <1>2, <1>3

LEMMA UpToIsGood ==
    ASSUME NEW b, Priced(b), NEW m \in Int, K <= m, m <= Len(b), NEW it, UpTo(it, b, m)
    PROVE  \A i \in K..m : GoodPivots(b, it[i], i)
  <1>. DEFINE G == {i \in K..m : GoodPivots(b, it[i], i)}
  <1>1. K \in Int /\ Len(b) \in Nat
    BY DiscoveryAssumption DEF Priced
  <1>2. K \in G
    <2>1. it[K] = <<>> /\ Len(<<>>) = 0
      BY UpToSteps
    <2>2. GoodPivots(b, <<>>, K)
      BY DEF GoodPivots
    <2>. QED  BY <1>1, <2>1, <2>2
  <1>3. ASSUME NEW i \in K..m, i + 1 \in K..m, i \in G
        PROVE  i + 1 \in G
    <2>1. i + 1 \in (K + 1)..m /\ i + 1 \in (K + 1)..Len(b) /\ (i + 1) - 1 = i
      BY <1>1, <1>3
    <2>2. it[i + 1] = PivotsAfter(b, it[(i + 1) - 1], i + 1)
      BY <2>1, UpToSteps
    <2>3. GoodPivots(b, it[i], i)
      BY <1>3
    <2>4. GoodPivots(b, PivotsAfter(b, it[i], i + 1), i + 1)
      BY <2>1, <2>3, AfterKeeps
    <2>. QED  BY <1>3, <2>1, <2>2, <2>4
  <1>. HIDE DEF G
  <1>4. \A i \in K..m : i \in G
    BY <1>1, <1>2, <1>3, StepInduction
  <1>. QED  BY <1>4 DEF G

LEMMA PivotsAreGood ==
    ASSUME NEW b, Priced(b)
    PROVE  \/ Pivots(b) = <<>>
           \/ K <= Judged(b) /\ GoodPivots(b, Pivots(b), Judged(b))
  <1>1. Judged(b) \in Int /\ Judged(b) <= Len(b) /\ K \in Int
    BY DiscoveryAssumption DEF Judged, Priced
  <1>2. CASE Judged(b) < K
    BY <1>2 DEF Pivots
  <1>3. CASE K <= Judged(b)
    <2>1. PICK it : UpTo(it, b, Judged(b)) /\ Pivots(b) = it[Judged(b)]
      BY <1>1, <1>3, PivotsAreUpTo
    <2>2. \A i \in K..Judged(b) : GoodPivots(b, it[i], i)
      BY <1>1, <1>3, <2>1, UpToIsGood
    <2>3. Judged(b) \in K..Judged(b)
      BY <1>1, <1>3
    <2>. QED  BY <1>3, <2>1, <2>2, <2>3
  <1>. QED  BY <1>1, <1>2, <1>3

LEMMA BarsArePriced == ASSUME InOrder PROVE Priced(bars)
  <1>1. Len(bars) \in Nat /\ DOMAIN bars = 1..Len(bars)
    BY DEF InOrder
  <1>2. \A n \in 1..Len(bars) : bars[n] \in BarRecords
    BY BarsAreRecords
  <1>. QED  BY <1>1, <1>2, BarFields DEF Priced

(* Turning points alternate and go forward, and between two of them price  *)
(* moves by the minimum, unless it had gapped that far to the wrong side   *)
(* at a turn that was replaced (_pivots).                                  *)
THEOREM PivotsAlwaysMatter == Spec => []PivotsMatter
  <1>1. ASSUME DiscoveryInv PROVE PivotsMatter
    <2>1. \/ Pivots(bars) = <<>>
          \/ GoodPivots(bars, Pivots(bars), Judged(bars))
      BY <1>1, BarsArePriced, PivotsAreGood DEF DiscoveryInv
    <2>2. CASE Pivots(bars) = <<>>
      <3>1. Len(<<>>) = 0
        OBVIOUS
      <3>. QED  BY <2>2, <3>1 DEF PivotsMatter
    <2>3. CASE GoodPivots(bars, Pivots(bars), Judged(bars))
      BY <2>3 DEF GoodPivots, PivotsMatter
    <2>. QED  BY <2>1, <2>2, <2>3
  <1>2. Init => DiscoveryInv
    BY DiscoveryAssumption DEF Init, DiscoveryInv, InOrder
  <1>3. DiscoveryInv /\ [Next]_vars => DiscoveryInv'
    BY StepKeeps
  <1>. QED  BY <1>1, <1>2, <1>3, PTL DEF Spec

-----------------------------------------------------------------------------
(* No repainting.  A bar that arrives leaves what is said of those before  *)
(* it as it was.                                                           *)
LEMMA TakeKeepsFront ==
    ASSUME NEW b, NEW S, NEW out \in Seq(S), out # <<>>, NEW p \in S
    PROVE  IsPrefix(Front(out), TakePivot(b, out, p))
  <1>. DEFINE top == Len(out) - 1
              front == SubSeq(out, 1, top)
              new == TakePivot(b, out, p)
  <1>1. Len(out) \in Nat \ {0} /\ top \in Nat /\ top <= Len(out)
    OBVIOUS
  <1>2. Front(out) = front
    BY DEF Front
  <1>3. new = out \/ new = Append(Front(out), p) \/ new = Append(out, p)
    BY DEF TakePivot
  <1>4. /\ new \in Seq(S) /\ Len(new) \in Nat /\ top <= Len(new)
        /\ \A n \in 1..top : new[n] = out[n]
    <2>. HIDE DEF new
    <2>1. CASE new = out \/ new = Append(out, p)
      <3>. HIDE DEF top
      <3>1. /\ Append(out, p) \in Seq(S) /\ Len(Append(out, p)) = Len(out) + 1
            /\ \A n \in 1..Len(out) : Append(out, p)[n] = out[n]
        OBVIOUS
      <3>. QED  BY <1>1, <2>1, <3>1
    <2>2. CASE new = Append(Front(out), p)
      <3>1. LET far == Append(Front(out), p)
            IN  /\ far \in Seq(S) /\ Len(far) = Len(out) /\ Len(out) \in Nat \ {0}
                /\ \A n \in 1..Len(out) - 1 : far[n] = out[n]
                /\ far[Len(out)] = p
        BY ReplaceLast
      <3>. QED  BY <1>1, <2>2, <3>1
    <2>. QED  BY <1>3, <2>1, <2>2
  <1>. HIDE DEF top, new
  <1>5. front \in Seq(S) /\ Len(front) = top /\ \A n \in 1..top : front[n] = out[n]
    BY <1>1
  <1>6. /\ SubSeq(new, 1, top) \in Seq(S) /\ Len(SubSeq(new, 1, top)) = top
        /\ \A n \in 1..top : SubSeq(new, 1, top)[n] = new[n]
    BY <1>4, <1>1
  <1>7. /\ SubSeq(front, 1, top) \in Seq(S) /\ Len(SubSeq(front, 1, top)) = top
        /\ \A n \in 1..top : SubSeq(front, 1, top)[n] = front[n]
    BY <1>5, <1>1
  <1>8. SubSeq(front, 1, top) = SubSeq(new, 1, top)
    BY <1>1, <1>4, <1>5, <1>6, <1>7
  <1>. HIDE DEF front
  <1>9. IsPrefix(front, new)
    BY <1>4, <1>5, <1>8 DEF IsPrefix
  <1>. QED  BY <1>2, <1>9 DEF new

LEMMA WholeIsPrefix ==
    ASSUME NEW S, NEW s \in Seq(S), s # <<>>
    PROVE  IsPrefix(Front(s), s)
  <1>. DEFINE top == Len(s) - 1
              front == SubSeq(s, 1, top)
  <1>1. top \in Nat /\ top <= Len(s) /\ Len(s) \in Nat
    OBVIOUS
  <1>2. Front(s) = front
    BY DEF Front
  <1>. HIDE DEF top
  <1>3. front \in Seq(S) /\ Len(front) = top /\ \A n \in 1..top : front[n] = s[n]
    BY <1>1
  <1>4. /\ SubSeq(front, 1, top) \in Seq(S) /\ Len(SubSeq(front, 1, top)) = top
        /\ \A n \in 1..top : SubSeq(front, 1, top)[n] = front[n]
    BY <1>1, <1>3
  <1>5. SubSeq(front, 1, top) = SubSeq(s, 1, top)
    BY <1>1, <1>3, <1>4
  <1>. HIDE DEF front
  <1>6. IsPrefix(front, s)
    BY <1>1, <1>3, <1>5 DEF IsPrefix
  <1>. QED  BY <1>2, <1>6

(* Bars and the same bars with one more.                                   *)
Longer(b, c) == /\ Priced(b) /\ Priced(c) /\ Len(c) = Len(b) + 1
                /\ \A n \in 1..Len(b) : c[n] = b[n]

LEMMA SameTurns ==
    ASSUME NEW b, NEW c, Longer(b, c), NEW i \in (K + 1)..Judged(b)
    PROVE  IsHigh(c, i) = IsHigh(b, i) /\ IsLow(c, i) = IsLow(b, i)
  <1>1. K \in Nat /\ Len(b) \in Nat /\ i \in 1..Len(b) /\ i + K <= Len(b)
    BY DiscoveryAssumption DEF Longer, Priced, Judged
  <1>2. Window(b, i) = Window(c, i) /\ Window(b, i) \subseteq 1..Len(b)
    BY <1>1 DEF Window, Longer, Priced
  <1>3. \A n \in 1..Len(b) : c[n] = b[n]
    BY DEF Longer
  <1>4. c[i] = b[i] /\ \A j \in Window(b, i) : c[j] = b[j]
    BY <1>1, <1>2, <1>3
  <1>. QED  BY <1>2, <1>4 DEF IsHigh, IsLow

LEMMA SameAfter ==
    ASSUME NEW b, NEW c, Longer(b, c), NEW i \in (K + 1)..Judged(b),
           NEW out \in Seq(PivotsOf(i - 1))
    PROVE  PivotsAfter(c, out, i) = PivotsAfter(b, out, i)
  <1>1. K \in Nat /\ Len(b) \in Nat /\ i \in Int /\ i \in 1..Len(b) /\ i <= Len(b)
    BY DiscoveryAssumption DEF Longer, Priced, Judged
  <1>2. \A n \in 1..Len(b) : c[n] = b[n]
    BY DEF Longer
  <1>3. \A p : p.idx \in 1..Len(b) => Price(c, p) = Price(b, p)
    BY <1>2 DEF Price
  <1>4. \A n \in 1..Len(out) : out[n] \in PivotsOf(i) /\ out[n].idx < i
    BY <1>1, PivotsWiden
  <1>5. out # <<>> => Last(out).idx \in 1..Len(b)
    <2>. SUFFICES ASSUME out # <<>> PROVE Last(out).idx \in 1..Len(b)
      OBVIOUS
    <2>1. Last(out) = out[Len(out)] /\ Len(out) \in 1..Len(out)
      BY DEF Last
    <2>. QED  BY <1>1, <1>4, <2>1 DEF PivotsOf
  <1>6. ASSUME NEW kind \in {"high", "low"}
        PROVE  TakePivot(c, out, [idx |-> i, kind |-> kind])
                  = TakePivot(b, out, [idx |-> i, kind |-> kind])
    <2>. DEFINE p == [idx |-> i, kind |-> kind]
    <2>1. Price(c, p) = Price(b, p)
      <3>1. p.idx \in 1..Len(b)
        BY <1>1
      <3>. QED  BY <1>3, <3>1
    <2>. HIDE DEF p
    <2>2. out # <<>> => Price(c, Last(out)) = Price(b, Last(out))
      BY <1>3, <1>5
    <2>3. out # <<>> => MoreExtreme(c, p, Last(out)) = MoreExtreme(b, p, Last(out))
      BY <2>1, <2>2 DEF MoreExtreme
    <2>4. TakePivot(c, out, p) = TakePivot(b, out, p)
      BY <2>1, <2>2, <2>3 DEF TakePivot
    <2>. QED  BY <2>4 DEF p
  <1>. QED  BY <1>6, SameTurns DEF PivotsAfter

LEMMA PivotsGoOn ==
    ASSUME NEW b, NEW c, Longer(b, c), Pivots(b) # <<>>
    PROVE  IsPrefix(Front(Pivots(b)), Pivots(c))
  <1>. DEFINE m == Judged(b)
  <1>1. /\ K \in Nat /\ Len(b) \in Nat /\ Judged(b) \in Int /\ Judged(c) = Judged(b) + 1
        /\ Judged(b) <= Len(b) /\ Judged(c) <= Len(c) /\ Priced(b) /\ Priced(c)
    BY DiscoveryAssumption DEF Longer, Priced, Judged
  <1>2. K <= Judged(b) /\ GoodPivots(b, Pivots(b), Judged(b))
    BY <1>1, PivotsAreGood
  <1>3. PICK it : UpTo(it, b, Judged(b)) /\ Pivots(b) = it[Judged(b)]
    BY <1>1, <1>2, PivotsAreUpTo
  <1>4. PICK iu : UpTo(iu, c, Judged(c)) /\ Pivots(c) = iu[Judged(c)]
    BY <1>1, <1>2, PivotsAreUpTo
  <1>5. \A i \in K..Judged(b) : GoodPivots(b, it[i], i)
    BY <1>1, <1>2, <1>3, UpToIsGood
  <1>6. Judged(c) \in Int /\ K <= Judged(c)
    BY <1>1, <1>2
  <1>7. \A i \in K..Judged(b) : iu[i] = it[i]
    <2>. DEFINE G == {i \in K..Judged(b) : iu[i] = it[i]}
    <2>1. K \in G
      <3>1. it[K] = <<>>
        BY <1>1, <1>2, <1>3, UpToSteps
      <3>2. iu[K] = <<>>
        BY <1>4, <1>6, UpToSteps
      <3>. QED  BY <1>1, <1>2, <3>1, <3>2
    <2>2. ASSUME NEW i \in K..Judged(b), i + 1 \in K..Judged(b), i \in G
          PROVE  i + 1 \in G
      <3>1. /\ i + 1 \in (K + 1)..Judged(b) /\ i + 1 \in (K + 1)..Judged(c)
            /\ (i + 1) - 1 = i
        BY <1>1, <2>2
      <3>2. it[i + 1] = PivotsAfter(b, it[(i + 1) - 1], i + 1)
        BY <1>1, <1>3, <3>1, UpToSteps
      <3>3. iu[i + 1] = PivotsAfter(c, iu[(i + 1) - 1], i + 1)
        BY <1>4, <1>6, <3>1, UpToSteps
      <3>4. it[i] \in Seq(PivotsOf((i + 1) - 1))
        BY <1>5, <3>1 DEF GoodPivots
      <3>5. PivotsAfter(c, it[i], i + 1) = PivotsAfter(b, it[i], i + 1)
        BY <3>1, <3>4, SameAfter
      <3>. QED  BY <2>2, <3>1, <3>2, <3>3, <3>5
    <2>. HIDE DEF G
    <2>3. \A i \in K..Judged(b) : i \in G
      <3>1. K \in Int /\ Judged(b) \in Int
        BY <1>1
      <3>. QED  BY <2>1, <2>2, <3>1, StepInduction
    <2>. QED  BY <2>3 DEF G
  <1>8. Pivots(c) = PivotsAfter(c, Pivots(b), Judged(c))
    <2>1. Judged(c) \in (K + 1)..Judged(c) /\ Judged(c) - 1 = Judged(b)
      BY <1>1, <1>2
    <2>2. iu[Judged(c)] = PivotsAfter(c, iu[Judged(c) - 1], Judged(c))
      BY <1>4, <1>6, <2>1, UpToSteps
    <2>3. iu[Judged(b)] = it[Judged(b)]
      BY <1>1, <1>2, <1>7
    <2>. QED  BY <1>3, <1>4, <2>1, <2>2, <2>3
  <1>9. /\ Pivots(b) \in Seq(PivotsOf(Judged(c)))
        /\ [idx |-> Judged(c), kind |-> "high"] \in PivotsOf(Judged(c))
        /\ [idx |-> Judged(c), kind |-> "low"] \in PivotsOf(Judged(c))
    <2>1. Judged(c) - 1 = Judged(b) /\ Judged(c) \in (K + 1)..Judged(c)
      BY <1>1, <1>2
    <2>2. Pivots(b) \in Seq(PivotsOf(Judged(c) - 1))
      BY <1>2, <2>1 DEF GoodPivots
    <2>3. Pivots(b) \in Seq(PivotsOf(Judged(c)))
      BY <1>6, <2>2, PivotsWiden
    <2>. QED  BY <2>1, <2>3 DEF PivotsOf
  <1>10. IsPrefix(Front(Pivots(b)), Pivots(b))
    BY <1>9, WholeIsPrefix
  <1>11. \A kind \in {"high", "low"} :
            IsPrefix(Front(Pivots(b)),
                     TakePivot(c, Pivots(b), [idx |-> Judged(c), kind |-> kind]))
    BY <1>9, TakeKeepsFront
  <1>. QED  BY <1>8, <1>10, <1>11 DEF PivotsAfter

LEMMA BarsGrow ==
    ASSUME DiscoveryInv, DiscoveryInv', [Next]_vars
    PROVE  bars' = bars \/ Longer(bars, bars')
  <1>1. CASE \E ts, bar : Arrive(ts, bar)
    <2>1. PICK bar : bars' = bars \/ bars' = Append(bars, bar)
      BY <1>1 DEF Arrive, Keep
    <2>2. CASE bars' = Append(bars, bar)
      <3>1. bars \in Seq(BarRecords)
        BY DEF DiscoveryInv, InOrder
      <3>2. Len(bars') = Len(bars) + 1 /\ \A n \in 1..Len(bars) : bars'[n] = bars[n]
        BY <2>2, <3>1
      <3>3. Priced(bars)
        BY BarsArePriced DEF DiscoveryInv
      <3>4. Priced(bars')
        <4>1. bars' \in Seq(BarRecords)
          BY DEF DiscoveryInv, InOrder
        <4>2. Len(bars') \in Nat /\ DOMAIN bars' = 1..Len(bars')
              /\ \A n \in 1..Len(bars') : bars'[n] \in BarRecords
          BY <4>1
        <4>. QED  BY <4>2, BarFields DEF Priced
      <3>. QED  BY <3>2, <3>3, <3>4 DEF Longer
    <2>. QED  BY <2>1, <2>2
  <1>2. CASE RecordTurn \/ UNCHANGED vars
    BY <1>2 DEF RecordTurn, vars
  <1>. QED  BY <1>1, <1>2 DEF Next, FreshBar, RepeatedBar, LeapingBar, BrokenBar

(* A turning point that is not the last one stays where it was, whatever   *)
(* bars arrive (_pivots judges a bar only when swing_k bars follow it).    *)
THEOREM PivotsNeverRepaint == Spec => PivotsStay
  <1>1. ASSUME DiscoveryInv, DiscoveryInv', [Next]_vars
        PROVE  [LET p == Pivots(bars)
                IN  p # <<>> => IsPrefix(Front(p), Pivots(bars'))]_vars
    <2>. SUFFICES ASSUME Pivots(bars) # <<>>
                  PROVE  IsPrefix(Front(Pivots(bars)), Pivots(bars'))
      OBVIOUS
    <2>1. bars' = bars \/ Longer(bars, bars')
      BY <1>1, BarsGrow
    <2>2. CASE bars' = bars
      <3>1. Pivots(bars) \in Seq(PivotsOf(Judged(bars)))
        BY <1>1, BarsArePriced, PivotsAreGood DEF DiscoveryInv, GoodPivots
      <3>. QED  BY <2>2, <3>1, WholeIsPrefix
    <2>3. CASE Longer(bars, bars')
      BY <2>3, PivotsGoOn
    <2>. QED  BY <2>1, <2>2, <2>3
  <1>2. Init => DiscoveryInv
    BY DiscoveryAssumption DEF Init, DiscoveryInv, InOrder
  <1>3. DiscoveryInv /\ [Next]_vars => DiscoveryInv'
    BY StepKeeps
  <1>. QED  BY <1>1, <1>2, <1>3, PTL DEF Spec, PivotsStay

==============================================================================
