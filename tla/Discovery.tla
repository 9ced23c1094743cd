----------------------------- MODULE Discovery -----------------------------
(***************************************************************************)
(* What the vendor's bars go through before anything is learnt from them:  *)
(* validate drops bars, discover finds the turning points of the rest,     *)
(* names the evidence at each of them, asks which evidence moved price in  *)
(* two halves of the history, and offers it as rules for custom_rule.      *)
(*                                                                         *)
(* A bar carries its time, high, low and the features of its moment (row), *)
(* in the units that the thresholds need: RSI in points, distances, ranges *)
(* and relative volume in hundredths of an ATR or of normal volume, %B and *)
(* returns in hundredths, the slope of OBV by its sign.                    *)
(***************************************************************************)
EXTENDS Integers, Sequences, FiniteSets, SequencesExt, Sums

CONSTANTS
    Shapes,     \* what a bar may look like: [high, low, row]
    Odd,        \* the shape of the bars that come out of order or broken
    MaxBars,    \* bound: bars the vendor returns
    K,          \* swing_k
    MinMove,    \* min_move_atr times the ATR
    MinEvents,  \* turns a reason needs in the second half (3 in the code)
    Lessons,    \* what a turn may teach: [move (hundredths), row]
    MaxTurns    \* bound: turns of a history given by its turns

(* The features of the moment, all there and none NaN.                     *)
Rows == [rsi : Int, dist : Int, bb : Int, rvol : Int, ret : Int, obv : Int, range : Int]

ASSUME DiscoveryAssumption ==
    /\ K \in Nat \ {0} /\ MinMove \in Nat \ {0} /\ MinEvents \in Nat \ {0}
    /\ MaxBars \in Nat /\ MaxTurns \in Nat
    /\ \A x \in Shapes : /\ x.high \in Nat /\ x.low \in Nat /\ 0 < x.low /\ x.low <= x.high
                         /\ x.row \in Rows
    /\ \A l \in Lessons : l.move \in Int /\ l.row \in Rows
    /\ Odd \in Shapes

VARIABLES
    fetched,    \* how many bars the vendor has returned
    newest,     \* the time the last of them was due
    bars,       \* those that validate has kept
    turns       \* the events of a history that is given by its turns
vars == <<fetched, newest, bars, turns>>

Bar(ts, shape) == [ts |-> ts, high |-> shape.high, low |-> shape.low, row |-> shape.row]

Init == fetched = 0 /\ newest = 0 /\ bars = <<>> /\ turns = <<>>

(* Mutant: only a bar that is older than the last one is stale.            *)
KeepRepeated(bar) ==
    bars' = IF bar.high < bar.low \/ (bars # <<>> /\ bar.ts < Last(bars).ts)
            THEN bars ELSE Append(bars, bar)

(* validate: impossible bars go, and so do those that are not newer than   *)
(* the last bar that was kept.                                             *)
Keep(bar) ==
    bars' = IF bar.high < bar.low \/ (bars # <<>> /\ bar.ts <= Last(bars).ts)
            THEN bars ELSE Append(bars, bar)

Arrive(ts, bar) ==
    /\ turns = <<>> /\ fetched < MaxBars
    /\ fetched' = fetched + 1
    /\ newest' = IF ts > newest THEN ts ELSE newest
    /\ Keep(bar)
    /\ UNCHANGED turns

FreshBar    == \E x \in Shapes : Arrive(newest + 1, Bar(newest + 1, x))
RepeatedBar == newest > 0 /\ Arrive(newest, Bar(newest, Odd))
(* A bar dated into the future: every bar until then is stale after it.    *)
LeapingBar  == Arrive(newest + 1, Bar(newest + 3, Odd))
BrokenBar   == Arrive(newest + 1, [Bar(newest + 1, Odd) EXCEPT !.high = Odd.low - 1])

-----------------------------------------------------------------------------
(* _pivots.  A bar is a turn when no bar up to K bars away goes beyond it; *)
(* only bars with K bars on each side are judged.                          *)
Window(b, i) == ((i - K)..(i + K)) \cap DOMAIN b
IsHigh(b, i) == \A j \in Window(b, i) : b[j].high <= b[i].high
IsLow(b, i)  == \A j \in Window(b, i) : b[j].low >= b[i].low

(* Mutant: the newest bars are judged by the bars there are.               *)
JudgedAtOnce(b) == Len(b)

Judged(b) == Len(b) - K

Price(b, p) == IF p.kind = "high" THEN b[p.idx].high ELSE b[p.idx].low

MoreExtreme(b, p, q) == IF p.kind = "high" THEN Price(b, p) > Price(b, q)
                        ELSE Price(b, p) < Price(b, q)

AbsDiff(m, n) == IF m < n THEN n - m ELSE m - n

(* Mutant: every turn counts.                                              *)
TakePivotOfAnySize(b, out, p) ==
    IF out = <<>> THEN <<p>>
    ELSE IF p.kind = Last(out).kind
         THEN IF MoreExtreme(b, p, Last(out)) THEN Append(Front(out), p) ELSE out
    ELSE Append(out, p)

TakePivot(b, out, p) ==
    IF out = <<>> THEN <<p>>
    ELSE IF p.kind = Last(out).kind
         THEN IF MoreExtreme(b, p, Last(out)) THEN Append(Front(out), p) ELSE out
    ELSE IF AbsDiff(Price(b, p), Price(b, Last(out))) < MinMove THEN out
    ELSE Append(out, p)

(* A bar that is both is a high.                                           *)
PivotsAfter(b, out, i) ==
    IF IsHigh(b, i) THEN TakePivot(b, out, [idx |-> i, kind |-> "high"])
    ELSE IF IsLow(b, i) THEN TakePivot(b, out, [idx |-> i, kind |-> "low"])
    ELSE out

Pivots(b) ==
    LET upTo[i \in K..Judged(b)] ==
          IF i = K THEN <<>> ELSE PivotsAfter(b, upTo[i - 1], i)
    IN  IF Judged(b) < K THEN <<>> ELSE upTo[Judged(b)]

-----------------------------------------------------------------------------
(* _identify_reasons, and the condition each reason becomes.               *)
Turn(kind) == IF kind = "low" THEN "bought" ELSE "sold"

Codes ==
    {"rsi_oversold", "rsi_overbought", "stretched_below_mean", "stretched_above_mean",
     "band_extreme_low", "band_extreme_high", "volume_climax", "volume_dry_up",
     "momentum_flush", "momentum_blowoff", "obv_divergence_bull", "obv_divergence_bear",
     "climactic_bar", "compression_turn"}

Evident(code, row, turn) ==
    LET buy == turn = "bought"
    IN  \/ code = "rsi_oversold"         /\ buy /\ row.rsi <= 32
        \/ code = "rsi_overbought"       /\ ~buy /\ row.rsi >= 68
        \/ code = "stretched_below_mean" /\ buy /\ row.dist <= -150
        \/ code = "stretched_above_mean" /\ ~buy /\ row.dist >= 150
        \/ code = "band_extreme_low"     /\ buy /\ row.bb <= 5
        \/ code = "band_extreme_high"    /\ ~buy /\ row.bb >= 95
        \/ code = "volume_climax"        /\ row.rvol >= 200
        \/ code = "volume_dry_up"        /\ row.rvol <= 50
        \/ code = "momentum_flush"       /\ buy /\ row.ret <= -1
        \/ code = "momentum_blowoff"     /\ ~buy /\ row.ret >= 1
        \/ code = "obv_divergence_bull"  /\ buy /\ row.obv > 0 /\ row.ret < 0
        \/ code = "obv_divergence_bear"  /\ ~buy /\ row.obv < 0 /\ row.ret > 0
        \/ code = "climactic_bar"        /\ row.range >= 160
        \/ code = "compression_turn"     /\ row.range <= 50

Reasons(row, turn) ==
    LET found == {code \in Codes : Evident(code, row, turn)}
    IN  IF found = {} THEN {"no_obvious_signature"} ELSE found

Cond(feature, op, threshold) == [feature |-> feature, op |-> op, threshold |-> threshold]

(* _REASON_TO_CONDITION.                                                   *)
ReasonToCondition ==
    [rsi_oversold         |-> Cond("rsi", "lt", 35),
     rsi_overbought       |-> Cond("rsi", "gt", 65),
     stretched_below_mean |-> Cond("dist", "lt", -150),
     stretched_above_mean |-> Cond("dist", "gt", 150),
     band_extreme_low     |-> Cond("bb", "lt", 10),
     band_extreme_high    |-> Cond("bb", "gt", 90),
     volume_climax        |-> Cond("rvol", "gt", 200),
     volume_dry_up        |-> Cond("rvol", "lt", 50),
     momentum_flush       |-> Cond("ret", "lt", -1),
     momentum_blowoff     |-> Cond("ret", "gt", 1),
     obv_divergence_bull  |-> Cond("obv", "gt", 0),
     obv_divergence_bear  |-> Cond("obv", "lt", 0),
     climactic_bar        |-> Cond("range", "gt", 160),
     compression_turn     |-> Cond("range", "lt", 50)]

(* Mutant: the band condition of a long is that of a short.                *)
ConditionOfBand(code) ==
    ReasonToCondition[IF code = "band_extreme_low" THEN "band_extreme_high" ELSE code]

Condition(code) == ReasonToCondition[code]

(* How custom_rule takes a condition.                                      *)
Fires(cond, row) == IF cond.op = "lt" THEN row[cond.feature] < cond.threshold
                    ELSE row[cond.feature] > cond.threshold

-----------------------------------------------------------------------------
(* discover.  A turn's move runs to the next pivot, in hundredths.         *)
Events(b) ==
    LET p == Pivots(b)
    IN  [n \in 1..(Len(p) - 1) |->
           LET from == Price(b, p[n])
               to   == IF p[n].kind = "low" THEN b[p[n + 1].idx].high
                       ELSE b[p[n + 1].idx].low
               rise == (100 * (to - from)) \div from
           IN  [turn |-> Turn(p[n].kind), bar |-> p[n].idx,
                move |-> IF p[n].kind = "low" THEN rise ELSE -rise,
                reasons |-> Reasons(b[p[n].idx].row, Turn(p[n].kind))]]

TrainedOn(events)  == (6 * Len(events)) \div 10
Halves(events, turn) ==
    LET of(ns) == {n \in ns : events[n].turn = turn}
    IN  [learnt |-> of(1..TrainedOn(events)),
         proved |-> of((TrainedOn(events) + 1)..Len(events))]

With(events, ns, code) == {n \in ns : code \in events[n].reasons}

(* The mean move of some turns exceeds that of all: sums, not quotients.   *)
Lifts(events, some, all) ==
    LET sum(ns) == SumOver([n \in ns |-> events[n].move], ns)
    IN  sum(some) * Cardinality(all) > sum(all) * Cardinality(some)

(* Mutant: what the first half taught is believed.                         *)
HoldsUpAsLearnt(events, turn, code) ==
    LET h == Halves(events, turn)
    IN  Lifts(events, With(events, h.learnt, code), h.learnt)

HoldsUp(events, turn, code) ==
    LET h      == Halves(events, turn)
        proved == With(events, h.proved, code)
        floor  == Max({MinEvents, Cardinality(h.proved) \div 20})
    IN  /\ Lifts(events, With(events, h.learnt, code), h.learnt)
        /\ Lifts(events, proved, h.proved)
        /\ Cardinality(proved) >= floor

Suggested(events) ==
    LET seen == UNION {{[turn |-> events[n].turn, code |-> c] : c \in events[n].reasons} :
                          n \in DOMAIN events}
    IN  {rule \in seen : rule.code # "no_obvious_signature"
                         /\ HoldsUp(events, rule.turn, rule.code)}

(* A history long enough to teach anything is given by its turns: what     *)
(* Events makes of its bars.                                               *)
TurnAt(turn, move, row) ==
    [turn |-> turn, bar |-> Len(turns) + 1, move |-> move, reasons |-> Reasons(row, turn)]

RecordTurn ==
    /\ fetched = 0 /\ Len(turns) < MaxTurns
    /\ \E lesson \in Lessons :
          LET turn == IF turns # <<>> /\ Last(turns).turn = "bought" THEN "sold" ELSE "bought"
          IN  turns' = Append(turns, TurnAt(turn, lesson.move, lesson.row))
    /\ UNCHANGED <<fetched, newest, bars>>

Next == FreshBar \/ RepeatedBar \/ LeapingBar \/ BrokenBar \/ RecordTurn
Spec == Init /\ [][Next]_vars

-----------------------------------------------------------------------------
(* Bars have their shape, and time only goes forward in what is learnt     *)
(* from: repeated, late and broken bars leave no trace in it               *)
(* (validation.py:33-48).  A bar is dated at most two periods ahead here.  *)
TypeOK ==
    /\ fetched \in 0..MaxBars /\ newest \in Nat
    /\ Len(bars) <= fetched /\ Len(turns) <= MaxTurns
    /\ \A n \in DOMAIN bars : bars[n].low <= bars[n].high /\ bars[n].ts \in 1..(newest + 2)
    /\ \A m, n \in DOMAIN bars : m < n => bars[m].ts < bars[n].ts

(* How far q lies on the side of p that a turn at p points to.             *)
Gain(b, p, q) == IF p.kind = "low" THEN Price(b, q) - Price(b, p)
                 ELSE Price(b, p) - Price(b, q)

Turned(b, p) == IF p.kind = "high" THEN IsHigh(b, p.idx) ELSE IsLow(b, p.idx)

(* The turn is worth the minimum move, or a bar before q turned on the same *)
(* side, no further than q, and the minimum move on the wrong side of p.   *)
Worth(b, p, q) ==
    \/ Gain(b, p, q) >= MinMove
    \/ \E i \in (p.idx + 1)..q.idx :
          LET r == [idx |-> i, kind |-> q.kind]
          IN  Turned(b, r) /\ Gain(b, p, r) <= -MinMove /\ Gain(b, p, r) <= Gain(b, p, q)

(* Pivots alternate and advance, and a turn is worth the minimum move: but *)
(* for one that a gap has left on the wrong side by that much, and whose   *)
(* second pivot was replaced by more extreme ones after it was measured    *)
(* (discovery.py:146-166).                                                 *)
PivotsMatter ==
    LET p == Pivots(bars)
    IN  \A n \in 1..(Len(p) - 1) :
          /\ p[n].idx < p[n + 1].idx /\ p[n].kind # p[n + 1].kind
          /\ Worth(bars, p[n], p[n + 1])

(* No repainting: a bar that arrives changes the last pivot or adds one,   *)
(* every other pivot stays (discovery.py:139-164).                         *)
PivotsStay ==
    [][LET p == Pivots(bars)
       IN  p # <<>> => IsPrefix(Front(p), Pivots(bars'))]_vars

(* A suggested rule fires on the very bars that carried its reason, but    *)
(* for those that sit on the threshold itself, and its side is that of the *)
(* turns it was learnt from (discovery.py:117-132, 170-264, 379-392).      *)
RulesFireOnTheirReason ==
    \A rule \in Suggested(turns), x \in Shapes :
       LET cond == Condition(rule.code)
       IN  rule.code \in Reasons(x.row, rule.turn) =>
             Fires(cond, x.row) \/ x.row[cond.feature] = cond.threshold

(* A rule is suggested only for a reason that paid twice: in both parts of *)
(* the history some turn with it moved further than some turn without it,  *)
(* and the second part was not empty of it (discovery.py:342-354).         *)
PaidTwice ==
    \A rule \in Suggested(turns) :
       \A part \in {"learnt", "proved"} :
          LET ns == Halves(turns, rule.turn)[part]
          IN  \E m \in With(turns, ns, rule.code), n \in ns \ With(turns, ns, rule.code) :
                 turns[m].move > turns[n].move

(* discovery.py:146 says "minimum move between consecutive pivots".        *)
EveryTurnMatters ==
    LET p == Pivots(bars)
    IN  \A n \in 1..(Len(p) - 1) : Gain(bars, p[n], p[n + 1]) \notin (1 - MinMove)..(MinMove - 1)

(* discovery.py:5 says "a pivot low followed by a rally = a **BOUGHT**     *)
(* event": what follows a pivot low is at least no decline.                *)
BoughtBeforeRise ==
    \A n \in DOMAIN Events(bars) : Events(bars)[n].move >= 0
=============================================================================
