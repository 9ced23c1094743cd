--------------------------- MODULE BacktestEngine ---------------------------
(***************************************************************************)
(* The event-driven backtester: BacktestEngine.run replays bars one after  *)
(* the other, manages the one open position against the bar, looks for an  *)
(* entry when flat, and records the equity; it closes what is left at the  *)
(* end. Scanners are abstracted to the direction they ask for.             *)
(*                                                                         *)
(* Prices are integers. A position is described by gains: Gain(p, px) is   *)
(* what one unit of p has won at price px, so that the long and the short  *)
(* branches of the code are one definition.                                *)
(***************************************************************************)
EXTENDS Integers, Sequences

CONSTANTS
    NumBars, Warmup,            \* length of the series; bars before trading
    Prices,                     \* prices a bar may show
    Atrs,                       \* values of atr.14 (0 before it is defined)
    Sizes,                      \* units that risk_per_trade may come to
    StartingEquity, Commission,
    MaxSlip,                    \* slippage of one fill, at most
    StopAtr, TargetAtr,         \* the plan, in ATRs from the entry
    BreakevenAtr, TrailAtr,     \* the ratchet (not positive: disabled)
    TimeStop,                   \* time_stop_bars
    AllowShort,
    HtfFactor                   \* bars of the series in a higher-timeframe bar

ASSUME BarsAssumption ==
    /\ NumBars \in Nat /\ Warmup \in Nat /\ HtfFactor \in Nat \ {0}
    /\ Prices \subseteq Nat /\ Atrs \subseteq Nat
ASSUME MoneyAssumption ==
    /\ Sizes \subseteq Nat
    /\ StartingEquity \in Int /\ Commission \in Nat /\ MaxSlip \in Nat
(* The parameters of a backtest come unvalidated from the request; of the  *)
(* plan we ask only that its target lies beyond its stop.                  *)
ASSUME PlanAssumption ==
    /\ StopAtr \in Int /\ TargetAtr \in Nat \ {0} /\ StopAtr + TargetAtr > 0
    /\ BreakevenAtr \in Int /\ TrailAtr \in Int
    /\ TimeStop \in Int /\ AllowShort \in BOOLEAN

VARIABLES
    i, phase,                   \* the bar at hand; where the loop body is
    close,                      \* the close of the latest bar
    pos,                        \* the open position, or Flat
    equity, trades, curve       \* _State

vars == <<i, phase, close, pos, equity, trades, curve>>

MarketBars == {b \in [lo : Prices, hi : Prices, close : Prices] :
                 b.lo <= b.close /\ b.close <= b.hi}

Sides == {"long", "short"}
Flat  == [side |-> "none"]

Gain(p, px) == IF p.side = "long" THEN px - p.entry ELSE p.entry - px
At(p, gain) == IF p.side = "long" THEN p.entry + gain ELSE p.entry - gain

Best(p, b)  == Gain(p, IF p.side = "long" THEN b.hi ELSE b.lo)
Worst(p, b) == Gain(p, IF p.side = "long" THEN b.lo ELSE b.hi)

Larger(a, b)  == IF a >= b THEN a ELSE b
Smaller(a, b) == IF a <= b THEN a ELSE b

-----------------------------------------------------------------------------
Init ==
    /\ i = Warmup
    /\ phase = "manage"
    /\ close \in Prices
    /\ pos = Flat
    /\ equity = StartingEquity
    /\ trades = <<>>
    /\ curve = <<>>

(* _check_exit: the stop comes first, then the target, then the time stop. *)
(* The position that counts this bar is older by one bar.                  *)
StoppedOut(p, b) == Worst(p, b) <= Gain(p, p.stop)

(* Mutants: the target must be passed; a bar counts only after the check.  *)
PastTarget(p, b) == Best(p, b) > Gain(p, p.target)
TimedOutLate(p)  == p.held >= TimeStop

OnTarget(p, b)   == Best(p, b) >= Gain(p, p.target)
TimedOut(p)      == p.held + 1 >= TimeStop

(* Mutant: the closed position is not forgotten.                           *)
CloseAndKeep(when, px, reason) ==
    LET pnl == Gain(pos, px) * pos.size - 2 * Commission IN
    /\ equity' = equity + pnl
    /\ trades' = Append(trades,
          [opened |-> pos.since, closed |-> when, reason |-> reason,
           gain |-> Gain(pos, px), pnl |-> pnl,
           mfe |-> pos.mfe, mae |-> pos.mae, atr |-> pos.atr])
    /\ UNCHANGED <<i, pos, curve>>

(* _close: the fill slips against the position.                            *)
Close(when, px, reason) ==
    \E slip \in 0..MaxSlip :
        LET pnl == (Gain(pos, px) - slip) * pos.size - 2 * Commission IN
        /\ equity' = equity + pnl
        /\ trades' = Append(trades,
              [opened |-> pos.since, closed |-> when, reason |-> reason,
               gain |-> Gain(pos, px), pnl |-> pnl,
               mfe |-> pos.mfe, mae |-> pos.mae, atr |-> pos.atr])
        /\ pos' = Flat
        /\ UNCHANGED <<i, curve>>

NewBar(b) ==
    /\ phase = "manage"
    /\ i < NumBars
    /\ close' = b.close

StopOut(b) ==
    /\ NewBar(b)
    /\ pos # Flat
    /\ StoppedOut(pos, b)
    /\ Close(i, pos.stop, "stop")
    /\ phase' = "enter"

TakeProfit(b) ==
    /\ NewBar(b)
    /\ pos # Flat
    /\ ~StoppedOut(pos, b)
    /\ OnTarget(pos, b)
    /\ Close(i, pos.target, "target")
    /\ phase' = "enter"

TimeOut(b) ==
    /\ NewBar(b)
    /\ pos # Flat
    /\ ~StoppedOut(pos, b) /\ ~OnTarget(pos, b)
    /\ TimedOut(pos)
    /\ Close(i, b.close, "time_stop")
    /\ phase' = "enter"

(* Mutant: the excursion of the latest bar only.                           *)
UpdateExcursionAnew(p, b) ==
    [p EXCEPT !.held = @ + 1, !.mfe = Best(p, b), !.mae = Worst(p, b)]

(* _update_excursion.                                                      *)
UpdateExcursion(p, b) ==
    [p EXCEPT !.held = @ + 1,
              !.mfe = Larger(@, Best(p, b)),
              !.mae = Smaller(@, Worst(p, b))]

(* _ratchet_stop: to breakeven, then behind the high-water mark.           *)
AtBreakeven(p) ==
    IF BreakevenAtr > 0 /\ p.mfe >= BreakevenAtr * p.atr
    THEN Larger(Gain(p, p.stop), 0)
    ELSE Gain(p, p.stop)

(* Mutant: the short branch is a copy of the long one.                     *)
RatchetAsLong(p) ==
    IF TrailAtr > 0 /\ p.mfe >= TrailAtr * p.atr
    THEN p.entry + Larger(AtBreakeven(p), p.mfe - TrailAtr * p.atr)
    ELSE p.entry + AtBreakeven(p)

RatchetStop(p) ==
    IF TrailAtr > 0 /\ p.mfe >= TrailAtr * p.atr
    THEN At(p, Larger(AtBreakeven(p), p.mfe - TrailAtr * p.atr))
    ELSE At(p, AtBreakeven(p))

Ratcheted(p) == [p EXCEPT !.stop = RatchetStop(p)]

Hold(b) ==
    /\ NewBar(b)
    /\ pos # Flat
    /\ ~StoppedOut(pos, b) /\ ~OnTarget(pos, b) /\ ~TimedOut(pos)
    /\ pos' = Ratcheted(UpdateExcursion(pos, b))
    /\ phase' = "record"
    /\ UNCHANGED <<i, equity, trades, curve>>

StayFlat(b) ==
    /\ NewBar(b)
    /\ pos = Flat
    /\ phase' = "enter"
    /\ UNCHANGED <<i, pos, equity, trades, curve>>

(* Mutant: the sign of the equity is lost.                                 *)
SizesForAnyEquity(a) == IF StopAtr * a # 0 THEN Sizes ELSE {0}

(* build_plan and _open: entry at the close plus slippage, stop and target *)
(* around that entry; equity * risk_per_trade over the risk of a unit.     *)
SizesFor(a) == IF equity > 0 /\ StopAtr * a # 0 THEN Sizes ELSE {0}

Plan(side, entry, a, size) ==
    LET p == [side |-> side, entry |-> entry] IN
    [side |-> side, entry |-> entry, stop |-> At(p, -(StopAtr * a)),
     target |-> At(p, TargetAtr * a), size |-> size, atr |-> a,
     held |-> 0, mfe |-> 0, mae |-> 0, since |-> i]

Enter(side, a) ==
    /\ phase = "enter"
    /\ side = "long" \/ AllowShort
    /\ a > 0
    /\ \E slip \in 0..MaxSlip, size \in SizesFor(a) :
         LET entry == IF side = "long" THEN close + slip ELSE close - slip IN
         pos' = Plan(side, entry, a, size)
    /\ phase' = "record"
    /\ UNCHANGED <<i, close, equity, trades, curve>>

(* The scanner does not trigger, scores too low, or has no direction.      *)
PassBy ==
    /\ phase = "enter"
    /\ phase' = "record"
    /\ UNCHANGED <<i, close, pos, equity, trades, curve>>

(* Mutant: equity is recorded only while there is no position.             *)
RecordWhenFlat ==
    /\ phase = "record"
    /\ curve' = IF pos = Flat THEN Append(curve, equity) ELSE curve
    /\ i' = i + 1
    /\ phase' = "manage"
    /\ UNCHANGED <<close, pos, equity, trades>>

RecordEquity ==
    /\ phase = "record"
    /\ curve' = Append(curve, equity)
    /\ i' = i + 1
    /\ phase' = "manage"
    /\ UNCHANGED <<close, pos, equity, trades>>

CloseResidual ==
    /\ phase = "manage"
    /\ i >= NumBars
    /\ pos # Flat
    /\ Close(NumBars - 1, close, "end_of_data")
    /\ phase' = "done"
    /\ UNCHANGED close

Finish ==
    /\ phase = "manage"
    /\ i >= NumBars
    /\ pos = Flat
    /\ phase' = "done"
    /\ UNCHANGED <<i, close, pos, equity, trades, curve>>

Next ==
    \/ \E b \in MarketBars :
         StopOut(b) \/ TakeProfit(b) \/ TimeOut(b) \/ Hold(b) \/ StayFlat(b)
    \/ \E side \in Sides, a \in Atrs : Enter(side, a)
    \/ PassBy
    \/ RecordEquity
    \/ CloseResidual
    \/ Finish

Spec == Init /\ [][Next]_vars

(* _htf_window: the higher-timeframe bars with a timestamp up to the bar's *)
(* own. A timestamp is the time a bar opens (market.py), so the bar k      *)
(* covers the time from k to k + 1, the higher-timeframe bar j the time    *)
(* from j * HtfFactor to (j + 1) * HtfFactor.                              *)
HtfWindow(k) == {j \in 0..NumBars : j * HtfFactor <= k}

-----------------------------------------------------------------------------
Positions ==
    [side : Sides, entry : Int, stop : Int, target : Int, size : Nat,
     atr : Nat \ {0}, held : Nat, mfe : Nat, mae : Int, since : Nat]

Trades ==
    [opened : Nat, closed : Nat, gain : Int, pnl : Int, mfe : Nat, mae : Int,
     atr : Nat \ {0}, reason : {"stop", "target", "time_stop", "end_of_data"}]

TypeOK ==
    /\ i \in Nat
    /\ phase \in {"manage", "enter", "record", "done"}
    /\ close \in Prices
    /\ pos \in Positions \cup {Flat}
    /\ equity \in Int
    /\ trades \in Seq(Trades)
    /\ curve \in Seq(Int)

(* An open position stays inside its plan: its stop is on the near side of *)
(* its target however the ratchet moved it, no bar it survived touched     *)
(* either, and the time stop is not overdue.                               *)
Bracketed ==
    pos # Flat =>
        /\ -(StopAtr * pos.atr) <= Gain(pos, pos.stop)
        /\ Gain(pos, pos.stop) < Gain(pos, pos.target)
        /\ pos.mfe < Gain(pos, pos.target)
        /\ pos.mae = 0 \/ pos.mae > -(StopAtr * pos.atr)
        /\ pos.held < Larger(TimeStop, 1)

(* The risk a unit was sized for; a position closed on its entry bar loses *)
(* the slippage of the entry instead.                                      *)
Risk(a) == Larger(StopAtr * a, MaxSlip)

(* Before the costs of its exit, no trade loses more per unit than its     *)
(* risk, none wins more than its target, and none outlives the time stop.  *)
TradesKeepThePlan ==
    \A t \in 1..Len(trades) :
        /\ trades[t].gain \in -Risk(trades[t].atr)..(TargetAtr * trades[t].atr)
        /\ trades[t].closed - trades[t].opened <= Larger(TimeStop, 1)

(* "Stops only ever move in the favorable direction - never loosened."     *)
StopNeverLoosens ==
    [][pos # Flat /\ pos' # Flat =>
         /\ pos'.entry = pos.entry /\ pos'.side = pos.side
         /\ Gain(pos, pos.stop) <= Gain(pos, pos'.stop)]_vars

(* One position at a time: trades follow each other, each one open for at  *)
(* least one bar boundary unless the series ended on its entry bar.        *)
OneAtATime ==
    \A t \in 1..Len(trades) :
        /\ trades[t].opened >= Warmup
        /\ trades[t].opened <= trades[t].closed
        /\ trades[t].opened = trades[t].closed => trades[t].reason = "end_of_data"
        /\ \A u \in 1..(t - 1) : trades[u].closed <= trades[t].opened
        /\ pos # Flat => trades[t].closed <= pos.since

(* The equity curve moves exactly by the trades the loop closed, each on   *)
(* the bar that closed it.                                                 *)
ClosedOn(k) == {t \in 1..Len(trades) : /\ trades[t].closed = Warmup + k - 1
                                       /\ trades[t].reason # "end_of_data"}

CurveShowsTrades ==
    \A k \in 1..Len(curve) :
        LET before == IF k = 1 THEN StartingEquity ELSE curve[k - 1] IN
        IF ClosedOn(k) = {} THEN curve[k] = before
        ELSE \E t \in ClosedOn(k) : ClosedOn(k) = {t} /\ curve[k] = before + trades[t].pnl

(* An account that has lost everything wins nothing back: it opens no more *)
(* positions of any size, and has none left.                               *)
RuinIsFinal == [][equity <= 0 => equity' <= equity]_vars

(* The equity curve of a finished backtest ends at its final equity: the   *)
(* engine closes "any residual position at the last bar".                  *)
CurveEndsAtEquity ==
    phase = "done" /\ curve # <<>> => curve[Len(curve)] = equity

(* "at each bar a FeatureSnapshot is built from data known *up to that     *)
(* bar*": the higher-timeframe bars at hand are complete when bar i is.    *)
HtfIsKnown ==
    phase = "enter" => \A j \in HtfWindow(i) : (j + 1) * HtfFactor <= i + 1
=============================================================================
