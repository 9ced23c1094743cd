----------------------- MODULE BacktestEngine_proofs -----------------------
(***************************************************************************)
(* Positions and trades of the backtester keep their plan, for every       *)
(* series of bars, plan, ratchet and cost within the assumptions of        *)
(* BacktestEngine.                                                         *)
(***************************************************************************)
EXTENDS BacktestEngine, TLAPS

-----------------------------------------------------------------------------
(* Distances in ATRs; the only place where products are looked at.         *)
LEMMA Distances ==
    ASSUME NEW a \in Nat \ {0}
    PROVE  /\ StopAtr * a \in Int
           /\ TargetAtr * a \in Int
           /\ BreakevenAtr * a \in Int
           /\ TrailAtr * a \in Int
           /\ TargetAtr * a > 0
           /\ -(StopAtr * a) < TargetAtr * a
           /\ TrailAtr > 0 => TrailAtr * a > 0
  <1>1. /\ StopAtr \in Int /\ TargetAtr \in Int /\ BreakevenAtr \in Int
        /\ TrailAtr \in Int /\ TargetAtr > 0 /\ StopAtr + TargetAtr > 0
    BY PlanAssumption
  <1>2. (StopAtr + TargetAtr) * a = StopAtr * a + TargetAtr * a
    BY <1>1
  <1>3. \A x \in Int : x > 0 => x * a > 0
    OBVIOUS
  <1>4. (StopAtr + TargetAtr) * a > 0
    BY <1>1, <1>3
  <1>. QED  BY <1>1, <1>2, <1>3, <1>4

(* Gain and At are inverse to each other.                                  *)
LEMMA GainOfAt ==
    ASSUME NEW p, p.entry \in Int, NEW g \in Int
    PROVE  At(p, g) \in Int /\ Gain(p, At(p, g)) = g
  BY DEF At, Gain

LEMMA GainType ==
    ASSUME NEW p \in Positions, NEW px \in Int
    PROVE  Gain(p, px) \in Int
  BY DEF Gain, Positions

(* A bar's close wins no more than its best price and no less than its     *)
(* worst.                                                                  *)
LEMMA BarOrder ==
    ASSUME NEW p \in Positions, NEW b \in MarketBars
    PROVE  /\ b.close \in Prices /\ b.close \in Int
           /\ Best(p, b) \in Int /\ Worst(p, b) \in Int
           /\ Worst(p, b) <= Gain(p, b.close)
           /\ Gain(p, b.close) <= Best(p, b)
  <1>1. Prices \subseteq Int
    BY BarsAssumption
  <1>2. /\ b.lo \in Int /\ b.hi \in Int /\ b.close \in Int /\ b.close \in Prices
        /\ b.lo <= b.close /\ b.close <= b.hi
    BY <1>1 DEF MarketBars
  <1>. QED  BY <1>2 DEF Best, Worst, Gain, Positions

-----------------------------------------------------------------------------
(* What Bracketed says of one position, and what makes it inductive: the   *)
(* target is where the plan put it.                                        *)
Kept(p) ==
    /\ p \in Positions
    /\ Gain(p, p.target) = TargetAtr * p.atr
    /\ -(StopAtr * p.atr) <= Gain(p, p.stop)
    /\ Gain(p, p.stop) < Gain(p, p.target)
    /\ p.mfe < Gain(p, p.target)
    /\ p.mae = 0 \/ p.mae > -(StopAtr * p.atr)
    /\ p.held < Larger(TimeStop, 1)

(* A new position is kept.                                                 *)
LEMMA PlanKept ==
    ASSUME NEW side \in Sides, NEW entry \in Int, NEW a \in Nat \ {0},
           NEW size \in Nat, i \in Nat
    PROVE  LET p == Plan(side, entry, a, size) IN
           /\ Kept(p)
           /\ p.since = i /\ p.held = 0 /\ p.size = size
           /\ p.entry = entry /\ p.side = side /\ p.atr = a
  <1>. DEFINE q == [side |-> side, entry |-> entry]
              p == Plan(side, entry, a, size)
  <1>1. /\ StopAtr * a \in Int /\ TargetAtr * a \in Int /\ TargetAtr * a > 0
        /\ -(StopAtr * a) < TargetAtr * a
    BY Distances
  <1>2. /\ At(q, -(StopAtr * a)) \in Int /\ Gain(q, At(q, -(StopAtr * a))) = -(StopAtr * a)
        /\ At(q, TargetAtr * a) \in Int /\ Gain(q, At(q, TargetAtr * a)) = TargetAtr * a
    BY <1>1, GainOfAt
  <1>3. /\ p.side = side /\ p.entry = entry /\ p.atr = a /\ p.size = size
        /\ p.held = 0 /\ p.mfe = 0 /\ p.mae = 0 /\ p.since = i
        /\ p.stop = At(q, -(StopAtr * a)) /\ p.target = At(q, TargetAtr * a)
    BY DEF Plan
  <1>4. p \in Positions
    BY <1>2 DEF Plan, Positions
  <1>5. /\ Gain(p, p.stop) = -(StopAtr * a)
        /\ Gain(p, p.target) = TargetAtr * a
    BY <1>2, <1>3 DEF Gain
  <1>6. 0 < Larger(TimeStop, 1)
    BY PlanAssumption DEF Larger
  <1>. HIDE DEF p, q
  <1>7. Kept(p)
    BY <1>1, <1>3, <1>4, <1>5, <1>6 DEF Kept
  <1>. QED  BY <1>3, <1>7 DEF p

(* A position that survives a bar is kept, and its stop is not loosened.   *)
LEMMA SurvivorKept ==
    ASSUME NEW p, Kept(p), NEW b \in MarketBars,
           ~StoppedOut(p, b), ~OnTarget(p, b), ~TimedOut(p)
    PROVE  LET q == Ratcheted(UpdateExcursion(p, b)) IN
           /\ Kept(q)
           /\ Gain(p, p.stop) <= Gain(p, q.stop)
           /\ q.side = p.side /\ q.entry = p.entry /\ q.size = p.size
           /\ q.atr = p.atr /\ q.since = p.since /\ q.held = p.held + 1
  <1>. DEFINE e == UpdateExcursion(p, b)
              q == Ratcheted(e)
  <1>1. p \in Positions /\ p.atr \in Nat \ {0} /\ p.entry \in Int
    BY DEF Kept, Positions
  <1>2. /\ Best(p, b) \in Int /\ Worst(p, b) \in Int
        /\ Worst(p, b) > Gain(p, p.stop) /\ Best(p, b) < Gain(p, p.target)
    <2>1. Gain(p, p.stop) \in Int /\ Gain(p, p.target) \in Int
      BY <1>1, GainType DEF Positions
    <2>. QED  BY <1>1, <2>1, BarOrder DEF StoppedOut, OnTarget
  <1>3. /\ TargetAtr * p.atr \in Int /\ StopAtr * p.atr \in Int
        /\ BreakevenAtr * p.atr \in Int /\ TrailAtr * p.atr \in Int
        /\ TargetAtr * p.atr > 0 /\ (TrailAtr > 0 => TrailAtr * p.atr > 0)
    BY <1>1, Distances
  <1>4. /\ e \in Positions
        /\ e.side = p.side /\ e.entry = p.entry /\ e.size = p.size
        /\ e.atr = p.atr /\ e.since = p.since /\ e.held = p.held + 1
        /\ e.stop = p.stop /\ e.target = p.target
        /\ e.mfe = Larger(p.mfe, Best(p, b)) /\ e.mae = Smaller(p.mae, Worst(p, b))
    <2>1. Larger(p.mfe, Best(p, b)) \in Nat /\ Smaller(p.mae, Worst(p, b)) \in Int
      BY <1>1, <1>2 DEF Positions, Larger, Smaller
    <2>2. p.held + 1 \in Nat
      BY <1>1 DEF Positions
    <2>. QED  BY <1>1, <2>1, <2>2 DEF UpdateExcursion, Positions
  <1>5. /\ e.mfe < TargetAtr * p.atr
        /\ e.mae = 0 \/ e.mae > -(StopAtr * p.atr)
    <2>1. /\ p.mfe \in Int /\ p.mae \in Int /\ Gain(p, p.stop) \in Int
          /\ p.mfe < TargetAtr * p.atr /\ Best(p, b) < TargetAtr * p.atr
          /\ p.mae = 0 \/ p.mae > -(StopAtr * p.atr)
          /\ -(StopAtr * p.atr) < Worst(p, b)
      BY <1>1, <1>2, <1>3, GainType DEF Kept, Positions
    <2>. QED  BY <1>2, <1>3, <1>4, <2>1 DEF Larger, Smaller
  <1>6. /\ AtBreakeven(e) \in Int
        /\ Gain(p, p.stop) <= AtBreakeven(e)
        /\ AtBreakeven(e) < TargetAtr * p.atr
    <2>1. Gain(e, e.stop) = Gain(p, p.stop)
      BY <1>4 DEF Gain
    <2>2. Gain(p, p.stop) \in Int /\ Gain(p, p.stop) < TargetAtr * p.atr
      BY <1>1, GainType DEF Kept, Positions
    <2>. QED  BY <1>3, <2>1, <2>2 DEF AtBreakeven, Larger
  <1>7. PICK g \in Int : /\ RatchetStop(e) = At(e, g)
                         /\ AtBreakeven(e) <= g
                         /\ g < TargetAtr * p.atr
    <2>1. e.mfe \in Int /\ TrailAtr \in Int
      BY <1>4, PlanAssumption DEF Positions
    <2>. DEFINE far == e.mfe - TrailAtr * e.atr
    <2>2. CASE TrailAtr > 0 /\ e.mfe >= TrailAtr * e.atr
      <3>1. far \in Int /\ far < TargetAtr * p.atr
        BY <1>3, <1>4, <1>5, <2>1, <2>2
      <3>2. /\ Larger(AtBreakeven(e), far) \in Int
            /\ AtBreakeven(e) <= Larger(AtBreakeven(e), far)
            /\ Larger(AtBreakeven(e), far) < TargetAtr * p.atr
        BY <3>1, <1>3, <1>6 DEF Larger
      <3>. QED  BY <2>2, <3>2 DEF RatchetStop
    <2>3. CASE ~(TrailAtr > 0 /\ e.mfe >= TrailAtr * e.atr)
      BY <2>3, <1>6 DEF RatchetStop
    <2>. QED  BY <2>2, <2>3
  <1>8. At(e, g) \in Int /\ Gain(e, At(e, g)) = g
    BY <1>1, <1>4, GainOfAt
  <1>9. /\ q \in Positions
        /\ q.side = e.side /\ q.entry = e.entry /\ q.size = e.size
        /\ q.atr = e.atr /\ q.since = e.since /\ q.held = e.held
        /\ q.target = e.target /\ q.mfe = e.mfe /\ q.mae = e.mae
        /\ q.stop = At(e, g)
    BY <1>4, <1>7, <1>8 DEF Ratcheted, Positions
  <1>. HIDE DEF e, q
  <1>10. /\ Gain(q, q.stop) = g /\ Gain(p, q.stop) = g
         /\ Gain(q, q.target) = TargetAtr * p.atr
    <2>1. Gain(p, p.target) = TargetAtr * p.atr
      BY DEF Kept
    <2>. QED  BY <1>4, <1>8, <1>9, <2>1 DEF Gain
  <1>11. q.held < Larger(TimeStop, 1)
    BY <1>1, <1>4, <1>9, PlanAssumption DEF TimedOut, Larger, Positions
  <1>12. -(StopAtr * p.atr) <= Gain(p, p.stop) /\ Gain(p, p.stop) \in Int
    BY <1>1, GainType DEF Kept, Positions
  <1>13. /\ -(StopAtr * p.atr) <= g
         /\ Gain(p, p.stop) <= g
    BY <1>3, <1>6, <1>7, <1>12
  <1>14. Kept(q)
    BY <1>4, <1>5, <1>7, <1>9, <1>10, <1>11, <1>13 DEF Kept
  <1>. QED  BY <1>4, <1>9, <1>10, <1>13, <1>14 DEF e, q

-----------------------------------------------------------------------------
(* The inductive invariant. Beside the properties: how old the position is *)
(* at each place of the loop body, where the latest close lies in its      *)
(* plan (the price of a time stop or of the end of the data), and that     *)
(* money already lost backs no position.                                   *)
Timing ==
    /\ phase \in {"enter", "record"} => i < NumBars
    /\ phase \in {"enter", "done"} => pos = Flat
    /\ pos # Flat => /\ i <= NumBars
                     /\ phase = "manage" => pos.held = i - 1 - pos.since
                     /\ phase = "record" => pos.held = i - pos.since

InPlan(p, px) == /\ -Risk(p.atr) <= Gain(p, px)
                 /\ Gain(p, px) <= TargetAtr * p.atr

Backed == pos # Flat /\ equity <= 0 => pos.size = 0

IInv ==
    /\ TypeOK
    /\ pos # Flat => Kept(pos) /\ InPlan(pos, close)
    /\ Timing
    /\ TradesKeepThePlan
    /\ Backed

LEMMA CloseInPlan ==
    ASSUME IInv, pos # Flat, NEW when \in Nat, NEW px \in Int,
           NEW reason \in {"stop", "target", "time_stop", "end_of_data"},
           InPlan(pos, px), when - pos.since <= Larger(TimeStop, 1),
           Close(when, px, reason)
    PROVE  /\ equity' \in Int /\ trades' \in Seq(Trades) /\ curve' \in Seq(Int)
           /\ pos' = Flat /\ i' = i
           /\ TradesKeepThePlan'
           /\ equity <= 0 => equity' <= equity
  <1>. DEFINE new(pnl) ==
              [opened |-> pos.since, closed |-> when, reason |-> reason,
               gain |-> Gain(pos, px), pnl |-> pnl,
               mfe |-> pos.mfe, mae |-> pos.mae, atr |-> pos.atr]
  <1>1. PICK slip \in 0..MaxSlip :
          LET pnl == (Gain(pos, px) - slip) * pos.size - 2 * Commission IN
          /\ equity' = equity + pnl
          /\ trades' = Append(trades, new(pnl))
    BY DEF Close
  <1>. DEFINE pnl == (Gain(pos, px) - slip) * pos.size - 2 * Commission
  <1>2. /\ pos \in Positions /\ Gain(pos, px) \in Int /\ slip \in Int
        /\ pos.size \in Int /\ Commission \in Nat /\ equity \in Int
        /\ trades \in Seq(Trades)
    BY GainType, MoneyAssumption DEF IInv, TypeOK, Positions
  <1>3. pnl \in Int
    BY <1>2
  <1>4. new(pnl) \in Trades
    BY <1>2, <1>3 DEF Trades, Positions
  <1>5. trades' \in Seq(Trades) /\ equity' \in Int
    BY <1>1, <1>2, <1>3, <1>4
  <1>6. pos.size = 0 => pnl <= 0
    BY <1>2
  <1>7. equity <= 0 => equity' <= equity
    BY <1>1, <1>2, <1>3, <1>6 DEF IInv, Backed
  <1>8. /\ pos.atr \in Nat \ {0} /\ StopAtr * pos.atr \in Int
        /\ TargetAtr * pos.atr \in Int /\ Risk(pos.atr) \in Int
    <2>1. pos.atr \in Nat \ {0}
      BY <1>2 DEF Positions
    <2>2. StopAtr * pos.atr \in Int /\ TargetAtr * pos.atr \in Int
      BY <2>1, Distances
    <2>. QED  BY <2>1, <2>2, MoneyAssumption DEF Risk, Larger
  <1>9. /\ new(pnl).gain \in -Risk(new(pnl).atr)..(TargetAtr * new(pnl).atr)
        /\ new(pnl).closed - new(pnl).opened <= Larger(TimeStop, 1)
    BY <1>2, <1>8 DEF InPlan
  <1>. HIDE DEF new, pnl
  <1>10. TradesKeepThePlan'
    <2>1. ASSUME NEW t \in 1..Len(trades')
          PROVE  /\ trades'[t].gain \in -Risk(trades'[t].atr)..(TargetAtr * trades'[t].atr)
                 /\ trades'[t].closed - trades'[t].opened <= Larger(TimeStop, 1)
      <3>1. trades' = Append(trades, new(pnl))
        BY <1>1 DEF pnl
      <3>2. CASE t \in 1..Len(trades)
        <4>1. trades'[t] = trades[t]
          BY <1>2, <3>1, <3>2
        <4>. QED  BY <3>2, <4>1 DEF IInv, TradesKeepThePlan
      <3>3. CASE t = Len(trades) + 1
        <4>1. trades'[t] = new(pnl)
          BY <1>2, <3>1, <3>3
        <4>. QED  BY <1>9, <4>1
      <3>. QED  BY <1>2, <3>1, <3>2, <3>3
    <2>. QED  BY <2>1 DEF TradesKeepThePlan, Risk, Larger
  <1>. QED  BY <1>5, <1>7, <1>10 DEF Close, IInv, TypeOK

-----------------------------------------------------------------------------
LEMMA InvInit == Init => IInv
  BY BarsAssumption, MoneyAssumption
     DEF Init, IInv, TypeOK, Timing, Backed, TradesKeepThePlan

(* Where an exit of the loop fills lies in the plan.                       *)
LEMMA ExitsInPlan ==
    ASSUME IInv, pos # Flat, NEW b \in MarketBars
    PROVE  /\ pos.stop \in Int /\ pos.target \in Int
           /\ InPlan(pos, pos.stop)
           /\ InPlan(pos, pos.target)
           /\ ~StoppedOut(pos, b) /\ ~OnTarget(pos, b) => InPlan(pos, b.close)
  <1>1. Kept(pos) /\ pos \in Positions
    BY DEF IInv, Kept
  <1>2. pos.stop \in Int /\ pos.target \in Int /\ pos.atr \in Nat \ {0}
    BY <1>1 DEF Positions
  <1>3. /\ StopAtr * pos.atr \in Int /\ TargetAtr * pos.atr \in Int
        /\ -(StopAtr * pos.atr) < TargetAtr * pos.atr
    BY <1>2, Distances
  <1>4. -Risk(pos.atr) <= -(StopAtr * pos.atr) /\ Risk(pos.atr) \in Int
    BY <1>3, MoneyAssumption DEF Risk, Larger
  <1>5. /\ Gain(pos, pos.stop) \in Int /\ Gain(pos, pos.target) \in Int
        /\ Gain(pos, pos.target) = TargetAtr * pos.atr
        /\ -(StopAtr * pos.atr) <= Gain(pos, pos.stop)
        /\ Gain(pos, pos.stop) < Gain(pos, pos.target)
    BY <1>1, <1>2, GainType DEF Kept
  <1>6. ASSUME ~StoppedOut(pos, b), ~OnTarget(pos, b)
        PROVE  InPlan(pos, b.close)
    <2>1. /\ Gain(pos, b.close) \in Int /\ Best(pos, b) \in Int /\ Worst(pos, b) \in Int
          /\ Worst(pos, b) <= Gain(pos, b.close) /\ Gain(pos, b.close) <= Best(pos, b)
      BY <1>1, BarOrder, GainType
    <2>2. Gain(pos, pos.stop) < Worst(pos, b) /\ Best(pos, b) < Gain(pos, pos.target)
      BY <1>5, <1>6, <2>1 DEF StoppedOut, OnTarget
    <2>. QED  BY <1>3, <1>4, <1>5, <2>1, <2>2 DEF InPlan
  <1>. QED  BY <1>2, <1>3, <1>4, <1>5, <1>6 DEF InPlan

(* The three exits of the loop: they happen on bar i, which is one bar     *)
(* further than the position has counted.                                  *)
LEMMA ExitStep ==
    ASSUME IInv, NEW b \in MarketBars, StopOut(b) \/ TakeProfit(b) \/ TimeOut(b)
    PROVE  IInv' /\ pos' = Flat /\ (equity <= 0 => equity' <= equity)
  <1>1. /\ pos # Flat /\ phase = "manage" /\ i < NumBars /\ close' = b.close
        /\ phase' = "enter"
    BY DEF StopOut, TakeProfit, TimeOut, NewBar
  <1>2. PICK px \in Int, reason \in {"stop", "target", "time_stop", "end_of_data"} :
          InPlan(pos, px) /\ Close(i, px, reason)
    BY <1>1, ExitsInPlan, BarOrder DEF StopOut, TakeProfit, TimeOut, IInv, Kept
  <1>3. i \in Nat /\ i - pos.since <= Larger(TimeStop, 1)
    BY <1>1, PlanAssumption DEF IInv, TypeOK, Timing, Kept, Larger, Positions
  <1>4. /\ equity' \in Int /\ trades' \in Seq(Trades) /\ curve' \in Seq(Int)
        /\ pos' = Flat /\ i' = i /\ TradesKeepThePlan'
        /\ equity <= 0 => equity' <= equity
    BY <1>1, <1>2, <1>3, CloseInPlan
  <1>5. b.close \in Prices
    BY DEF MarketBars
  <1>6. TypeOK' /\ Timing' /\ Backed'
    BY <1>1, <1>3, <1>4, <1>5 DEF TypeOK, Timing, Backed
  <1>. QED  BY <1>4, <1>6 DEF IInv

LEMMA HoldStep ==
    ASSUME IInv, NEW b \in MarketBars, Hold(b)
    PROVE  IInv' /\ Gain(pos, pos.stop) <= Gain(pos, pos'.stop)
                 /\ pos'.side = pos.side /\ pos'.entry = pos.entry
  <1>1. /\ pos # Flat /\ phase = "manage" /\ i < NumBars /\ close' = b.close
        /\ ~StoppedOut(pos, b) /\ ~OnTarget(pos, b) /\ ~TimedOut(pos)
        /\ pos' = Ratcheted(UpdateExcursion(pos, b)) /\ phase' = "record"
        /\ UNCHANGED <<i, equity, trades, curve>>
    BY DEF Hold, NewBar
  <1>2. Kept(pos) /\ pos \in Positions
    BY <1>1 DEF IInv, Kept
  <1>3. /\ Kept(pos') /\ pos' \in Positions
        /\ Gain(pos, pos.stop) <= Gain(pos, pos'.stop)
        /\ pos'.side = pos.side /\ pos'.entry = pos.entry /\ pos'.size = pos.size
        /\ pos'.atr = pos.atr /\ pos'.since = pos.since /\ pos'.held = pos.held + 1
    BY <1>1, <1>2, SurvivorKept DEF Kept
  <1>4. InPlan(pos', b.close)
    <2>1. InPlan(pos, b.close)
      BY <1>1, ExitsInPlan
    <2>. QED  BY <1>3, <2>1 DEF InPlan, Gain
  <1>5. b.close \in Prices
    BY DEF MarketBars
  <1>6. TypeOK'
    BY <1>1, <1>3, <1>5 DEF IInv, TypeOK
  <1>7. Timing'
    BY <1>1, <1>2, <1>3 DEF IInv, TypeOK, Timing, Positions
  <1>8. Backed' /\ TradesKeepThePlan'
    BY <1>1, <1>3 DEF IInv, Backed, TradesKeepThePlan, Risk, Larger
  <1>9. (InPlan(pos, close))'
    BY <1>1, <1>4 DEF InPlan, Risk, Larger, Gain
  <1>10. (Kept(pos))'
    BY <1>3 DEF Kept, Gain, Larger
  <1>. QED  BY <1>3, <1>6, <1>7, <1>8, <1>9, <1>10 DEF IInv

LEMMA EnterStep ==
    ASSUME IInv, NEW side \in Sides, NEW a \in Atrs, Enter(side, a)
    PROVE  IInv' /\ pos = Flat /\ equity' = equity
  <1>1. /\ phase = "enter" /\ phase' = "record" /\ pos = Flat /\ i < NumBars
        /\ i \in Nat /\ a \in Nat \ {0} /\ close \in Int
        /\ UNCHANGED <<i, close, equity, trades, curve>>
    BY BarsAssumption DEF Enter, IInv, TypeOK, Timing
  <1>2. PICK slip \in 0..MaxSlip, size \in SizesFor(a) :
          pos' = Plan(side, IF side = "long" THEN close + slip ELSE close - slip, a, size)
    BY DEF Enter
  <1>3. size \in Nat /\ (equity <= 0 => size = 0)
    BY MoneyAssumption DEF SizesFor, IInv, TypeOK
  <1>. DEFINE entry == IF side = "long" THEN close + slip ELSE close - slip
  <1>4. slip \in Int /\ slip <= MaxSlip /\ slip >= 0 /\ entry \in Int /\ MaxSlip \in Nat
    BY <1>1, MoneyAssumption
  <1>5. /\ Kept(pos') /\ pos' \in Positions
        /\ pos'.since = i /\ pos'.held = 0 /\ pos'.size = size
        /\ pos'.entry = entry /\ pos'.side = side /\ pos'.atr = a
    BY <1>1, <1>2, <1>3, <1>4, PlanKept DEF Kept
  <1>6. InPlan(pos', close)
    <2>1. Gain(pos', close) = -slip
      BY <1>1, <1>4, <1>5 DEF Gain, Sides
    <2>2. StopAtr * a \in Int /\ TargetAtr * a \in Int /\ TargetAtr * a > 0
      BY <1>1, Distances
    <2>. QED  BY <1>4, <1>5, <2>1, <2>2 DEF InPlan, Risk, Larger
  <1>7. TypeOK'
    BY <1>1, <1>5 DEF IInv, TypeOK
  <1>8. Timing'
    BY <1>1, <1>5, BarsAssumption DEF IInv, TypeOK, Timing
  <1>9. Backed' /\ TradesKeepThePlan'
    BY <1>1, <1>3, <1>5 DEF IInv, Backed, TradesKeepThePlan, Risk, Larger
  <1>10. (InPlan(pos, close))'
    BY <1>1, <1>6 DEF InPlan, Risk, Larger, Gain
  <1>11. (Kept(pos))'
    BY <1>5 DEF Kept, Gain, Larger
  <1>. QED  BY <1>1, <1>7, <1>8, <1>9, <1>10, <1>11 DEF IInv

(* The steps that leave position and trades alone.                         *)
LEMMA QuietStep ==
    ASSUME IInv,
           \/ \E b \in MarketBars : StayFlat(b)
           \/ PassBy \/ RecordEquity \/ Finish
           \/ UNCHANGED vars
    PROVE  IInv' /\ pos' = pos /\ equity' = equity
  <1>1. pos' = pos /\ equity' = equity /\ trades' = trades
    BY DEF StayFlat, NewBar, PassBy, RecordEquity, Finish, vars
  <1>2. TypeOK'
    BY DEF IInv, TypeOK, StayFlat, NewBar, PassBy, RecordEquity, Finish, vars, MarketBars
  <1>3. Timing'
    <2>1. /\ i \in Nat /\ NumBars \in Nat /\ Timing
          /\ pos # Flat => pos.held \in Nat /\ pos.since \in Nat
      BY BarsAssumption DEF IInv, TypeOK, Kept, Positions
    <2>2. CASE \E b \in MarketBars : StayFlat(b)
      BY <2>1, <2>2 DEF StayFlat, NewBar, Timing
    <2>3. CASE PassBy
      BY <2>1, <2>3 DEF PassBy, Timing
    <2>4. CASE RecordEquity
      BY <2>1, <2>4 DEF RecordEquity, Timing
    <2>5. CASE Finish
      BY <2>1, <2>5 DEF Finish, Timing
    <2>6. CASE UNCHANGED vars
      BY <2>1, <2>6 DEF vars, Timing
    <2>. QED  BY <2>2, <2>3, <2>4, <2>5, <2>6
  <1>4. pos # Flat => close' = close
    BY DEF StayFlat, NewBar, PassBy, RecordEquity, Finish, vars
  <1>5. pos' # Flat => Kept(pos') /\ InPlan(pos', close')
    BY <1>1, <1>4 DEF IInv
  <1>6. TradesKeepThePlan' /\ Backed'
    BY <1>1 DEF IInv, TradesKeepThePlan, Backed, Risk, Larger
  <1>7. (Kept(pos))' <=> Kept(pos')
    BY DEF Kept, Gain, Larger
  <1>8. (InPlan(pos, close))' <=> InPlan(pos', close')
    BY DEF InPlan, Gain, Risk, Larger
  <1>. QED  BY <1>1, <1>2, <1>3, <1>5, <1>6, <1>7, <1>8 DEF IInv

(* The residual position is closed on the last bar, the one it has counted *)
(* up to.                                                                  *)
LEMMA ResidualStep ==
    ASSUME IInv, CloseResidual
    PROVE  IInv' /\ pos' = Flat /\ (equity <= 0 => equity' <= equity)
  <1>1. /\ pos # Flat /\ phase = "manage" /\ i >= NumBars /\ close' = close
        /\ phase' = "done" /\ Close(NumBars - 1, close, "end_of_data")
    BY DEF CloseResidual
  <1>2. /\ pos.held \in Nat /\ pos.since \in Nat /\ i \in Nat /\ i = NumBars
        /\ pos.held = i - 1 - pos.since /\ pos.held < Larger(TimeStop, 1)
        /\ InPlan(pos, close)
    BY <1>1, BarsAssumption DEF IInv, TypeOK, Timing, Kept, Positions
  <1>3. /\ NumBars - 1 \in Nat /\ (NumBars - 1) - pos.since <= Larger(TimeStop, 1)
        /\ close \in Int
    BY <1>2, PlanAssumption, BarsAssumption DEF Larger, IInv, TypeOK
  <1>4. /\ equity' \in Int /\ trades' \in Seq(Trades) /\ curve' \in Seq(Int)
        /\ pos' = Flat /\ i' = i /\ TradesKeepThePlan'
        /\ equity <= 0 => equity' <= equity
    BY <1>1, <1>2, <1>3, CloseInPlan
  <1>5. TypeOK' /\ Timing' /\ Backed'
    BY <1>1, <1>2, <1>4 DEF IInv, TypeOK, Timing, Backed
  <1>. QED  BY <1>4, <1>5 DEF IInv

LEMMA NextCases ==
    ASSUME [Next]_vars
    PROVE  \/ \E b \in MarketBars : StopOut(b) \/ TakeProfit(b) \/ TimeOut(b)
           \/ \E b \in MarketBars : Hold(b)
           \/ \E side \in Sides, a \in Atrs : Enter(side, a)
           \/ CloseResidual
           \/ \/ \E b \in MarketBars : StayFlat(b)
              \/ PassBy \/ RecordEquity \/ Finish
              \/ UNCHANGED vars
  BY DEF Next

LEMMA InvNext == IInv /\ [Next]_vars => IInv'
  BY NextCases, ExitStep, HoldStep, EnterStep, ResidualStep, QuietStep

LEMMA Invariant == Spec => []IInv
  BY InvInit, InvNext, PTL DEF Spec

-----------------------------------------------------------------------------
(* Every variable keeps its type; in particular the high-water mark is     *)
(* never negative and a trade never ends before bar 0.                     *)
THEOREM TypeCorrect == Spec => []TypeOK
  BY Invariant, PTL DEF IInv

(* An open position always lies between its stop and its target.           *)
THEOREM PositionBracketed == Spec => []Bracketed
  <1>1. IInv => Bracketed
    BY DEF IInv, Kept, Bracketed
  <1>. QED  BY <1>1, Invariant, PTL

(* No closed trade lost more than its risk, won more than its target, or   *)
(* outlived the time stop.                                                 *)
THEOREM TradesPlanned == Spec => []TradesKeepThePlan
  BY Invariant, PTL DEF IInv

(* "Stops only ever move in the favorable direction - never loosened."     *)
THEOREM StopsOnlyTighten == Spec => StopNeverLoosens
  <1>. DEFINE A == pos # Flat /\ pos' # Flat =>
                     /\ pos'.entry = pos.entry /\ pos'.side = pos.side
                     /\ Gain(pos, pos.stop) <= Gain(pos, pos'.stop)
  <1>1. ASSUME IInv, [Next]_vars
        PROVE  [A]_vars
    <2>1. ASSUME NEW b \in MarketBars, Hold(b)
          PROVE  A
      BY <1>1, <2>1, HoldStep
    <2>2. ASSUME pos' = Flat \/ pos = Flat
          PROVE  A
      BY <2>2
    <2>3. ASSUME pos' = pos, pos # Flat
          PROVE  A
      <3>1. pos \in Positions
        BY <1>1, <2>3 DEF IInv, Kept
      <3>2. Gain(pos, pos.stop) \in Int
        BY <3>1, GainType DEF Positions
      <3>. QED  BY <2>3, <3>2
    <2>. HIDE DEF A
    <2>. QED  BY <1>1, <2>1, <2>2, <2>3, NextCases, ExitStep, EnterStep, ResidualStep, QuietStep
  <1>. QED  BY <1>1, Invariant, PTL DEF Spec, StopNeverLoosens

(* Lost money stays lost: a ruined account gains nothing any more.         *)
THEOREM RuinedForGood == Spec => RuinIsFinal
  <1>1. ASSUME IInv, [Next]_vars
        PROVE  [equity <= 0 => equity' <= equity]_vars
    <2>1. ASSUME NEW b \in MarketBars, Hold(b)
          PROVE  equity' = equity
      BY <2>1 DEF Hold
    <2>2. equity \in Int
      BY <1>1 DEF IInv, TypeOK
    <2>. QED  BY <1>1, <2>1, <2>2, NextCases, ExitStep, EnterStep, ResidualStep, QuietStep
  <1>. QED  BY <1>1, Invariant, PTL DEF Spec, RuinIsFinal

-----------------------------------------------------------------------------
(* The books. A bar k of the curve shows what its trades made; between two *)
(* records the equity is ahead of the curve by the trade, if any, that the *)
(* bar at hand has closed; and no trade was closed on a later bar.         *)
Shown(before, now, k) ==
    IF ClosedOn(k) = {} THEN now = before
    ELSE \E t \in ClosedOn(k) : ClosedOn(k) = {t} /\ now = before + trades[t].pnl

Recorded == IF Len(curve) = 0 THEN StartingEquity ELSE curve[Len(curve)]

Books ==
    /\ i >= Warmup /\ Len(curve) = i - Warmup
    /\ pos # Flat => pos.since >= Warmup
    /\ \A t \in 1..Len(trades) :
         /\ trades[t].closed <= i
         /\ phase \in {"manage", "done"} => trades[t].closed < i
    /\ phase \in {"enter", "record"} => Shown(Recorded, equity, Len(curve) + 1)
    /\ phase = "manage" => equity = Recorded

LedgerInv == IInv /\ Books /\ OneAtATime /\ CurveShowsTrades

LEMMA LedgerInit == Init => LedgerInv
  BY InvInit, BarsAssumption DEF Init, LedgerInv, Books, Recorded, OneAtATime, CurveShowsTrades

LEMMA LedgerTypes ==
    ASSUME LedgerInv
    PROVE  /\ i \in Nat /\ Warmup \in Nat /\ NumBars \in Nat /\ StartingEquity \in Int
           /\ equity \in Int /\ trades \in Seq(Trades) /\ curve \in Seq(Int)
           /\ Len(trades) \in Nat /\ Len(curve) \in Nat
           /\ \A t \in 1..Len(trades) :
                trades[t].closed \in Nat /\ trades[t].opened \in Nat /\ trades[t].pnl \in Int
  <1>1. trades \in Seq(Trades)
    BY DEF LedgerInv, IInv, TypeOK
  <1>2. \A t \in 1..Len(trades) : trades[t] \in Trades
    BY <1>1
  <1>3. \A x \in Trades : x.closed \in Nat /\ x.opened \in Nat /\ x.pnl \in Int
    BY DEF Trades
  <1>4. /\ i \in Nat /\ Warmup \in Nat /\ NumBars \in Nat /\ StartingEquity \in Int
        /\ equity \in Int /\ curve \in Seq(Int)
    BY BarsAssumption, MoneyAssumption DEF LedgerInv, IInv, TypeOK
  <1>5. Len(trades) \in Nat /\ Len(curve) \in Nat
    BY <1>1, <1>4
  <1>. QED  BY <1>1, <1>2, <1>3, <1>4, <1>5

(* On a bar whose exit is still to come nothing was closed yet.            *)
LEMMA NoneClosedYet ==
    ASSUME LedgerInv, phase = "manage"
    PROVE  ClosedOn(Len(curve) + 1) = {} /\ Shown(Recorded, equity, Len(curve) + 1)
  <1>1. ClosedOn(Len(curve) + 1) = {}
    BY LedgerTypes DEF ClosedOn, LedgerInv, Books
  <1>. QED  BY <1>1 DEF Shown, LedgerInv, Books

(* What _close books.                                                      *)
LEMMA ClosedTrade ==
    ASSUME LedgerInv, NEW when \in Nat, NEW px, NEW reason, Close(when, px, reason)
    PROVE  \E new : /\ trades' = Append(trades, new)
                    /\ new.opened = pos.since /\ new.closed = when /\ new.reason = reason
                    /\ equity' = equity + new.pnl
                    /\ pos' = Flat /\ i' = i /\ curve' = curve
  <1>1. PICK slip \in 0..MaxSlip :
          LET pnl == (Gain(pos, px) - slip) * pos.size - 2 * Commission IN
          /\ equity' = equity + pnl
          /\ trades' = Append(trades,
                [opened |-> pos.since, closed |-> when, reason |-> reason,
                 gain |-> Gain(pos, px), pnl |-> pnl,
                 mfe |-> pos.mfe, mae |-> pos.mae, atr |-> pos.atr])
          /\ pos' = Flat
          /\ UNCHANGED <<i, curve>>
    BY DEF Close
  <1>. DEFINE new == [opened |-> pos.since, closed |-> when, reason |-> reason,
                      gain |-> Gain(pos, px),
                      pnl |-> (Gain(pos, px) - slip) * pos.size - 2 * Commission,
                      mfe |-> pos.mfe, mae |-> pos.mae, atr |-> pos.atr]
  <1>2. /\ new.opened = pos.since /\ new.closed = when /\ new.reason = reason
        /\ new.pnl = (Gain(pos, px) - slip) * pos.size - 2 * Commission
    OBVIOUS
  <1>3. trades' = Append(trades, new) /\ equity' = equity + new.pnl /\ pos' = Flat
        /\ i' = i /\ curve' = curve
    BY <1>1
  <1>. HIDE DEF new
  <1>. QED  BY <1>2, <1>3

(* An exit appends one trade; the recorded part of the curve and its bars  *)
(* are not concerned.                                                      *)
LEMMA ExitBooks ==
    ASSUME LedgerInv, pos # Flat, phase = "manage",
           NEW when \in Nat, NEW px, NEW reason, Close(when, px, reason),
           \/ when = i /\ reason # "end_of_data" /\ phase' = "enter"
           \/ when = i - 1 /\ reason = "end_of_data" /\ phase' = "done"
    PROVE  Books' /\ OneAtATime' /\ CurveShowsTrades'
  <1>1. PICK new : /\ trades' = Append(trades, new)
                   /\ new.opened = pos.since /\ new.closed = when /\ new.reason = reason
                   /\ equity' = equity + new.pnl
                   /\ pos' = Flat /\ i' = i /\ curve' = curve
    BY ClosedTrade
  <1>2. /\ i \in Nat /\ Warmup \in Nat /\ Len(trades) \in Nat /\ Len(curve) \in Nat
        /\ trades \in Seq(Trades) /\ i >= Warmup /\ Len(curve) = i - Warmup
        /\ \A t \in 1..Len(trades) : trades[t].closed \in Nat /\ trades[t].closed < i
    BY LedgerTypes DEF LedgerInv, Books
  <1>3. pos.since \in Nat /\ pos.since >= Warmup /\ pos.since <= i - 1
    BY <1>2 DEF LedgerInv, Books, IInv, Timing, Kept, Positions
  <1>4. /\ Len(trades') = Len(trades) + 1
        /\ \A t \in 1..Len(trades) : trades'[t] = trades[t]
        /\ trades'[Len(trades) + 1] = new
    BY <1>1, <1>2
  <1>5. 1..Len(trades') = 1..Len(trades) \cup {Len(trades) + 1}
    BY <1>2, <1>4
  <1>6. ASSUME NEW k \in 1..Len(curve) PROVE ClosedOn(k)' = ClosedOn(k)
    <2>1. ~(new.closed = Warmup + k - 1 /\ new.reason # "end_of_data")
      BY <1>1, <1>2
    <2>. QED  BY <1>4, <1>5, <2>1 DEF ClosedOn
  <1>7. CurveShowsTrades'
    <2>1. SUFFICES ASSUME NEW k \in 1..Len(curve)
                   PROVE  Shown(IF k = 1 THEN StartingEquity ELSE curve[k - 1], curve[k], k)'
      BY <1>1 DEF CurveShowsTrades, Shown
    <2>2. \A t \in ClosedOn(k) : trades'[t] = trades[t]
      BY <1>4 DEF ClosedOn
    <2>3. Shown(IF k = 1 THEN StartingEquity ELSE curve[k - 1], curve[k], k)
      BY DEF LedgerInv, CurveShowsTrades, Shown
    <2>. QED  BY <1>1, <1>6, <2>2, <2>3 DEF Shown
  <1>8. OneAtATime'
    <2>1. SUFFICES ASSUME NEW t \in 1..Len(trades')
                   PROVE  /\ trades'[t].opened >= Warmup
                          /\ trades'[t].opened <= trades'[t].closed
                          /\ trades'[t].opened = trades'[t].closed => trades'[t].reason = "end_of_data"
                          /\ \A u \in 1..(t - 1) : trades'[u].closed <= trades'[t].opened
      BY <1>1 DEF OneAtATime
    <2>2. CASE t \in 1..Len(trades)
      <3>1. \A u \in 1..(t - 1) : trades'[u] = trades[u]
        BY <1>2, <1>4, <2>2
      <3>. QED  BY <1>4, <2>2, <3>1 DEF LedgerInv, OneAtATime
    <2>3. CASE t = Len(trades) + 1
      <3>1. \A u \in 1..(t - 1) : trades'[u] = trades[u] /\ trades[u].closed <= pos.since
        BY <1>2, <1>4, <2>3 DEF LedgerInv, OneAtATime
      <3>. QED  BY <1>1, <1>2, <1>3, <1>4, <2>3, <3>1
    <2>. QED  BY <1>5, <2>2, <2>3
  <1>9. phase' = "enter" => Shown(Recorded, equity, Len(curve) + 1)'
    <2>1. SUFFICES ASSUME when = i, reason # "end_of_data"
                   PROVE  Shown(Recorded, equity, Len(curve) + 1)'
      OBVIOUS
    <2>2. ClosedOn(Len(curve) + 1)' = {Len(trades) + 1}
      BY <1>1, <1>2, <1>4, <1>5, <2>1 DEF ClosedOn
    <2>3. equity' = Recorded' + trades'[Len(trades) + 1].pnl
      BY <1>1, <1>4 DEF LedgerInv, Books, Recorded
    <2>. QED  BY <2>2, <2>3 DEF Shown
  <1>10. \A t \in 1..Len(trades') : /\ trades'[t].closed <= i
                                   /\ phase' = "done" => trades'[t].closed < i
    BY <1>1, <1>2, <1>4, <1>5
  <1>11. Books'
    BY <1>1, <1>2, <1>9, <1>10 DEF Books
  <1>. QED  BY <1>7, <1>8, <1>11

(* Every other step but RecordEquity leaves the books alone.               *)
LEMMA QuietBooks ==
    ASSUME LedgerInv, UNCHANGED <<i, equity, trades, curve>>,
           pos' # Flat => \/ pos # Flat /\ pos'.since = pos.since
                          \/ phase = "enter" /\ pos'.since = i,
           \/ phase = "manage" /\ phase' \in {"enter", "record", "done"}
           \/ phase = "enter" /\ phase' = "record"
           \/ phase' = phase
    PROVE  Books' /\ OneAtATime' /\ CurveShowsTrades'
  <1>1. \A k : ClosedOn(k)' = ClosedOn(k)
    BY DEF ClosedOn
  <1>2. CurveShowsTrades'
    BY <1>1 DEF LedgerInv, CurveShowsTrades
  <1>3. OneAtATime'
    BY LedgerTypes DEF LedgerInv, Books, OneAtATime
  <1>4. phase' \in {"enter", "record"} => Shown(Recorded, equity, Len(curve) + 1)'
    <2>1. SUFFICES ASSUME phase' \in {"enter", "record"}
                   PROVE  Shown(Recorded, equity, Len(curve) + 1)
      BY <1>1 DEF Shown, Recorded
    <2>. QED  BY <2>1, NoneClosedYet DEF LedgerInv, Books
  <1>5. Books'
    BY <1>4, LedgerTypes DEF LedgerInv, Books, Recorded
  <1>. QED  BY <1>2, <1>3, <1>5

LEMMA RecordBooks ==
    ASSUME LedgerInv, RecordEquity
    PROVE  Books' /\ OneAtATime' /\ CurveShowsTrades'
  <1>1. /\ phase = "record" /\ phase' = "manage" /\ curve' = Append(curve, equity)
        /\ i' = i + 1 /\ UNCHANGED <<pos, equity, trades>>
    BY DEF RecordEquity
  <1>2. \A k : ClosedOn(k)' = ClosedOn(k)
    BY <1>1 DEF ClosedOn
  <1>3. /\ Len(curve') = Len(curve) + 1 /\ Len(curve) \in Nat /\ curve'[Len(curve) + 1] = equity
        /\ \A k \in 1..Len(curve) : curve'[k] = curve[k]
    BY <1>1, LedgerTypes
  <1>4. CurveShowsTrades'
    <2>1. SUFFICES ASSUME NEW k \in 1..Len(curve')
                   PROVE  Shown(IF k = 1 THEN StartingEquity ELSE curve'[k - 1], curve'[k], k)
      BY <1>1, <1>2 DEF CurveShowsTrades, Shown
    <2>2. CASE k \in 1..Len(curve)
      <3>1. k # 1 => curve'[k - 1] = curve[k - 1]
        BY <1>3, <2>2
      <3>. QED  BY <1>3, <2>2, <3>1 DEF LedgerInv, CurveShowsTrades, Shown
    <2>3. CASE k = Len(curve) + 1
      <3>1. Recorded = IF k = 1 THEN StartingEquity ELSE curve'[k - 1]
        BY <1>3, <2>3 DEF Recorded
      <3>. QED  BY <1>1, <1>3, <2>3, <3>1 DEF LedgerInv, Books
    <2>. QED  BY <1>3, <2>2, <2>3
  <1>5. OneAtATime'
    BY <1>1 DEF LedgerInv, OneAtATime
  <1>6. Books'
    BY <1>1, <1>3, LedgerTypes DEF LedgerInv, Books, Recorded
  <1>. QED  BY <1>4, <1>5, <1>6

LEMMA LedgerNext == LedgerInv /\ [Next]_vars => LedgerInv'
  <1>. SUFFICES ASSUME LedgerInv, [Next]_vars PROVE LedgerInv'
    OBVIOUS
  <1>1. IInv'
    BY InvNext DEF LedgerInv
  <1>2. ASSUME NEW b \in MarketBars, StopOut(b) \/ TakeProfit(b) \/ TimeOut(b)
        PROVE  Books' /\ OneAtATime' /\ CurveShowsTrades'
    <2>1. /\ pos # Flat /\ phase = "manage" /\ phase' = "enter" /\ i \in Nat
          /\ \E px : \E reason \in {"stop", "target", "time_stop"} : Close(i, px, reason)
      BY <1>2, LedgerTypes DEF StopOut, TakeProfit, TimeOut, NewBar
    <2>. QED  BY <2>1, ExitBooks
  <1>3. CASE CloseResidual
    <2>1. /\ pos # Flat /\ phase = "manage" /\ phase' = "done"
          /\ Close(NumBars - 1, close, "end_of_data") /\ i >= NumBars
      BY <1>3 DEF CloseResidual
    <2>2. NumBars = i /\ i - 1 \in Nat
      BY <2>1, LedgerTypes DEF LedgerInv, IInv, Timing, Kept, Positions
    <2>. QED  BY <1>1, <2>1, <2>2, ExitBooks DEF LedgerInv
  <1>4. ASSUME NEW b \in MarketBars, Hold(b)
        PROVE  Books' /\ OneAtATime' /\ CurveShowsTrades'
    <2>1. pos'.since = pos.since
      BY <1>4, LedgerTypes, SurvivorKept DEF Hold, NewBar, LedgerInv, IInv, Kept
    <2>. QED  BY <1>4, <2>1, QuietBooks DEF Hold, NewBar
  <1>5. ASSUME NEW side \in Sides, NEW a \in Atrs, Enter(side, a)
        PROVE  Books' /\ OneAtATime' /\ CurveShowsTrades'
    <2>1. pos'.since = i
      BY <1>5 DEF Enter, Plan
    <2>. QED  BY <1>5, <2>1, QuietBooks DEF Enter
  <1>6. ASSUME \/ \E b \in MarketBars : StayFlat(b)
               \/ PassBy \/ Finish \/ UNCHANGED vars
        PROVE  Books' /\ OneAtATime' /\ CurveShowsTrades'
    <2>1. /\ UNCHANGED <<i, pos, equity, trades, curve>>
          /\ \/ phase = "manage" /\ phase' \in {"enter", "record", "done"}
             \/ phase = "enter" /\ phase' = "record"
             \/ phase' = phase
      BY <1>6 DEF StayFlat, NewBar, PassBy, Finish, vars
    <2>. QED  BY <2>1, QuietBooks
  <1>. QED  BY <1>1, <1>2, <1>3, <1>4, <1>5, <1>6, RecordBooks, NextCases DEF LedgerInv

LEMMA LedgerInvariant == Spec => []LedgerInv
  BY LedgerInit, LedgerNext, PTL DEF Spec

(* One position at a time: a trade is opened when the last one is closed,  *)
(* and lives over a bar boundary unless the data end on its entry bar.     *)
THEOREM PositionsInTurn == Spec => []OneAtATime
  <1>1. LedgerInv => OneAtATime
    BY DEF LedgerInv
  <1>. QED  BY <1>1, LedgerInvariant, PTL

(* The curve moves by the trades the loop closed, each on its own bar.     *)
THEOREM CurveIsTheTrades == Spec => []CurveShowsTrades
  <1>1. LedgerInv => CurveShowsTrades
    BY DEF LedgerInv
  <1>. QED  BY <1>1, LedgerInvariant, PTL

==============================================================================
