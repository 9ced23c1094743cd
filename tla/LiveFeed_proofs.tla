--------------------------- MODULE LiveFeed_proofs ---------------------------
(***************************************************************************)
(* Alerts follow the rules the page shows, a page that never polled shows  *)
(* the newest signals first, and every page holds a signal once and no     *)
(* more than its buffer: for any universe, any set of rules and filters,   *)
(* any buffer and any number of executions of the run.                     *)
(***************************************************************************)
EXTENDS LiveFeed, TLAPS

-----------------------------------------------------------------------------
(* The part of the types the argument needs.                               *)
AnySignal == [att : Nat, pos : Nat, hit : BOOLEAN]
Sessions   == Seq(AnySignal)
FiredSets  == SUBSET (Rules \X AnySignal)
ListedSets == SUBSET [rule : Rules, enabled : BOOLEAN]
Scans == [pc : Stages, att : Nat, pos : Nat, pend : Sessions,
          fired : FiredSets, listed : ListedSets]
RuleTypes ==
    /\ scan \in Scans
    /\ rules \in [Rules -> RuleRows]
    /\ watch \in [some : SUBSET Rules, every : SUBSET Rules]

(* Between building a signal and its last rule.                            *)
Judging == scan.pc \in {"publish", "alerts", "dispatch"}
Current == Head(scan.pend)

(* Column and config of a rule agree: CreateRule, SetEnabled and           *)
(* DeleteRule write both.                                                  *)
ColumnsAgree == \A r \in Rules : rules[r].enabled = rules[r].config

(* The signal at hand heads the session, and watch tells of it.            *)
SignalAtHand ==
    Judging => /\ scan.pend # <<>> /\ Current.pos = scan.pos
               /\ Current.att = scan.att /\ Current.hit
               /\ watch.every \subseteq RulesOn(rules) /\ RulesOn(rules) \subseteq watch.some

(* What has fired in this session fired for an earlier position.           *)
FiredBefore ==
    /\ scan.pc = "off" => scan.fired = {}
    /\ scan.pc \in {"fetch", "score", "publish", "alerts"} =>
          \A f \in scan.fired : f[2].pos < scan.pos

(* While rules are held against the signal, one that fired for it was on   *)
(* at some moment, and a matching one that was on throughout has fired or  *)
(* is still listed.                                                        *)
Dispatched ==
    scan.pc = "dispatch" =>
       /\ \A f \in scan.fired :
             \/ f[2].pos < scan.pos
             \/ f[2] = Current /\ f[1] \in watch.some /\ <<f[1], scan.pos>> \in Matching
       /\ \A r \in watch.every : <<r, scan.pos>> \in Matching =>
             \/ <<r, Current>> \in scan.fired
             \/ [rule |-> r, enabled |-> TRUE] \in scan.listed
       /\ \A x \in scan.listed : x.enabled /\ x.rule \in watch.some

FeedInv == RuleTypes /\ ColumnsAgree /\ SignalAtHand /\ FiredBefore /\ Dispatched

-----------------------------------------------------------------------------
LEMMA HeadOfAdded ==
    ASSUME NEW s \in Seq(AnySignal), NEW x \in AnySignal
    PROVE  <<x>> \o s \in Seq(AnySignal) /\ <<x>> \o s # <<>> /\ Head(<<x>> \o s) = x
  OBVIOUS

LEMMA ScanFields ==
    ASSUME scan \in Scans
    PROVE  /\ scan.pc \in Stages /\ scan.att + 1 \in Nat
           /\ scan.pos \in Nat /\ scan.pos + 1 \in Nat
           /\ scan.pend \in Seq(AnySignal)
           /\ scan.fired \in SUBSET (Rules \X AnySignal)
           /\ scan.listed \in SUBSET [rule : Rules, enabled : BOOLEAN]
  BY DEF Scans, Sessions, FiredSets, ListedSets

LEMMA FiredTypes ==
    ASSUME scan \in Scans
    PROVE  \A f \in scan.fired : f[2].pos \in Nat
  BY ScanFields DEF AnySignal

LEMMA HeadIsSignal ==
    ASSUME RuleTypes, SignalAtHand, Judging
    PROVE  /\ Current \in AnySignal /\ Current.pos = scan.pos
           /\ Current.att = scan.att /\ Current.hit
  BY ScanFields DEF RuleTypes, SignalAtHand, Current

LEMMA EmptyTypes ==
    <<>> \in Sessions /\ {} \in FiredSets /\ {} \in ListedSets
  BY DEF Sessions, FiredSets, ListedSets

LEMMA InitFeed ==
    ASSUME Init
    PROVE  FeedInv
  <1>1. /\ scan = [pc |-> "off", att |-> 0, pos |-> 1, pend |-> <<>>,
                   fired |-> {}, listed |-> {}]
        /\ rules = [r \in Rules |-> NoRule]
        /\ watch = [some |-> {}, every |-> {}]
    BY DEF Init
  <1>2. scan \in Scans
    BY <1>1, EmptyTypes DEF Scans, Stages
  <1>3. rules \in [Rules -> RuleRows] /\ ColumnsAgree
    BY <1>1 DEF RuleRows, NoRule, ColumnsAgree
  <1>4. RuleTypes
    BY <1>1, <1>2, <1>3 DEF RuleTypes
  <1>. QED
    BY <1>1, <1>3, <1>4 DEF FeedInv, SignalAtHand, Judging, FiredBefore, Dispatched

(* FeedInv speaks of the scan, the rules and the watch only.               *)
LEMMA OthersKeep ==
    ASSUME FeedInv, UNCHANGED <<scan, rules, watch>>
    PROVE  FeedInv'
  BY DEF FeedInv, RuleTypes, ColumnsAgree, SignalAtHand, Judging, Current, RulesOn,
         FiredBefore, Dispatched

(* A step to a stage outside judging, with a session that only loses.      *)
LEMMA LeavesJudging ==
    ASSUME FeedInv, UNCHANGED rules,
           scan' \in Scans, watch' \in [some : SUBSET Rules, every : SUBSET Rules],
           scan'.pc \notin {"publish", "alerts", "dispatch"},
           scan'.pc = "off" => scan'.fired = {},
           scan'.pc \in {"fetch", "score"} => \A f \in scan'.fired : f[2].pos < scan'.pos
    PROVE  FeedInv'
  BY DEF FeedInv, RuleTypes, ColumnsAgree, SignalAtHand, Judging, FiredBefore, Dispatched

(* The rules change under a scan.                                          *)
LEMMA StoreKeeps ==
    ASSUME FeedInv, NEW r \in Rules, NEW row \in RuleRows, row.enabled = row.config,
           StoreRule(r, row)
    PROVE  FeedInv'
  <1>. USE DEF FeedInv, StoreRule
  <1>1. UNCHANGED scan
    OBVIOUS
  <1>2. rules' \in [Rules -> RuleRows] /\ ColumnsAgree'
    BY DEF RuleTypes, ColumnsAgree
  <1>3. RulesOn(rules') \subseteq Rules
    BY DEF RulesOn
  <1>4. RuleTypes'
    BY <1>1, <1>2, <1>3, Zenon DEF RuleTypes
  <1>5. CASE Judging
    <2>1. watch' = [some  |-> watch.some \cup RulesOn(rules'),
                    every |-> watch.every \cap RulesOn(rules')]
      BY <1>5 DEF Judging
    <2>2. watch'.every \subseteq watch.every /\ watch.some \subseteq watch'.some
      BY <2>1
    <2>3. SignalAtHand'
      BY <1>1, <1>5, <2>1 DEF SignalAtHand, Judging, Current, RulesOn
    <2>4. Dispatched'
      BY <1>1, <2>2 DEF Dispatched, Current
    <2>. QED  BY <1>1, <1>2, <1>4, <2>3, <2>4 DEF FiredBefore
  <1>6. CASE ~Judging
    BY <1>1, <1>2, <1>4, <1>6 DEF Judging, SignalAtHand, FiredBefore, Dispatched
  <1>. QED  BY <1>5, <1>6

LEMMA BeginKeeps == ASSUME FeedInv, Begin PROVE FeedInv'
  <1>1. scan \in Scans /\ scan.fired = {}
    BY DEF FeedInv, RuleTypes, FiredBefore, Begin
  <1>2. scan' = [scan EXCEPT !.pc = "fetch", !.att = @ + 1, !.pos = 1] /\ UNCHANGED watch
    BY DEF Begin
  <1>3. scan' \in Scans /\ scan'.pc = "fetch" /\ scan'.fired = {}
    BY <1>1, <1>2, ScanFields DEF Scans, Stages
  <1>. QED
    BY <1>2, <1>3, LeavesJudging DEF FeedInv, RuleTypes, Begin

(* The steps that commit or go on to the next symbol.                      *)
LEMMA FetchKeeps == ASSUME FeedInv, FetchBars PROVE FeedInv'
  <1>. USE DEF FeedInv, RuleTypes
  <1>1. ASSUME scan' = [scan EXCEPT !.pc = "score", !.pend = <<>>, !.fired = {}]
        PROVE  FeedInv'
    <2>1. scan' \in Scans /\ scan'.pc = "score" /\ scan'.fired = {}
      BY <1>1, EmptyTypes DEF Scans, Stages
    <2>. QED  BY <2>1, LeavesJudging DEF FetchBars
  <1>2. ASSUME scan' = [scan EXCEPT !.pos = @ + 1], scan.pc = "fetch"
        PROVE  FeedInv'
    <2>1. /\ scan' \in Scans /\ scan'.pc = "fetch" /\ scan'.fired = scan.fired
          /\ scan'.pos = scan.pos + 1
      BY <1>2 DEF Scans, Stages
    <2>2. \A f \in scan'.fired : f[2].pos < scan'.pos
      BY <1>2, <2>1, ScanFields, FiredTypes DEF FiredBefore
    <2>. QED  BY <2>1, <2>2, LeavesJudging DEF FetchBars
  <1>. QED  BY <1>1, <1>2 DEF FetchBars

LEMMA SaveKeeps == ASSUME FeedInv, SaveSignal PROVE FeedInv'
  <1>. USE DEF FeedInv, RuleTypes
  <1>1. PICK hit \in BOOLEAN :
          /\ scan' = [scan EXCEPT
                !.pend = <<[att |-> scan.att, pos |-> scan.pos, hit |-> hit]>> \o @,
                !.pc = IF hit THEN "publish" ELSE "fetch",
                !.pos = IF hit THEN @ ELSE @ + 1]
          /\ watch' = IF hit THEN [some |-> RulesOn(rules), every |-> RulesOn(rules)] ELSE watch
    BY DEF SaveSignal
  <1>. DEFINE new == [att |-> scan.att, pos |-> scan.pos, hit |-> hit]
              row == <<new>> \o scan.pend
  <1>2. /\ new \in AnySignal /\ new.pos = scan.pos
        /\ new.att = scan.att /\ new.hit = hit
        /\ row \in Seq(AnySignal) /\ row # <<>> /\ Head(row) = new
    <2>1. scan.att \in Nat /\ scan.pos \in Nat /\ scan.pend \in Seq(AnySignal)
      BY ScanFields DEF Scans
    <2>2. /\ new \in AnySignal /\ new.pos = scan.pos
          /\ new.att = scan.att /\ new.hit = hit
      BY <2>1 DEF AnySignal
    <2>. QED  BY <2>1, <2>2, HeadOfAdded
  <1>3. scan' = [scan EXCEPT !.pend = row, !.pc = IF hit THEN "publish" ELSE "fetch",
                             !.pos = IF hit THEN @ ELSE @ + 1]
    BY <1>1
  <1>. HIDE DEF row, new
  <1>4. /\ scan' \in Scans /\ scan'.pend = row /\ scan'.fired = scan.fired
        /\ scan'.pc = IF hit THEN "publish" ELSE "fetch"
        /\ scan'.pos = IF hit THEN scan.pos ELSE scan.pos + 1
        /\ scan'.att = scan.att
    BY <1>2, <1>3, ScanFields DEF Scans, Stages, Sessions
  <1>5. \A f \in scan.fired : f[2].pos < scan.pos
    BY DEF SaveSignal, FiredBefore
  <1>6. RulesOn(rules) \subseteq Rules
    BY DEF RulesOn
  <1>7. CASE hit
    <2>1. RuleTypes' /\ ColumnsAgree'
      BY <1>1, <1>4, <1>6, <1>7 DEF SaveSignal, ColumnsAgree
    <2>2. SignalAtHand'
      BY <1>1, <1>2, <1>4, <1>7 DEF SaveSignal, SignalAtHand, Judging, Current, RulesOn
    <2>3. FiredBefore' /\ Dispatched'
      BY <1>4, <1>5, <1>7 DEF FiredBefore, Dispatched
    <2>. QED  BY <2>1, <2>2, <2>3
  <1>8. CASE ~hit
    <2>1. watch' = watch /\ scan'.pc = "fetch" /\ scan'.pos = scan.pos + 1
      BY <1>1, <1>4, <1>8
    <2>2. \A f \in scan'.fired : f[2].pos < scan'.pos
      BY <1>4, <1>5, <2>1, ScanFields, FiredTypes
    <2>. QED  BY <1>4, <2>1, <2>2, LeavesJudging DEF SaveSignal
  <1>. QED  BY <1>7, <1>8

LEMMA PublishKeeps == ASSUME FeedInv, PublishSignal PROVE FeedInv'
  <1>. USE DEF FeedInv, RuleTypes
  <1>1. /\ scan' \in Scans /\ scan'.pc = "alerts" /\ scan.pc = "publish"
        /\ scan'.pend = scan.pend /\ scan'.att = scan.att /\ scan'.pos = scan.pos /\ scan'.fired = scan.fired
        /\ UNCHANGED <<rules, watch>>
    BY DEF PublishSignal, Scans, Stages
  <1>2. SignalAtHand'
    BY <1>1 DEF SignalAtHand, Judging, Current, RulesOn
  <1>. QED  BY <1>1, <1>2 DEF ColumnsAgree, FiredBefore, Dispatched

LEMMA ListKeeps == ASSUME FeedInv, ListEnabledRules PROVE FeedInv'
  <1>. USE DEF FeedInv, RuleTypes
  <1>. DEFINE list == {[rule |-> r, enabled |-> rules[r].config] :
                          r \in {q \in Rules : rules[q].enabled}}
  <1>1. list \in SUBSET [rule : Rules, enabled : BOOLEAN]
    BY DEF RuleRows
  <1>2. scan' = [scan EXCEPT !.pc = "dispatch", !.listed = list]
    BY DEF ListEnabledRules
  <1>3. \A x \in list : x.enabled /\ x.rule \in RulesOn(rules)
    BY DEF RulesOn, ColumnsAgree, RuleRows
  <1>4. \A r \in RulesOn(rules) : [rule |-> r, enabled |-> TRUE] \in list
    <2>1. \A r \in RulesOn(rules) : rules[r].enabled = TRUE /\ rules[r].config = TRUE
      BY DEF RulesOn, ColumnsAgree, RuleRows
    <2>. QED  BY <2>1 DEF RulesOn
  <1>. HIDE DEF list
  <1>5. /\ scan' \in Scans /\ scan'.pc = "dispatch" /\ scan.pc = "alerts"
        /\ scan'.pend = scan.pend /\ scan'.att = scan.att /\ scan'.pos = scan.pos /\ scan'.fired = scan.fired
        /\ scan'.listed = list /\ UNCHANGED <<rules, watch>>
    BY <1>1, <1>2 DEF ListEnabledRules, Scans, Stages, ListedSets
  <1>6. SignalAtHand'
    BY <1>5 DEF SignalAtHand, Judging, Current, RulesOn
  <1>7. Dispatched'
    BY <1>3, <1>4, <1>5 DEF Dispatched, SignalAtHand, Judging, FiredBefore
  <1>. QED  BY <1>5, <1>6, <1>7 DEF ColumnsAgree, FiredBefore

LEMMA DispatchKeeps ==
    ASSUME FeedInv, NEW x \in scan.listed, Dispatch(x)
    PROVE  FeedInv'
  <1>. USE DEF FeedInv, RuleTypes
  <1>1. Judging /\ scan.pc = "dispatch"
    BY DEF Dispatch, Judging
  <1>2. Current \in AnySignal /\ Current.pos = scan.pos
    BY <1>1, HeadIsSignal
  <1>3. x \in [rule : Rules, enabled : BOOLEAN] /\ x.enabled /\ x.rule \in watch.some
    BY <1>1, ScanFields DEF Dispatched
  <1>. DEFINE out == IF <<x.rule, scan.pos>> \in Matching
                     THEN scan.fired \cup {<<x.rule, Current>>} ELSE scan.fired
  <1>4. scan' = [scan EXCEPT !.listed = scan.listed \ {x}, !.fired = out]
    BY <1>2, <1>3 DEF Dispatch, Matches, Current
  <1>5. out \in SUBSET (Rules \X AnySignal)
    BY <1>2, <1>3, ScanFields
  <1>6. scan.fired \subseteq out
    OBVIOUS
  <1>7. \A f \in out : \/ f \in scan.fired
                       \/ f = <<x.rule, Current>> /\ <<x.rule, scan.pos>> \in Matching
    OBVIOUS
  <1>8. <<x.rule, scan.pos>> \in Matching => <<x.rule, Current>> \in out
    OBVIOUS
  <1>. HIDE DEF out
  <1>9. /\ scan' \in Scans /\ scan'.pc = "dispatch" /\ scan'.pend = scan.pend /\ scan'.att = scan.att
        /\ scan'.pos = scan.pos /\ scan'.fired = out /\ scan'.listed = scan.listed \ {x}
        /\ UNCHANGED <<rules, watch>>
    BY <1>1, <1>4, <1>5 DEF Dispatch, Scans, Stages, FiredSets, ListedSets
  <1>10. SignalAtHand'
    BY <1>1, <1>9 DEF SignalAtHand, Judging, Current, RulesOn
  <1>11. \A f \in out : \/ f[2].pos < scan.pos
                        \/ f[2] = Current /\ f[1] \in watch.some
                           /\ <<f[1], scan.pos>> \in Matching
    BY <1>1, <1>3, <1>7 DEF Dispatched
  <1>12. \A r \in watch.every : <<r, scan.pos>> \in Matching =>
             \/ <<r, Current>> \in out
             \/ [rule |-> r, enabled |-> TRUE] \in scan.listed \ {x}
    <2>. SUFFICES ASSUME NEW r \in watch.every, <<r, scan.pos>> \in Matching,
                         [rule |-> r, enabled |-> TRUE] = x
                  PROVE  <<r, Current>> \in out
      BY <1>1, <1>6 DEF Dispatched
    <2>1. x.rule = r
      OBVIOUS
    <2>. QED  BY <2>1, <1>8
  <1>13. Dispatched'
    BY <1>1, <1>9, <1>11, <1>12 DEF Dispatched, Current
  <1>. QED  BY <1>9, <1>10, <1>13 DEF ColumnsAgree, FiredBefore

LEMMA NextSymbolKeeps == ASSUME FeedInv, NextSymbol PROVE FeedInv'
  <1>. USE DEF FeedInv, RuleTypes
  <1>1. Judging /\ scan.pc = "dispatch"
    BY DEF NextSymbol, Judging
  <1>2. Current.pos = scan.pos
    BY <1>1, HeadIsSignal
  <1>3. /\ scan' \in Scans /\ scan'.pc = "fetch" /\ scan'.fired = scan.fired
        /\ scan'.pos = scan.pos + 1
    BY ScanFields DEF NextSymbol, Scans, Stages
  <1>4. \A f \in scan.fired : f[2].pos < scan.pos \/ f[2].pos = scan.pos
    BY <1>1, <1>2 DEF Dispatched
  <1>5. \A f \in scan'.fired : f[2].pos < scan'.pos
    BY <1>3, <1>4, ScanFields, FiredTypes
  <1>. QED  BY <1>3, <1>5, LeavesJudging DEF NextSymbol

LEMMA EndsKeep == ASSUME FeedInv, Conclude \/ FailScan \/ DropJob PROVE FeedInv'
  <1>. USE DEF FeedInv, RuleTypes
  <1>1. /\ scan' \in Scans /\ scan'.pc \in {"done", "error", "off"} /\ scan'.fired = {}
        /\ watch' \in [some : SUBSET Rules, every : SUBSET Rules] /\ UNCHANGED rules
    <2>1. CASE Conclude
      BY <2>1, EmptyTypes DEF Conclude, Scans, Stages
    <2>2. CASE FailScan
      BY <2>2, EmptyTypes DEF FailScan, Scans, Stages
    <2>3. CASE DropJob
      BY <2>3, EmptyTypes DEF DropJob, Scans, Stages
    <2>. QED  BY <2>1, <2>2, <2>3
  <1>. QED  BY <1>1, LeavesJudging

LEMMA EditKeeps == ASSUME FeedInv, EditRules PROVE FeedInv'
  <1>1. PICK r \in Rules : CreateRule(r) \/ SetEnabled(r) \/ DeleteRule(r)
    BY DEF EditRules
  <1>2. rules[r] \in RuleRows
    BY DEF FeedInv, RuleTypes
  <1>3. CASE CreateRule(r)
    BY <1>3, StoreKeeps DEF CreateRule, RuleRows
  <1>4. CASE SetEnabled(r)
    <2>1. PICK on \in BOOLEAN : StoreRule(r, [rules[r] EXCEPT !.enabled = on, !.config = on])
      BY <1>4 DEF SetEnabled
    <2>. QED  BY <1>2, <2>1, StoreKeeps DEF RuleRows
  <1>5. CASE DeleteRule(r)
    BY <1>5, StoreKeeps DEF DeleteRule, RuleRows, NoRule
  <1>. QED  BY <1>1, <1>3, <1>4, <1>5

LEMMA BrowseKeeps == ASSUME FeedInv, Browse PROVE FeedInv'
  <1>1. UNCHANGED <<scan, rules, watch>>
    BY DEF Browse, OpenStream, FallBackToPolling, Subscribe, BreakStream, Reconnect,
           ReceiveEvent, Poll, YieldPolled, RunEffect, Yields, SetPanel
  <1>. QED  BY <1>1, OthersKeep

LEMMA StepKeeps == ASSUME FeedInv, [Next]_vars PROVE FeedInv'
  <1>1. CASE Execute
    BY <1>1, BeginKeeps, FetchKeeps, SaveKeeps, PublishKeeps, ListKeeps, DispatchKeeps,
       NextSymbolKeeps, EndsKeep DEF Execute
  <1>2. CASE EditRules
    BY <1>2, EditKeeps
  <1>3. CASE ToggleRedis \/ UNCHANGED vars
    BY <1>3, OthersKeep DEF ToggleRedis, vars
  <1>4. CASE Browse
    BY <1>4, BrowseKeeps
  <1>. QED  BY <1>1, <1>2, <1>3, <1>4 DEF Next

LEMMA InvGivesAlerts == ASSUME FeedInv PROVE AlertsFollowRules
  <1>. USE DEF FeedInv, RuleTypes
  <1>. SUFFICES ASSUME scan.pc = "dispatch", scan.listed = {}
                PROVE  LET fits == {r \in Rules : <<r, scan.pos>> \in Matching}
                           got  == {r \in Rules : <<r, Current>> \in scan.fired}
                       IN  /\ watch.every \cap fits \subseteq got
                           /\ got \subseteq watch.some \cap fits
    BY DEF AlertsFollowRules, Current
  <1>1. Current \in AnySignal /\ Current.pos = scan.pos
    BY HeadIsSignal DEF Judging
  <1>2. \A r \in Rules : <<r, Current>> \in scan.fired =>
            r \in watch.some /\ <<r, scan.pos>> \in Matching
    <2>. SUFFICES ASSUME NEW r \in Rules, <<r, Current>> \in scan.fired
                  PROVE  r \in watch.some /\ <<r, scan.pos>> \in Matching
      OBVIOUS
    <2>1. ~(Current.pos < scan.pos)
      BY <1>1, ScanFields
    <2>. QED  BY <2>1 DEF Dispatched
  <1>3. \A r \in watch.every : <<r, scan.pos>> \in Matching => <<r, Current>> \in scan.fired
    BY DEF Dispatched
  <1>. QED  BY <1>2, <1>3

-----------------------------------------------------------------------------
(* Every signal a scan holds against the alert rules fires exactly the     *)
(* rules that fit, among those the page showed as on: all that were on     *)
(* throughout, none that was off throughout (alert_service.evaluate_alerts *)
(* beside the routes of alerts.py).                                        *)
THEOREM AlertsAlwaysFollow == Spec => []AlertsFollowRules
  <1>1. Init => FeedInv
    BY InitFeed
  <1>2. FeedInv /\ [Next]_vars => FeedInv'
    BY StepKeeps
  <1>3. FeedInv => AlertsFollowRules
    BY InvGivesAlerts
  <1>. QED  BY <1>1, <1>2, <1>3, PTL DEF Spec

-----------------------------------------------------------------------------
(* The stream.  A signal may have been published when the scan is past it. *)
Passed(x, now) ==
    \/ x.att < now.att
    \/ /\ x.att = now.att
       /\ \/ x.pos < now.pos
          \/ x.pos = now.pos /\ now.pc \notin {"fetch", "score", "publish"}

(* What the page has not been given yet is newer than what it shows; a     *)
(* current value that is not fresh is in the buffer or beyond it already.  *)
InOrder(inbox, fresh, current, buffer) ==
    /\ inbox \in Seq(AnySignal) /\ current \in AnySignal /\ buffer \in Seq(AnySignal)
    /\ \A i, j \in 1..Len(inbox) : i < j => Newer(inbox[j], inbox[i])
    /\ \A j, k \in 1..Len(buffer) : j < k => Newer(buffer[j], buffer[k])
    /\ \A i \in 1..Len(inbox), k \in 1..Len(buffer) : Newer(inbox[i], buffer[k])
    /\ fresh => /\ \A i \in 1..Len(inbox) : Newer(inbox[i], current)
                /\ \A k \in 1..Len(buffer) : Newer(current, buffer[k])

OnTheWay(inbox, fresh, current, buffer) ==
    {x \in AnySignal : \/ \E i \in 1..Len(inbox) : x = inbox[i]
                       \/ \E k \in 1..Len(buffer) : x = buffer[k]
                       \/ fresh /\ x = current}

PanelFields == {"mode", "inbox", "seen", "todo", "current", "fresh", "buffer", "polled"}
StreamInv ==
    /\ DOMAIN panel = PanelFields
    /\ panel.mode = "poll" => panel.polled
    /\ ~panel.polled =>
          /\ InOrder(panel.inbox, panel.fresh, panel.current, panel.buffer)
          /\ \A x \in OnTheWay(panel.inbox, panel.fresh, panel.current, panel.buffer) :
                x.hit /\ Passed(x, scan)

-----------------------------------------------------------------------------
LEMMA NewerIsTransitive ==
    ASSUME NEW x \in AnySignal, NEW y \in AnySignal, NEW z \in AnySignal,
           Newer(x, y), Newer(y, z)
    PROVE  Newer(x, z)
  BY DEF Newer, AnySignal

(* A scan never goes back.                                                 *)
LEMMA ScanGoesOn ==
    ASSUME RuleTypes, Execute
    PROVE  \A x \in AnySignal : Passed(x, scan) => Passed(x, scan')
  <1>. SUFFICES ASSUME NEW x \in AnySignal, Passed(x, scan)  PROVE Passed(x, scan')
    OBVIOUS
  <1>1. /\ x.att \in Nat /\ x.pos \in Nat /\ scan.att \in Nat /\ scan.pos \in Nat
        /\ scan \in Scans
    BY DEF RuleTypes, Scans, AnySignal
  <1>2. CASE Begin
    <2>1. scan'.att = scan.att + 1
      BY <1>1, <1>2 DEF Begin, Scans
    <2>. QED  BY <1>1, <2>1 DEF Passed
  <1>3. CASE FetchBars
    <2>1. /\ scan'.att = scan.att /\ scan.pc = "fetch"
          /\ scan'.pos = scan.pos \/ scan'.pos = scan.pos + 1
      BY <1>1, <1>3 DEF FetchBars, Scans
    <2>. QED  BY <1>1, <2>1 DEF Passed
  <1>4. CASE SaveSignal
    <2>1. PICK hit \in BOOLEAN : scan' = [scan EXCEPT
                !.pend = <<[att |-> scan.att, pos |-> scan.pos, hit |-> hit]>> \o @,
                !.pc = IF hit THEN "publish" ELSE "fetch",
                !.pos = IF hit THEN @ ELSE @ + 1]
      BY <1>4 DEF SaveSignal
    <2>2. /\ scan'.att = scan.att /\ scan.pc = "score"
          /\ scan'.pos = scan.pos \/ scan'.pos = scan.pos + 1
      BY <1>1, <1>4, <2>1 DEF SaveSignal, Scans
    <2>. QED  BY <1>1, <2>2 DEF Passed
  <1>5. CASE PublishSignal \/ ListEnabledRules \/ \E rule \in scan.listed : Dispatch(rule)
    <2>1. /\ scan'.att = scan.att /\ scan'.pos = scan.pos
          /\ scan'.pc \in {"alerts", "dispatch"}
      BY <1>1, <1>5 DEF PublishSignal, ListEnabledRules, Dispatch, Scans
    <2>. QED  BY <1>1, <2>1 DEF Passed
  <1>6. CASE NextSymbol
    <2>1. scan'.att = scan.att /\ scan'.pos = scan.pos + 1
      BY <1>1, <1>6 DEF NextSymbol, Scans
    <2>. QED  BY <1>1, <2>1 DEF Passed
  <1>7. CASE Conclude \/ FailScan \/ DropJob
    <2>1. /\ scan'.att = scan.att /\ scan'.pos = scan.pos
          /\ scan'.pc \in {"done", "error", "off"}
      BY <1>1, <1>7 DEF Conclude, FailScan, DropJob, Scans
    <2>. QED  BY <1>1, <2>1 DEF Passed
  <1>. QED  BY <1>2, <1>3, <1>4, <1>5, <1>6, <1>7 DEF Execute

(* What only moves from one place to another stays in order.               *)
LEMMA ArrivesLast ==
    ASSUME NEW inbox, NEW fresh \in BOOLEAN, NEW current, NEW buffer,
           InOrder(inbox, fresh, current, buffer), NEW x \in AnySignal,
           \A y \in OnTheWay(inbox, fresh, current, buffer) : Newer(x, y)
    PROVE  /\ InOrder(Append(inbox, x), fresh, current, buffer)
           /\ OnTheWay(Append(inbox, x), fresh, current, buffer)
                \subseteq OnTheWay(inbox, fresh, current, buffer) \cup {x}
  <1>. DEFINE longer == Append(inbox, x)
  <1>. USE DEF InOrder
  <1>1. /\ longer \in Seq(AnySignal) /\ Len(longer) = Len(inbox) + 1 /\ Len(inbox) \in Nat
        /\ \A i \in 1..Len(inbox) : longer[i] = inbox[i] /\ inbox[i] \in AnySignal
        /\ longer[Len(inbox) + 1] = x
        /\ \A k \in 1..Len(buffer) : buffer[k] \in AnySignal
    OBVIOUS
  <1>. HIDE DEF longer
  <1>2. /\ \A i \in 1..Len(inbox) : Newer(x, inbox[i])
        /\ \A k \in 1..Len(buffer) : Newer(x, buffer[k])
        /\ fresh => Newer(x, current)
    BY <1>1 DEF OnTheWay
  <1>3. \A i \in 1..Len(longer) :
           \/ i \in 1..Len(inbox) /\ longer[i] = inbox[i]
           \/ i = Len(inbox) + 1 /\ longer[i] = x
    BY <1>1
  <1>4. \A i, j \in 1..Len(longer) : i < j => Newer(longer[j], longer[i])
    <2>. SUFFICES ASSUME NEW i \in 1..Len(longer), NEW j \in 1..Len(longer), i < j
                  PROVE  Newer(longer[j], longer[i])
      OBVIOUS
    <2>1. i \in 1..Len(inbox) /\ longer[i] = inbox[i]
      BY <1>1
    <2>. QED  BY <1>2, <1>3, <2>1
  <1>5. InOrder(longer, fresh, current, buffer)
    BY <1>1, <1>2, <1>3, <1>4
  <1>6. OnTheWay(longer, fresh, current, buffer)
           \subseteq OnTheWay(inbox, fresh, current, buffer) \cup {x}
    BY <1>3 DEF OnTheWay
  <1>. QED  BY <1>5, <1>6 DEF longer

LEMMA IsGiven ==
    ASSUME NEW inbox, NEW fresh \in BOOLEAN, NEW current, NEW buffer, inbox # <<>>,
           InOrder(inbox, fresh, current, buffer)
    PROVE  /\ InOrder(Tail(inbox), TRUE, Head(inbox), buffer)
           /\ OnTheWay(Tail(inbox), TRUE, Head(inbox), buffer)
                \subseteq OnTheWay(inbox, fresh, current, buffer)
  <1>. USE DEF InOrder
  <1>1. /\ Tail(inbox) \in Seq(AnySignal) /\ Len(Tail(inbox)) = Len(inbox) - 1
        /\ Len(inbox) \in Nat \ {0}
        /\ \A i \in 1..Len(Tail(inbox)) : Tail(inbox)[i] = inbox[i + 1]
        /\ Head(inbox) = inbox[1] /\ inbox[1] \in AnySignal
    OBVIOUS
  <1>2. \A i \in 1..Len(Tail(inbox)) : i + 1 \in 1..Len(inbox) /\ 1 < i + 1
    BY <1>1
  <1>3. 1 \in 1..Len(inbox)
    BY <1>1
  <1>4. InOrder(Tail(inbox), TRUE, Head(inbox), buffer)
    <2>1. \A i, j \in 1..Len(Tail(inbox)) : i < j => Newer(Tail(inbox)[j], Tail(inbox)[i])
      BY <1>1, <1>2
    <2>2. \A i \in 1..Len(Tail(inbox)) : Newer(Tail(inbox)[i], Head(inbox))
      BY <1>1, <1>2, <1>3
    <2>. QED  BY <1>1, <1>2, <1>3, <2>1, <2>2
  <1>5. OnTheWay(Tail(inbox), TRUE, Head(inbox), buffer)
           \subseteq OnTheWay(inbox, fresh, current, buffer)
    BY <1>1, <1>2, <1>3 DEF OnTheWay
  <1>. QED  BY <1>4, <1>5

LEMMA CappedKeeps ==
    ASSUME NEW q \in Seq(AnySignal)
    PROVE  /\ Capped(q) \in Seq(AnySignal) /\ Len(Capped(q)) <= Len(q)
           /\ Len(Capped(q)) \in Nat
           /\ \A k \in 1..Len(Capped(q)) : Capped(q)[k] = q[k]
  <1>1. CASE Len(q) > BufferLimit
    BY <1>1, LiveFeedAssumption DEF Capped
  <1>2. CASE ~(Len(q) > BufferLimit)
    BY <1>2, LiveFeedAssumption DEF Capped
  <1>. QED  BY <1>1, <1>2

LEMMA IsShown ==
    ASSUME NEW inbox, NEW current, NEW buffer, InOrder(inbox, TRUE, current, buffer)
    PROVE  /\ InOrder(inbox, FALSE, current, Push(buffer, current))
           /\ OnTheWay(inbox, FALSE, current, Push(buffer, current))
                \subseteq OnTheWay(inbox, TRUE, current, buffer)
  <1>. USE DEF InOrder
  <1>1. CASE \E k \in DOMAIN buffer : buffer[k] = current
    <2>1. Push(buffer, current) = buffer
      BY <1>1 DEF Push
    <2>. QED  BY <2>1 DEF OnTheWay
  <1>2. CASE ~ \E k \in DOMAIN buffer : buffer[k] = current
    <2>. DEFINE all == <<current>> \o buffer
                new == Capped(all)
    <2>1. /\ all \in Seq(AnySignal) /\ Len(all) = Len(buffer) + 1 /\ Len(buffer) \in Nat
          /\ \A k \in 1..Len(all) : all[k] = IF k = 1 THEN current ELSE buffer[k - 1]
      OBVIOUS
    <2>. HIDE DEF all
    <2>2. /\ new \in Seq(AnySignal) /\ Len(new) <= Len(all) /\ Len(new) \in Nat
          /\ \A k \in 1..Len(new) : new[k] = all[k]
      BY <2>1, CappedKeeps
    <2>. HIDE DEF new
    <2>3. \A k \in 1..Len(new) :
             \/ k = 1 /\ new[k] = current
             \/ k - 1 \in 1..Len(buffer) /\ new[k] = buffer[k - 1]
      BY <2>1, <2>2
    <2>4. \A j, k \in 1..Len(new) : j < k => Newer(new[j], new[k])
      <3>. SUFFICES ASSUME NEW j \in 1..Len(new), NEW k \in 1..Len(new), j < k
                    PROVE  Newer(new[j], new[k])
        OBVIOUS
      <3>1. k - 1 \in 1..Len(buffer) /\ new[k] = buffer[k - 1]
        BY <2>2, <2>3
      <3>2. CASE j = 1 /\ new[j] = current
        BY <3>1, <3>2
      <3>3. CASE j - 1 \in 1..Len(buffer) /\ new[j] = buffer[j - 1]
        BY <3>1, <3>3
      <3>. QED  BY <2>3, <3>2, <3>3
    <2>5. \A i \in 1..Len(inbox), k \in 1..Len(new) : Newer(inbox[i], new[k])
      BY <2>3
    <2>6. InOrder(inbox, FALSE, current, new)
      BY <2>2, <2>4, <2>5
    <2>7. OnTheWay(inbox, FALSE, current, new) \subseteq OnTheWay(inbox, TRUE, current, buffer)
      BY <2>3 DEF OnTheWay
    <2>8. Push(buffer, current) = new
      BY <1>2 DEF Push, new, all
    <2>. QED  BY <2>6, <2>7, <2>8
  <1>. QED  BY <1>1, <1>2

-----------------------------------------------------------------------------
LEMMA InitStream == ASSUME Init PROVE StreamInv
  <1>1. /\ DOMAIN panel = PanelFields /\ panel.mode = "none" /\ panel.inbox = <<>>
        /\ panel.buffer = <<>> /\ panel.current = Nothing /\ panel.fresh = FALSE
    BY DEF Init, PanelFields
  <1>2. Nothing \in AnySignal /\ <<>> \in Seq(AnySignal) /\ Len(<<>>) = 0
    BY DEF Nothing, AnySignal
  <1>3. InOrder(panel.inbox, panel.fresh, panel.current, panel.buffer)
    BY <1>1, <1>2 DEF InOrder
  <1>4. OnTheWay(panel.inbox, panel.fresh, panel.current, panel.buffer) = {}
    BY <1>1, <1>2 DEF OnTheWay
  <1>. QED  BY <1>1, <1>3, <1>4 DEF StreamInv

(* The page moves signals on, and takes none from elsewhere.               *)
LEMMA PanelMoves ==
    ASSUME StreamInv, UNCHANGED scan, DOMAIN panel' = PanelFields,
           panel'.mode = "poll" => panel'.polled,
           ~panel'.polled =>
              /\ ~panel.polled
              /\ InOrder(panel'.inbox, panel'.fresh, panel'.current, panel'.buffer)
              /\ OnTheWay(panel'.inbox, panel'.fresh, panel'.current, panel'.buffer)
                   \subseteq OnTheWay(panel.inbox, panel.fresh, panel.current, panel.buffer)
    PROVE  StreamInv'
  <1>. SUFFICES ASSUME ~panel'.polled,
                       NEW x \in OnTheWay(panel'.inbox, panel'.fresh, panel'.current, panel'.buffer)
                PROVE  x.hit /\ Passed(x, scan)
    BY DEF StreamInv
  <1>. QED  BY DEF StreamInv

(* A page whose list of signals stays as it is.                            *)
LEMMA PanelRests ==
    ASSUME StreamInv, UNCHANGED scan, DOMAIN panel' = PanelFields,
           panel'.mode = "poll" => panel'.polled, panel'.polled \/ ~panel.polled,
           ~panel'.polled => /\ panel'.inbox = panel.inbox /\ panel'.fresh = panel.fresh
                             /\ panel'.current = panel.current
                             /\ panel'.buffer = panel.buffer
    PROVE  StreamInv'
  <1>. SUFFICES ASSUME ~panel'.polled
                PROVE  InOrder(panel.inbox, panel.fresh, panel.current, panel.buffer)
    BY PanelMoves
  <1>. QED  BY DEF StreamInv

LEMMA BreakKeeps == ASSUME StreamInv, BreakStream PROVE StreamInv'
  <1>1. /\ UNCHANGED scan /\ DOMAIN panel' = PanelFields /\ panel'.mode = "broken"
        /\ panel'.inbox = <<>> /\ panel'.polled = panel.polled
        /\ panel'.fresh = panel.fresh /\ panel'.current = panel.current
        /\ panel'.buffer = panel.buffer
    BY DEF BreakStream, SetPanel, StreamInv, PanelFields
  <1>2. <<>> \in Seq(AnySignal) /\ Len(<<>>) = 0
    OBVIOUS
  <1>3. ~panel.polled =>
           /\ InOrder(<<>>, panel.fresh, panel.current, panel.buffer)
           /\ OnTheWay(<<>>, panel.fresh, panel.current, panel.buffer)
                \subseteq OnTheWay(panel.inbox, panel.fresh, panel.current, panel.buffer)
    BY <1>2 DEF StreamInv, InOrder, OnTheWay
  <1>. QED  BY <1>1, <1>3, PanelMoves

LEMMA ReceiveKeeps ==
    ASSUME StreamInv, panel.fresh \in BOOLEAN, ReceiveEvent
    PROVE  StreamInv'
  <1>1. /\ UNCHANGED scan /\ DOMAIN panel' = PanelFields /\ panel'.mode = "sse"
        /\ panel'.inbox = Tail(panel.inbox) /\ panel'.polled = panel.polled
        /\ panel'.fresh = TRUE /\ panel'.current = Head(panel.inbox)
        /\ panel'.buffer = panel.buffer /\ panel.inbox # <<>>
    BY DEF ReceiveEvent, Yields, SetPanel, StreamInv, PanelFields
  <1>2. ~panel.polled =>
           /\ InOrder(Tail(panel.inbox), TRUE, Head(panel.inbox), panel.buffer)
           /\ OnTheWay(Tail(panel.inbox), TRUE, Head(panel.inbox), panel.buffer)
                \subseteq OnTheWay(panel.inbox, panel.fresh, panel.current, panel.buffer)
    BY <1>1, IsGiven DEF StreamInv
  <1>. QED  BY <1>1, <1>2, PanelMoves

LEMMA EffectKeeps ==
    ASSUME StreamInv, panel.fresh \in BOOLEAN, RunEffect
    PROVE  StreamInv'
  <1>1. /\ UNCHANGED scan /\ DOMAIN panel' = PanelFields /\ panel'.mode = panel.mode
        /\ panel'.inbox = panel.inbox /\ panel'.polled = panel.polled
        /\ panel'.fresh = FALSE /\ panel'.current = panel.current
        /\ panel'.buffer = Push(panel.buffer, panel.current) /\ panel.fresh = TRUE
    BY DEF RunEffect, SetPanel, StreamInv, PanelFields
  <1>2. ~panel.polled =>
           /\ InOrder(panel.inbox, FALSE, panel.current, Push(panel.buffer, panel.current))
           /\ OnTheWay(panel.inbox, FALSE, panel.current, Push(panel.buffer, panel.current))
                \subseteq OnTheWay(panel.inbox, TRUE, panel.current, panel.buffer)
    BY <1>1, IsShown DEF StreamInv
  <1>3. panel.mode = "poll" => panel.polled
    BY DEF StreamInv
  <1>. QED  BY <1>1, <1>2, <1>3, PanelMoves

LEMMA BrowseStream ==
    ASSUME StreamInv, panel.fresh \in BOOLEAN, Browse
    PROVE  StreamInv' /\ panel'.fresh \in BOOLEAN
  <1>1. panel'.fresh \in BOOLEAN
    BY DEF Browse, OpenStream, FallBackToPolling, Subscribe, BreakStream, Reconnect,
           ReceiveEvent, Poll, YieldPolled, RunEffect, Yields, SetPanel, StreamInv, PanelFields
  <1>2. CASE OpenStream \/ FallBackToPolling \/ Subscribe \/ Reconnect
    <2>1. /\ UNCHANGED scan /\ DOMAIN panel' = PanelFields
          /\ panel'.mode = "poll" => panel'.polled
          /\ panel'.polled = panel.polled \/ panel'.polled = TRUE
          /\ panel'.inbox = panel.inbox /\ panel'.fresh = panel.fresh
          /\ panel'.current = panel.current /\ panel'.buffer = panel.buffer
      BY <1>2 DEF OpenStream, FallBackToPolling, Subscribe, Reconnect, SetPanel, StreamInv,
                  PanelFields
    <2>. QED  BY <2>1, PanelRests
  <1>3. CASE Poll \/ YieldPolled
    <2>1. /\ UNCHANGED scan /\ DOMAIN panel' = PanelFields
          /\ panel'.polled = panel.polled /\ panel.mode = "poll"
      <3>1. CASE Poll
        <4>1. PICK todo : panel' = [panel EXCEPT !.todo = todo]
          BY <3>1 DEF Poll, SetPanel
        <4>. QED  BY <3>1, <4>1 DEF Poll, SetPanel, StreamInv, PanelFields
      <3>2. CASE YieldPolled
        BY <3>2 DEF YieldPolled, Yields, SetPanel, StreamInv, PanelFields
      <3>. QED  BY <1>3, <3>1, <3>2
    <2>. QED  BY <1>1, <2>1 DEF StreamInv
  <1>. QED
    BY <1>1, <1>2, <1>3, BreakKeeps, ReceiveKeeps, EffectKeeps DEF Browse

LEMMA PublishStream ==
    ASSUME FeedInv, StreamInv, panel.fresh \in BOOLEAN, PublishSignal
    PROVE  StreamInv' /\ panel'.fresh \in BOOLEAN
  <1>. DEFINE way == OnTheWay(panel.inbox, panel.fresh, panel.current, panel.buffer)
  <1>1. /\ Current \in AnySignal /\ Current.pos = scan.pos
        /\ Current.att = scan.att /\ Current.hit
    BY HeadIsSignal DEF FeedInv, PublishSignal, Judging
  <1>2. /\ scan \in Scans /\ scan.att \in Nat /\ scan.pos \in Nat /\ scan.pc = "publish"
        /\ scan'.att = scan.att /\ scan'.pos = scan.pos /\ scan'.pc = "alerts"
    BY DEF FeedInv, RuleTypes, Scans, PublishSignal
  <1>3. \A x \in AnySignal : Passed(x, scan) => Passed(x, scan') /\ Newer(Current, x)
    BY <1>1, <1>2 DEF Passed, Newer, AnySignal
  <1>4. Passed(Current, scan')
    BY <1>1, <1>2 DEF Passed
  <1>5. way \subseteq AnySignal
    BY DEF OnTheWay
  <1>6. CASE panel.mode = "sse"
    <2>1. /\ DOMAIN panel' = PanelFields /\ panel'.mode = "sse"
          /\ panel'.inbox = Append(panel.inbox, Current) /\ panel'.polled = panel.polled
          /\ panel'.fresh = panel.fresh /\ panel'.current = panel.current
          /\ panel'.buffer = panel.buffer
      BY <1>6 DEF PublishSignal, StreamInv, PanelFields, Current
    <2>2. ASSUME ~panel.polled
          PROVE  /\ InOrder(panel'.inbox, panel.fresh, panel.current, panel.buffer)
                 /\ OnTheWay(panel'.inbox, panel.fresh, panel.current, panel.buffer)
                       \subseteq way \cup {Current}
      <3>1. /\ InOrder(panel.inbox, panel.fresh, panel.current, panel.buffer)
            /\ \A x \in way : Newer(Current, x)
        BY <1>3, <1>5, <2>2 DEF StreamInv
      <3>. QED  BY <1>1, <2>1, <3>1, ArrivesLast
    <2>3. ~panel.polled => \A x \in way \cup {Current} : x.hit /\ Passed(x, scan')
      BY <1>1, <1>3, <1>4, <1>5 DEF StreamInv
    <2>. HIDE DEF way
    <2>. QED  BY <2>1, <2>2, <2>3 DEF StreamInv
  <1>7. CASE panel.mode # "sse"
    BY <1>3, <1>5, <1>7 DEF PublishSignal, StreamInv
  <1>. QED  BY <1>6, <1>7

LEMMA StepStream ==
    ASSUME FeedInv, StreamInv, panel.fresh \in BOOLEAN, [Next]_vars
    PROVE  StreamInv' /\ panel'.fresh \in BOOLEAN
  <1>1. CASE Execute
    <2>1. CASE PublishSignal
      BY <2>1, PublishStream
    <2>2. CASE ~PublishSignal
      <3>1. UNCHANGED panel
        BY <1>1, <2>2 DEF Execute, Begin, FetchBars, SaveSignal, ListEnabledRules, Dispatch,
                          NextSymbol, Conclude, FailScan, DropJob
      <3>2. \A x \in AnySignal : Passed(x, scan) => Passed(x, scan')
        BY <1>1, ScanGoesOn DEF FeedInv
      <3>3. OnTheWay(panel.inbox, panel.fresh, panel.current, panel.buffer) \subseteq AnySignal
        BY DEF OnTheWay
      <3>. QED  BY <3>1, <3>2, <3>3 DEF StreamInv
    <2>. QED  BY <2>1, <2>2
  <1>2. CASE EditRules \/ ToggleRedis \/ UNCHANGED vars
    <2>1. UNCHANGED <<scan, panel>>
      BY <1>2 DEF EditRules, CreateRule, SetEnabled, DeleteRule, StoreRule, ToggleRedis, vars
    <2>. QED  BY <2>1 DEF StreamInv
  <1>3. CASE Browse
    BY <1>3, BrowseStream
  <1>. QED  BY <1>1, <1>2, <1>3 DEF Next

LEMMA StreamGivesOrder == ASSUME StreamInv PROVE StreamShowsNewestFirst
  <1>. SUFFICES ASSUME ~panel.polled
                PROVE  /\ \A k \in DOMAIN panel.buffer : panel.buffer[k].hit
                       /\ \A j, k \in DOMAIN panel.buffer :
                             j < k => Newer(panel.buffer[j], panel.buffer[k])
    BY DEF StreamShowsNewestFirst
  <1>1. /\ panel.buffer \in Seq(AnySignal) /\ DOMAIN panel.buffer = 1..Len(panel.buffer)
        /\ \A k \in 1..Len(panel.buffer) : panel.buffer[k] \in AnySignal
    BY DEF StreamInv, InOrder
  <1>2. \A k \in 1..Len(panel.buffer) :
           panel.buffer[k] \in OnTheWay(panel.inbox, panel.fresh, panel.current, panel.buffer)
    BY <1>1 DEF OnTheWay
  <1>. QED  BY <1>1, <1>2 DEF StreamInv, InOrder

(* A page that never polled shows triggered signals only, the newest       *)
(* first, over reconnects, outages, redeliveries of the job and coalesced  *)
(* yields (publish_signal, stream_signals, SignalStream.push).             *)
THEOREM StreamNewestFirst == Spec => []StreamShowsNewestFirst
  <1>. DEFINE Inv == FeedInv /\ StreamInv /\ panel.fresh \in BOOLEAN
  <1>1. Init => Inv
    BY InitFeed, InitStream DEF Init
  <1>2. Inv /\ [Next]_vars => Inv'
    BY StepKeeps, StepStream
  <1>3. Inv => StreamShowsNewestFirst
    BY StreamGivesOrder
  <1>. QED  BY <1>1, <1>2, <1>3, PTL DEF Spec

-----------------------------------------------------------------------------
(* Types.  An execution under way has been counted, and a symbol at hand   *)
(* is one of the universe: so the rows it adds are signals, and what the   *)
(* page is given comes from them.                                          *)
Rows       == Seq(Signals)
Firings    == SUBSET (Rules \X Signals)
Executions == [pc : Stages, att : 0..MaxTries, pos : 1..N + 1, pend : Rows,
               fired : Firings, listed : ListedSets]
ScanTyped ==
    /\ scan \in Executions
    /\ scan.pc # "off" => scan.att >= 1
    /\ scan.pc \in {"score", "publish", "alerts", "dispatch"} => scan.pos <= N
StoreTyped == signals \in Rows /\ events \in Firings

Shown == {q \in Rows : IsInjective(q) /\ Len(q) <= BufferLimit}
Pages == [mode : Modes, inbox : Rows, seen : SUBSET Signals, todo : Rows,
          current : Signals \cup {Nothing}, fresh : BOOLEAN, buffer : Shown,
          polled : BOOLEAN]
PageTyped == panel \in Pages /\ (panel.fresh => panel.current \in Signals)

FeedTyped == ScanTyped /\ StoreTyped /\ PageTyped

LEMMA SetOfRows ==
    ASSUME NEW q \in Rows
    PROVE  ToSet(q) \subseteq Signals
  BY DEF Rows, ToSet

LEMMA TypedGivesTypes == ASSUME FeedInv, FeedTyped PROVE TypeOK
  <1>1. /\ scan.pc \in Stages /\ scan.att \in 0..MaxTries /\ scan.pos \in 1..N + 1
        /\ scan.pend \in Rows /\ scan.fired \in Firings /\ scan.listed \in ListedSets
    BY DEF FeedTyped, ScanTyped, Executions
  <1>2. /\ panel.mode \in Modes /\ panel.current \in Signals \cup {Nothing}
        /\ panel.inbox \in Rows /\ panel.seen \in SUBSET Signals /\ panel.todo \in Rows
        /\ panel.buffer \in Shown
    BY DEF FeedTyped, PageTyped, Pages
  <1>3. /\ panel.buffer \in Rows /\ IsInjective(panel.buffer)
        /\ Len(panel.buffer) <= BufferLimit
    BY <1>2 DEF Shown
  <1>4. signals \in Rows /\ events \in Firings
    BY DEF FeedTyped, StoreTyped
  <1>5. ToSet(scan.pend) \subseteq Signals /\ ToSet(signals) \subseteq Signals
    BY <1>1, <1>4, SetOfRows
  <1>6. /\ ToSet(panel.inbox) \subseteq Signals /\ ToSet(panel.todo) \subseteq Signals
        /\ ToSet(panel.buffer) \subseteq Signals
    BY <1>2, <1>3, SetOfRows
  <1>7. panel.seen \cup ToSet(panel.inbox) \cup ToSet(panel.todo) \subseteq Signals
    BY <1>2, <1>6
  <1>8. /\ scan.fired \subseteq Rules \X Signals /\ events \subseteq Rules \X Signals
        /\ scan.listed \subseteq [rule : Rules, enabled : BOOLEAN]
    BY <1>1, <1>4 DEF Firings, ListedSets
  <1>9. rules \in [Rules -> RuleRows] /\ watch \in [some : SUBSET Rules, every : SUBSET Rules]
    BY DEF FeedInv, RuleTypes
  <1>. QED  BY <1>1, <1>2, <1>3, <1>5, <1>6, <1>7, <1>8, <1>9, Zenon DEF TypeOK

LEMMA EmptyRows == <<>> \in Rows /\ {} \in Firings /\ {} \in ListedSets /\ <<>> \in Shown
  <1>1. <<>> \in Rows /\ {} \in Firings /\ {} \in ListedSets /\ DOMAIN <<>> = {} /\ Len(<<>>) = 0
    BY DEF Rows, Firings, ListedSets
  <1>2. IsInjective(<<>>)
    BY <1>1 DEF IsInjective
  <1>. QED  BY <1>1, <1>2, LiveFeedAssumption DEF Shown

LEMMA InitTyped == ASSUME Init PROVE FeedTyped
  <1>1. scan = [pc |-> "off", att |-> 0, pos |-> 1, pend |-> <<>>, fired |-> {}, listed |-> {}]
    BY DEF Init
  <1>2. 0 \in 0..MaxTries /\ 1 \in 1..N + 1
    BY LiveFeedAssumption
  <1>3. ScanTyped
    BY <1>1, <1>2, EmptyRows DEF ScanTyped, Executions, Stages
  <1>4. StoreTyped
    BY EmptyRows DEF Init, StoreTyped
  <1>5. panel = [mode |-> "none", inbox |-> <<>>, seen |-> {}, todo |-> <<>>,
                 current |-> Nothing, fresh |-> FALSE, buffer |-> <<>>, polled |-> FALSE]
    BY DEF Init
  <1>6. panel \in Pages
    BY <1>5, EmptyRows DEF Pages, Modes
  <1>7. PageTyped
    BY <1>5, <1>6 DEF PageTyped
  <1>. QED  BY <1>3, <1>4, <1>7 DEF FeedTyped

LEMMA ExecutionFields ==
    ASSUME ScanTyped
    PROVE  /\ scan.pc \in Stages /\ scan.att \in 0..MaxTries /\ scan.pos \in 1..N + 1
           /\ scan.att \in Nat /\ scan.pos \in Nat
           /\ scan.pend \in Rows /\ scan.fired \in Firings /\ scan.listed \in ListedSets
  <1>1. /\ scan.pc \in Stages /\ scan.att \in 0..MaxTries /\ scan.pos \in 1..N + 1
        /\ scan.pend \in Rows /\ scan.fired \in Firings /\ scan.listed \in ListedSets
    BY DEF ScanTyped, Executions
  <1>. QED  BY <1>1, LiveFeedAssumption

(* The signal at hand is one of the run's.                                 *)
LEMMA RowAtHand ==
    ASSUME FeedInv, ScanTyped, Judging
    PROVE  Head(scan.pend) \in Signals
  <1>1. scan.pend \in Seq(Signals) /\ scan.pend # <<>>
    BY ExecutionFields DEF FeedInv, SignalAtHand, Rows
  <1>. QED  BY <1>1

LEMMA CommitTyped ==
    ASSUME ScanTyped, StoreTyped, CommitRows
    PROVE  StoreTyped'
  <1>1. scan.pend \in Rows /\ scan.fired \in Firings /\ signals \in Rows /\ events \in Firings
    BY ExecutionFields DEF StoreTyped
  <1>2. scan.pend \o signals \in Rows
    BY <1>1 DEF Rows
  <1>3. events \cup scan.fired \in Firings
    BY <1>1 DEF Firings
  <1>. QED  BY <1>2, <1>3 DEF StoreTyped, CommitRows

LEMMA ExecuteTyped ==
    ASSUME FeedInv, ScanTyped, StoreTyped, Execute
    PROVE  ScanTyped' /\ StoreTyped'
  <1>1. CASE Begin
    <2>1. scan' = [scan EXCEPT !.pc = "fetch", !.att = scan.att + 1, !.pos = 1]
          /\ scan.att < MaxTries /\ UNCHANGED <<signals, events>>
      BY <1>1 DEF Begin
    <2>2. scan.att + 1 \in 0..MaxTries /\ 1 \in 1..N + 1 /\ scan.att + 1 >= 1
      BY <2>1, ExecutionFields, LiveFeedAssumption
    <2>3. /\ scan' \in Executions /\ scan'.pc = "fetch" /\ scan'.att = scan.att + 1
      BY <2>1, <2>2, ExecutionFields DEF ScanTyped, Executions, Stages
    <2>. QED  BY <2>1, <2>2, <2>3 DEF ScanTyped, StoreTyped
  <1>2. CASE FetchBars
    <2>1. scan.pc = "fetch" /\ scan.pos <= N /\ scan.att >= 1
      BY <1>2 DEF FetchBars, ScanTyped
    <2>2. CASE CommitRows /\ scan' = [scan EXCEPT !.pc = "score", !.pend = <<>>, !.fired = {}]
      <3>1. /\ scan' \in Executions /\ scan'.att = scan.att /\ scan'.pos = scan.pos
        BY <2>2, EmptyRows DEF ScanTyped, Executions, Stages
      <3>. QED  BY <2>1, <2>2, <3>1, CommitTyped DEF ScanTyped
    <2>3. CASE scan' = [scan EXCEPT !.pos = scan.pos + 1] /\ UNCHANGED <<signals, events>>
      <3>1. scan.pos + 1 \in 1..N + 1
        BY <2>1, ExecutionFields, LiveFeedAssumption
      <3>2. /\ scan' \in Executions /\ scan'.att = scan.att /\ scan'.pc = "fetch"
        BY <2>1, <2>3, <3>1 DEF ScanTyped, Executions
      <3>. QED  BY <2>1, <2>3, <3>2 DEF ScanTyped, StoreTyped
    <2>. QED  BY <1>2, <2>2, <2>3 DEF FetchBars
  <1>3. CASE SaveSignal
    <2>1. PICK hit \in BOOLEAN : scan' = [scan EXCEPT
                !.pend = <<[att |-> scan.att, pos |-> scan.pos, hit |-> hit]>> \o @,
                !.pc = IF hit THEN "publish" ELSE "fetch",
                !.pos = IF hit THEN @ ELSE @ + 1]
      BY <1>3 DEF SaveSignal
    <2>2. scan.pc = "score" /\ scan.pos <= N /\ scan.att >= 1 /\ UNCHANGED <<signals, events>>
      BY <1>3 DEF SaveSignal, ScanTyped
    <2>3. scan.att \in 1..MaxTries /\ scan.pos \in 1..N /\ scan.pos + 1 \in 1..N + 1
      BY <2>2, ExecutionFields, LiveFeedAssumption
    <2>. DEFINE row == <<[att |-> scan.att, pos |-> scan.pos, hit |-> hit]>> \o scan.pend
                at  == IF hit THEN scan.pos ELSE scan.pos + 1
                pc  == IF hit THEN "publish" ELSE "fetch"
    <2>4. row \in Rows
      <3>1. [att |-> scan.att, pos |-> scan.pos, hit |-> hit] \in Signals
        BY <2>3 DEF Signals
      <3>2. scan.pend \in Seq(Signals)
        BY ExecutionFields DEF Rows
      <3>. QED  BY <3>1, <3>2 DEF Rows
    <2>5. at \in 1..N + 1 /\ pc \in Stages /\ (pc = "publish" => at <= N) /\ pc \in {"publish", "fetch"}
      BY <2>2, <2>3, ExecutionFields DEF Stages
    <2>6. scan' = [scan EXCEPT !.pend = row, !.pc = pc, !.pos = at]
      BY <2>1
    <2>. HIDE DEF row, at, pc
    <2>7. scan' \in Executions /\ scan'.att = scan.att /\ scan'.pc = pc /\ scan'.pos = at
      BY <2>4, <2>5, <2>6 DEF ScanTyped, Executions
    <2>. QED  BY <2>2, <2>5, <2>7 DEF ScanTyped, StoreTyped
  <1>4. CASE PublishSignal \/ ListEnabledRules
    <2>1. CASE PublishSignal
      <3>1. /\ scan' \in Executions /\ scan'.att = scan.att /\ scan'.pos = scan.pos
        BY <2>1 DEF PublishSignal, ScanTyped, Executions, Stages
      <3>. QED  BY <2>1, <3>1 DEF PublishSignal, ScanTyped, StoreTyped
    <2>2. CASE ListEnabledRules
      <3>1. PICK list : list = {[rule |-> r, enabled |-> rules[r].config] :
                                   r \in {q \in Rules : rules[q].enabled}}
        OBVIOUS
      <3>2. list \in ListedSets
        BY <3>1 DEF ListedSets, FeedInv, RuleTypes, RuleRows
      <3>3. scan' = [scan EXCEPT !.pc = "dispatch", !.listed = list]
        BY <2>2, <3>1 DEF ListEnabledRules
      <3>4. /\ scan' \in Executions /\ scan'.att = scan.att /\ scan'.pos = scan.pos
        BY <3>2, <3>3 DEF ScanTyped, Executions, Stages
      <3>. QED  BY <2>2, <3>4 DEF ListEnabledRules, ScanTyped, StoreTyped
    <2>. QED  BY <1>4, <2>1, <2>2
  <1>5. CASE \E rule \in scan.listed : Dispatch(rule)
    <2>1. PICK x \in scan.listed : Dispatch(x)
      BY <1>5
    <2>2. x.rule \in Rules
      BY ExecutionFields DEF ListedSets
    <2>3. Head(scan.pend) \in Signals /\ scan.pc = "dispatch"
      BY <2>1, RowAtHand DEF Dispatch, Judging
    <2>4. PICK out : out = IF Matches(x, Head(scan.pend))
                           THEN scan.fired \cup {<<x.rule, Head(scan.pend)>>} ELSE scan.fired
      OBVIOUS
    <2>5. out \in Firings
      BY <2>2, <2>3, <2>4, ExecutionFields DEF Firings
    <2>6. scan.listed \ {x} \in ListedSets
      BY ExecutionFields DEF ListedSets
    <2>7. scan' = [scan EXCEPT !.listed = scan.listed \ {x}, !.fired = out]
      BY <2>1, <2>4 DEF Dispatch
    <2>8. /\ scan' \in Executions /\ scan'.att = scan.att /\ scan'.pos = scan.pos
          /\ scan'.pc = scan.pc
      BY <2>5, <2>6, <2>7 DEF ScanTyped, Executions
    <2>. QED  BY <2>1, <2>8 DEF Dispatch, ScanTyped, StoreTyped
  <1>6. CASE NextSymbol
    <2>1. scan.pc = "dispatch" /\ scan.pos <= N /\ scan.att >= 1
      BY <1>6 DEF NextSymbol, ScanTyped
    <2>2. scan.pos + 1 \in 1..N + 1
      BY <2>1, ExecutionFields, LiveFeedAssumption
    <2>3. scan' = [scan EXCEPT !.pc = "fetch", !.pos = scan.pos + 1]
      BY <1>6 DEF NextSymbol
    <2>4. scan' \in Executions /\ scan'.att = scan.att /\ scan'.pc = "fetch"
      BY <2>2, <2>3 DEF ScanTyped, Executions, Stages
    <2>. QED  BY <1>6, <2>1, <2>4 DEF NextSymbol, ScanTyped, StoreTyped
  <1>7. CASE Conclude \/ FailScan
    <2>1. PICK end \in {"done", "error"} :
             scan' = [scan EXCEPT !.pc = end, !.pend = <<>>, !.fired = {}]
      BY <1>7 DEF Conclude, FailScan
    <2>2. scan.att >= 1 /\ CommitRows
      BY <1>7 DEF Conclude, FailScan, ScanTyped
    <2>3. /\ scan' \in Executions /\ scan'.att = scan.att /\ scan'.pc = end
      BY <2>1, EmptyRows DEF ScanTyped, Executions, Stages
    <2>. QED  BY <2>2, <2>3, CommitTyped DEF ScanTyped
  <1>8. CASE DropJob
    <2>1. scan' \in Executions /\ scan'.pc = "off"
      BY <1>8, EmptyRows DEF DropJob, ScanTyped, Executions, Stages
    <2>. QED  BY <1>8, <2>1 DEF DropJob, ScanTyped, StoreTyped
  <1>. QED  BY <1>1, <1>2, <1>3, <1>4, <1>5, <1>6, <1>7, <1>8 DEF Execute

(* The buffer has room for what Push leaves in it, once each.              *)
LEMMA PushTyped ==
    ASSUME NEW buffer \in Shown, NEW s \in Signals
    PROVE  Push(buffer, s) \in Shown
  <1>1. CASE \E k \in DOMAIN buffer : buffer[k] = s
    BY <1>1 DEF Push
  <1>2. CASE ~ \E k \in DOMAIN buffer : buffer[k] = s
    <2>. DEFINE all == <<s>> \o buffer
                top == IF Len(all) > BufferLimit THEN BufferLimit ELSE Len(all)
                new == SubSeq(all, 1, top)
    <2>1. buffer \in Seq(Signals) /\ IsInjective(buffer)
      BY DEF Shown, Rows
    <2>2. /\ all \in Seq(Signals) /\ Len(all) = Len(buffer) + 1 /\ Len(buffer) \in Nat
          /\ \A k \in 1..Len(all) : all[k] = IF k = 1 THEN s ELSE buffer[k - 1]
      BY <2>1
    <2>3. top \in Nat /\ top <= Len(all) /\ top <= BufferLimit
      BY <2>2, LiveFeedAssumption
    <2>4. Push(buffer, s) = new
      BY <1>2 DEF Push, Capped
    <2>. HIDE DEF all, top
    <2>5. /\ new \in Seq(Signals) /\ Len(new) = top /\ DOMAIN new = 1..top
          /\ \A k \in 1..top : new[k] = all[k]
      BY <2>2, <2>3
    <2>. HIDE DEF new
    <2>6. \A k \in 1..top : \/ k = 1 /\ new[k] = s
                            \/ k # 1 /\ k - 1 \in DOMAIN buffer /\ new[k] = buffer[k - 1]
      BY <2>1, <2>2, <2>3, <2>5
    <2>7. \A j, k \in 1..top : new[j] = new[k] => j = k
      <3>. SUFFICES ASSUME NEW j \in 1..top, NEW k \in 1..top, new[j] = new[k]
                    PROVE  j = k
        OBVIOUS
      <3>1. CASE j = 1 \/ k = 1
        BY <1>2, <2>6, <3>1
      <3>2. CASE j # 1 /\ k # 1
        <4>1. /\ j - 1 \in DOMAIN buffer /\ k - 1 \in DOMAIN buffer
              /\ buffer[j - 1] = buffer[k - 1]
          BY <2>6, <3>2
        <4>2. j - 1 = k - 1
          BY <2>1, <4>1 DEF IsInjective
        <4>. QED  BY <2>3, <4>2
      <3>. QED  BY <3>1, <3>2
    <2>8. IsInjective(new)
      BY <2>5, <2>7 DEF IsInjective
    <2>. QED  BY <2>3, <2>4, <2>5, <2>8 DEF Shown, Rows
  <1>. QED  BY <1>1, <1>2

LEMMA PageFields ==
    ASSUME PageTyped
    PROVE  /\ panel.mode \in Modes /\ panel.inbox \in Rows /\ panel.seen \in SUBSET Signals
           /\ panel.todo \in Rows /\ panel.current \in Signals \cup {Nothing}
           /\ panel.fresh \in BOOLEAN /\ panel.buffer \in Shown /\ panel.polled \in BOOLEAN
           /\ panel.fresh => panel.current \in Signals
  BY DEF PageTyped, Pages

LEMMA HeadAndTail ==
    ASSUME NEW q \in Rows, q # <<>>
    PROVE  Head(q) \in Signals /\ Tail(q) \in Rows
  BY DEF Rows

LEMMA ListedRows == ASSUME StoreTyped PROVE ListSignals \in Rows
  <1>1. signals \in Seq(Signals) /\ Len(signals) \in Nat /\ ListLimit \in Nat
    BY LiveFeedAssumption DEF StoreTyped, Rows
  <1>. DEFINE top == IF Len(signals) > ListLimit THEN ListLimit ELSE Len(signals)
  <1>2. top \in Nat /\ top <= Len(signals)
    BY <1>1
  <1>3. ListSignals = SubSeq(signals, 1, top)
    BY DEF ListSignals
  <1>. HIDE DEF top
  <1>. QED  BY <1>1, <1>2, <1>3 DEF Rows

LEMMA BrowseTyped ==
    ASSUME StoreTyped, PageTyped, Browse
    PROVE  PageTyped'
  <1>1. CASE OpenStream \/ FallBackToPolling \/ Subscribe \/ Reconnect \/ BreakStream
    <2>1. /\ panel' \in Pages /\ panel'.fresh = panel.fresh /\ panel'.current = panel.current
      BY <1>1, EmptyRows DEF OpenStream, FallBackToPolling, Subscribe, Reconnect, BreakStream,
                             SetPanel, PageTyped, Pages, Modes
    <2>. QED  BY <2>1 DEF PageTyped
  <1>2. CASE ReceiveEvent
    <2>1. panel' = [panel EXCEPT !.inbox = Tail(panel.inbox), !.current = Head(panel.inbox),
                                 !.fresh = TRUE]
      BY <1>2 DEF ReceiveEvent, Yields, SetPanel, PageTyped, Pages
    <2>2. Head(panel.inbox) \in Signals /\ Tail(panel.inbox) \in Rows
      BY <1>2, PageFields, HeadAndTail DEF ReceiveEvent
    <2>3. panel' \in Pages /\ panel'.current = Head(panel.inbox)
      BY <2>1, <2>2 DEF PageTyped, Pages
    <2>. QED  BY <2>2, <2>3 DEF PageTyped
  <1>3. CASE Poll
    <2>1. panel' = [panel EXCEPT !.todo = ListSignals]
      BY <1>3 DEF Poll, SetPanel
    <2>2. panel' \in Pages /\ panel'.current = panel.current /\ panel'.fresh = panel.fresh
      BY <2>1, ListedRows DEF PageTyped, Pages
    <2>. QED  BY <2>2 DEF PageTyped
  <1>4. CASE YieldPolled
    <2>1. PICK k \in DOMAIN panel.todo :
             Yields([panel EXCEPT !.todo = SubSeq(@, k + 1, Len(@)),
                                  !.seen = @ \cup {panel.todo[k]}], panel.todo[k])
      BY <1>4 DEF YieldPolled
    <2>. DEFINE rest == SubSeq(panel.todo, k + 1, Len(panel.todo))
                more == panel.seen \cup {panel.todo[k]}
    <2>2. panel.todo \in Seq(Signals)
      BY PageFields DEF Rows
    <2>3. panel.todo[k] \in Signals /\ rest \in Seq(Signals)
      BY <2>2
    <2>4. more \in SUBSET Signals
      BY <2>3, PageFields
    <2>5. panel' = [panel EXCEPT !.todo = rest, !.seen = more, !.current = panel.todo[k],
                                 !.fresh = TRUE]
      BY <2>1 DEF Yields, SetPanel, PageTyped, Pages
    <2>. HIDE DEF rest, more
    <2>6. panel' \in Pages /\ panel'.current = panel.todo[k]
      BY <2>3, <2>4, <2>5 DEF PageTyped, Pages, Rows
    <2>. QED  BY <2>3, <2>6 DEF PageTyped
  <1>5. CASE RunEffect
    <2>1. panel.current \in Signals
      BY <1>5, PageFields DEF RunEffect
    <2>2. Push(panel.buffer, panel.current) \in Shown
      BY <2>1, PageFields, PushTyped
    <2>3. panel' = [panel EXCEPT !.fresh = FALSE,
                                 !.buffer = Push(panel.buffer, panel.current)]
      BY <1>5 DEF RunEffect, SetPanel
    <2>4. panel' \in Pages /\ panel'.fresh = FALSE
      BY <2>2, <2>3 DEF PageTyped, Pages
    <2>. QED  BY <2>4 DEF PageTyped
  <1>. QED  BY <1>1, <1>2, <1>3, <1>4, <1>5 DEF Browse

LEMMA PublishTyped ==
    ASSUME FeedInv, ScanTyped, PageTyped, PublishSignal
    PROVE  PageTyped'
  <1>1. Head(scan.pend) \in Signals
    BY RowAtHand DEF PublishSignal, Judging
  <1>2. Append(panel.inbox, Head(scan.pend)) \in Rows
    BY <1>1, PageFields DEF Rows
  <1>3. CASE panel.mode = "sse"
    <2>1. panel' = [panel EXCEPT !.inbox = Append(panel.inbox, Head(scan.pend))]
      BY <1>3 DEF PublishSignal
    <2>2. panel' \in Pages /\ panel'.current = panel.current /\ panel'.fresh = panel.fresh
      BY <1>2, <2>1 DEF PageTyped, Pages
    <2>. QED  BY <2>2 DEF PageTyped
  <1>4. CASE panel.mode # "sse"
    BY <1>4 DEF PublishSignal, PageTyped
  <1>. QED  BY <1>3, <1>4

LEMMA StepTyped == ASSUME FeedInv, FeedTyped, [Next]_vars PROVE FeedTyped'
  <1>. USE DEF FeedTyped
  <1>1. CASE Execute
    <2>1. CASE PublishSignal
      BY <1>1, <2>1, ExecuteTyped, PublishTyped
    <2>2. CASE ~PublishSignal
      <3>1. UNCHANGED panel
        BY <1>1, <2>2 DEF Execute, Begin, FetchBars, SaveSignal, ListEnabledRules, Dispatch,
                          NextSymbol, Conclude, FailScan, DropJob
      <3>. QED  BY <1>1, <3>1, ExecuteTyped DEF PageTyped
    <2>. QED  BY <2>1, <2>2
  <1>2. CASE EditRules \/ ToggleRedis \/ UNCHANGED vars
    <2>1. UNCHANGED <<scan, signals, events, panel>>
      BY <1>2 DEF EditRules, CreateRule, SetEnabled, DeleteRule, StoreRule, ToggleRedis, vars
    <2>. QED  BY <2>1 DEF ScanTyped, StoreTyped, PageTyped
  <1>3. CASE Browse
    <2>1. UNCHANGED <<scan, signals, events>>
      BY <1>3 DEF Browse, OpenStream, FallBackToPolling, Subscribe, BreakStream, Reconnect,
                  ReceiveEvent, Poll, YieldPolled, RunEffect, Yields, SetPanel
    <2>. QED  BY <1>3, <2>1, BrowseTyped DEF ScanTyped, StoreTyped
  <1>. QED  BY <1>1, <1>2, <1>3 DEF Next

(* Rows, alert events and the page keep their types; the page's buffer     *)
(* never holds a signal twice nor more signals than it has room for,       *)
(* however often the same rows are yielded to it (SignalStream.push).      *)
THEOREM FeedTypeCorrect == Spec => []TypeOK
  <1>1. Init => FeedInv /\ FeedTyped
    BY InitFeed, InitTyped
  <1>2. FeedInv /\ FeedTyped /\ [Next]_vars => (FeedInv /\ FeedTyped)'
    BY StepKeeps, StepTyped
  <1>3. FeedInv /\ FeedTyped => TypeOK
    BY TypedGivesTypes
  <1>. QED  BY <1>1, <1>2, <1>3, PTL DEF Spec

==============================================================================
