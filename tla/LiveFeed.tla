------------------------------- MODULE LiveFeed -------------------------------
(***************************************************************************)
(* What a scan tells the outside while it runs: every triggered signal is  *)
(* published on a Redis channel that the API relays as server-sent events, *)
(* and is held against the alert rules, which the user edits meanwhile.    *)
(* The results page keeps the signals it is sent in a capped buffer, and   *)
(* polls the stored signals when the stream cannot be opened.              *)
(*                                                                         *)
(* Here one run is executed, again when its worker died.  A session that a *)
(* database error left unusable is the subject of ScanRuns.                *)
(***************************************************************************)
EXTENDS Naturals, SequencesExt

CONSTANTS
    N,              \* length of the run's universe (its symbols, by position)
    Rules,          \* alert rules the user may create
    Matching,       \* pairs <<rule, position>>: the rule's filters fit the signal
    ListLimit,      \* rows list_signals returns at most
    BufferLimit,    \* signals the page keeps at most
    MaxTries        \* bound: executions of the run

ASSUME LiveFeedAssumption ==
    /\ N \in Nat /\ MaxTries \in Nat /\ ListLimit \in Nat /\ BufferLimit \in Nat
    /\ Matching \subseteq Rules \X (1..N)

VARIABLES
    scan,           \* the execution: pc, attempt, position, session, rules read
    signals,        \* committed signal rows, newest first
    events,         \* committed alert events
    redis,          \* is Redis up
    rules,          \* the alert_rules table
    watch,          \* history: the rules that were on at some moment, and at
                    \* every moment, since the current signal was built
    panel           \* the results page and the generator that feeds it
vars == <<scan, signals, events, redis, rules, watch, panel>>

Signals == [att : 1..MaxTries, pos : 1..N, hit : BOOLEAN]
Nothing == [att |-> 0, pos |-> 0, hit |-> FALSE]
Newer(s, t) == s.att > t.att \/ (s.att = t.att /\ s.pos > t.pos)

NoRule == [enabled |-> FALSE, config |-> FALSE, stored |-> FALSE]
(* The rules the alerts page shows as on.                                  *)
RulesOn(table) == {r \in Rules : table[r].config}

Init ==
    /\ scan = [pc |-> "off", att |-> 0, pos |-> 1, pend |-> <<>>, fired |-> {}, listed |-> {}]
    /\ signals = <<>>
    /\ events = {}
    /\ redis = TRUE
    /\ rules = [r \in Rules |-> NoRule]
    /\ watch = [some |-> {}, every |-> {}]
    /\ panel = [mode |-> "none", inbox |-> <<>>, seen |-> {}, todo |-> <<>>,
                current |-> Nothing, fresh |-> FALSE, buffer |-> <<>>, polled |-> FALSE]

-----------------------------------------------------------------------------
(* execute_scan, as far as it sends and stores signals.                    *)

Begin ==
    /\ scan.pc = "off" /\ scan.att < MaxTries
    /\ scan' = [scan EXCEPT !.pc = "fetch", !.att = @ + 1, !.pos = 1]
    /\ UNCHANGED <<signals, events, redis, rules, watch, panel>>

CommitRows ==
    /\ signals' = scan.pend \o signals
    /\ events' = events \cup scan.fired

(* Bars arrive, or none; storing them commits the rows of earlier symbols. *)
FetchBars ==
    /\ scan.pc = "fetch" /\ scan.pos <= N
    /\ \/ /\ CommitRows
          /\ scan' = [scan EXCEPT !.pc = "score", !.pend = <<>>, !.fired = {}]
       \/ /\ scan' = [scan EXCEPT !.pos = @ + 1]
          /\ UNCHANGED <<signals, events>>
    /\ UNCHANGED <<redis, rules, watch, panel>>

(* The symbol is scored; save_signal adds a row whether it triggered or not. *)
SaveSignal ==
    /\ scan.pc = "score"
    /\ \E hit \in BOOLEAN :
          /\ scan' = [scan EXCEPT
                !.pend = <<[att |-> scan.att, pos |-> scan.pos, hit |-> hit]>> \o @,
                !.pc = IF hit THEN "publish" ELSE "fetch",
                !.pos = IF hit THEN @ ELSE @ + 1]
          /\ watch' = IF hit THEN [some |-> RulesOn(rules), every |-> RulesOn(rules)] ELSE watch
    /\ UNCHANGED <<signals, events, redis, rules, panel>>

(* Redis hands a message to who is subscribed at that moment and forgets it. *)
PublishSignal ==
    /\ scan.pc = "publish" /\ redis
    /\ scan' = [scan EXCEPT !.pc = "alerts"]
    /\ panel' = IF panel.mode = "sse"
                THEN [panel EXCEPT !.inbox = Append(@, Head(scan.pend))] ELSE panel
    /\ UNCHANGED <<signals, events, redis, rules, watch>>

(* evaluate_alerts reads the enabled rules once for this signal ...         *)
ListEnabledRules ==
    /\ scan.pc = "alerts"
    /\ scan' = [scan EXCEPT !.pc = "dispatch",
                            !.listed = {[rule |-> r, enabled |-> rules[r].config] :
                                           r \in {q \in Rules : rules[q].enabled}}]
    /\ UNCHANGED <<signals, events, redis, rules, watch, panel>>

Matches(rule, signal) == rule.enabled /\ <<rule.rule, signal.pos>> \in Matching

(* ... and dispatches those that match, a request of up to 8 s each.       *)
Dispatch(rule) ==
    /\ scan.pc = "dispatch" /\ rule \in scan.listed
    /\ scan' = [scan EXCEPT !.listed = @ \ {rule},
                            !.fired = IF Matches(rule, Head(scan.pend))
                                      THEN @ \cup {<<rule.rule, Head(scan.pend)>>} ELSE @]
    /\ UNCHANGED <<signals, events, redis, rules, watch, panel>>

NextSymbol ==
    /\ scan.pc = "dispatch" /\ scan.listed = {}
    /\ scan' = [scan EXCEPT !.pc = "fetch", !.pos = @ + 1]
    /\ watch' = [some |-> {}, every |-> {}]
    /\ UNCHANGED <<signals, events, redis, rules, panel>>

(* The whole universe is done: the last rows, then the status.             *)
Conclude ==
    /\ scan.pc = "fetch" /\ scan.pos > N
    /\ CommitRows
    /\ scan' = [scan EXCEPT !.pc = "done", !.pend = <<>>, !.fired = {}]
    /\ UNCHANGED <<redis, rules, watch, panel>>

(* A source, the scanner or Redis raises: set_run_status("error") commits  *)
(* what the session holds.                                                 *)
FailScan ==
    /\ \/ scan.pc = "fetch" /\ scan.pos <= N
       \/ scan.pc = "score"
       \/ scan.pc = "publish" /\ ~redis
    /\ CommitRows
    /\ scan' = [scan EXCEPT !.pc = "error", !.pend = <<>>, !.fired = {}]
    /\ UNCHANGED <<redis, rules, watch, panel>>

(* The worker dies with its session; arq delivers the job again.           *)
DropJob ==
    /\ scan.pc \notin {"off", "done", "error"}
    /\ scan' = [scan EXCEPT !.pc = "off", !.pend = <<>>, !.fired = {}, !.listed = {}]
    /\ watch' = [some |-> {}, every |-> {}]
    /\ UNCHANGED <<signals, events, redis, rules, panel>>

ToggleRedis ==
    /\ redis' = ~redis
    /\ UNCHANGED <<scan, signals, events, rules, watch, panel>>

-----------------------------------------------------------------------------
(* The alerts page edits the rules.                                        *)

StoreRule(r, row) ==
    /\ rules' = [rules EXCEPT ![r] = row]
    /\ watch' = IF scan.pc \in {"publish", "alerts", "dispatch"}
                THEN [some  |-> watch.some \cup RulesOn(rules'),
                      every |-> watch.every \cap RulesOn(rules')]
                ELSE watch
    /\ UNCHANGED <<scan, signals, events, redis, panel>>

CreateRule(r) ==
    /\ ~rules[r].stored
    /\ StoreRule(r, [enabled |-> TRUE, config |-> TRUE, stored |-> TRUE])

(* Mutant: only the column changes, not the rule in config.                *)
SetEnabledColumn(r) ==
    /\ rules[r].stored
    /\ \E on \in BOOLEAN : StoreRule(r, [rules[r] EXCEPT !.enabled = on])

SetEnabled(r) ==
    /\ rules[r].stored
    /\ \E on \in BOOLEAN : StoreRule(r, [rules[r] EXCEPT !.enabled = on, !.config = on])

DeleteRule(r) ==
    /\ rules[r].stored
    /\ StoreRule(r, NoRule)

-----------------------------------------------------------------------------
(* GET /stream/signals and /signals.                                       *)

(* Mutant: the oldest rows first.                                          *)
ListSignalsOldest == LET n == Len(signals) IN
    Reverse(SubSeq(signals, IF n > ListLimit THEN n - ListLimit + 1 ELSE 1, n))

ListSignals == SubSeq(signals, 1, IF Len(signals) > ListLimit THEN ListLimit ELSE Len(signals))

SetPanel(p) == panel' = p /\ UNCHANGED <<scan, signals, events, redis, rules, watch>>

(* The endpoint answers 200 before its generator subscribes; only a request *)
(* that fails or is refused makes streamSignals poll.                      *)
OpenStream ==
    /\ panel.mode = "none"
    /\ SetPanel([panel EXCEPT !.mode = "open"])

FallBackToPolling ==
    /\ panel.mode = "none"
    /\ SetPanel([panel EXCEPT !.mode = "poll", !.polled = TRUE])

Subscribe ==
    /\ panel.mode = "open"
    /\ SetPanel([panel EXCEPT !.mode = IF redis THEN "sse" ELSE "broken"])

(* Without Redis listen raises in the middle of the answer.                *)
BreakStream ==
    /\ panel.mode = "sse" /\ ~redis
    /\ SetPanel([panel EXCEPT !.mode = "broken", !.inbox = <<>>])

(* The page's live query runs its generator anew.                          *)
Reconnect ==
    /\ panel.mode = "broken"
    /\ SetPanel([panel EXCEPT !.mode = "none"])

(* A value the generator yields replaces the query's current one.          *)
Yields(p, s) == SetPanel([p EXCEPT !.current = s, !.fresh = TRUE])

ReceiveEvent ==
    /\ panel.mode = "sse" /\ panel.inbox # <<>>
    /\ Yields([panel EXCEPT !.inbox = Tail(@)], Head(panel.inbox))

(* pollSignals: every two seconds, what is listed is gone through in order *)
(* and every row that was not seen before is yielded.                      *)
Poll ==
    /\ panel.mode = "poll" /\ ToSet(panel.todo) \subseteq panel.seen
    /\ SetPanel([panel EXCEPT !.todo = ListSignals])

YieldPolled ==
    /\ panel.mode = "poll"
    /\ \E k \in DOMAIN panel.todo :
          /\ panel.todo[k] \notin panel.seen
          /\ \A j \in 1..(k - 1) : panel.todo[j] \in panel.seen
          /\ Yields([panel EXCEPT !.todo = SubSeq(@, k + 1, Len(@)),
                                  !.seen = @ \cup {panel.todo[k]}], panel.todo[k])

(* Mutants of SignalStream.push: at the end; and whatever is there already. *)
Capped(q) == SubSeq(q, 1, IF Len(q) > BufferLimit THEN BufferLimit ELSE Len(q))
PushAtEnd(buffer, s) ==
    IF \E k \in DOMAIN buffer : buffer[k] = s THEN buffer ELSE Capped(Append(buffer, s))
PushAgain(buffer, s) == Capped(<<s>> \o buffer)

Push(buffer, s) ==
    IF \E k \in DOMAIN buffer : buffer[k] = s THEN buffer ELSE Capped(<<s>> \o buffer)

(* The page's effect runs after one or more yields and pushes the latest.  *)
RunEffect ==
    /\ panel.fresh
    /\ SetPanel([panel EXCEPT !.fresh = FALSE, !.buffer = Push(@, panel.current)])

-----------------------------------------------------------------------------
Execute ==
    \/ Begin \/ FetchBars \/ SaveSignal \/ PublishSignal
    \/ ListEnabledRules \/ (\E rule \in scan.listed : Dispatch(rule)) \/ NextSymbol
    \/ Conclude \/ FailScan \/ DropJob
EditRules == \E r \in Rules : CreateRule(r) \/ SetEnabled(r) \/ DeleteRule(r)
Browse ==
    \/ OpenStream \/ FallBackToPolling \/ Subscribe \/ BreakStream \/ Reconnect
    \/ ReceiveEvent \/ Poll \/ YieldPolled \/ RunEffect

Next == Execute \/ EditRules \/ ToggleRedis \/ Browse
Spec == Init /\ [][Next]_vars
(* The page's timer fires and its generator is resumed; nothing is asked   *)
(* of the worker, of Redis or of the user.                                 *)
FairSpec == Spec /\ WF_vars(Poll) /\ WF_vars(YieldPolled)

-----------------------------------------------------------------------------
Stages == {"off", "fetch", "score", "publish", "alerts", "dispatch", "done", "error"}
Modes  == {"none", "open", "sse", "poll", "broken"}
RuleRows == [enabled : BOOLEAN, config : BOOLEAN, stored : BOOLEAN]

(* Types; the page never holds a signal twice nor more of them than it has *)
(* room for, however often the same rows are yielded to it.                *)
TypeOK ==
    /\ scan.pc \in Stages /\ scan.att \in 0..MaxTries /\ scan.pos \in 1..N + 1
    /\ ToSet(scan.pend) \subseteq Signals
    /\ scan.fired \subseteq Rules \X Signals /\ events \subseteq Rules \X Signals
    /\ scan.listed \subseteq [rule : Rules, enabled : BOOLEAN]
    /\ ToSet(signals) \subseteq Signals
    /\ rules \in [Rules -> RuleRows]
    /\ watch \in [some : SUBSET Rules, every : SUBSET Rules]
    /\ panel.mode \in Modes /\ panel.current \in Signals \cup {Nothing}
    /\ panel.seen \cup ToSet(panel.inbox) \cup ToSet(panel.todo) \subseteq Signals
    /\ ToSet(panel.buffer) \subseteq Signals /\ IsInjective(panel.buffer)
    /\ Len(panel.buffer) <= BufferLimit

(* When a signal has been held against the rules, every matching rule that *)
(* the page showed as on all the while has fired, and none that it showed  *)
(* as off all the while: rules created, switched or deleted during a scan  *)
(* count from its next signal on, although the page is given one column of *)
(* a rule (config) and the scan selects by another (enabled).              *)
AlertsFollowRules ==
    scan.pc = "dispatch" /\ scan.listed = {} =>
        LET fits == {r \in Rules : <<r, scan.pos>> \in Matching}
            got  == {r \in Rules : <<r, Head(scan.pend)>> \in scan.fired}
        IN  watch.every \cap fits \subseteq got /\ got \subseteq watch.some \cap fits

(* A page that never had to poll shows triggered signals only, the newest  *)
(* first, over reconnects, redeliveries of the job and coalesced yields.   *)
StreamShowsNewestFirst ==
    ~panel.polled =>
        /\ \A k \in DOMAIN panel.buffer : panel.buffer[k].hit
        /\ \A j, k \in DOMAIN panel.buffer : j < k => Newer(panel.buffer[j], panel.buffer[k])

(* A page that polls a run that has ended has sooner or later been given    *)
(* all the rows the endpoint lists, up to its limit the newest.            *)
Listed == {signals[k] : k \in 1..(IF Len(signals) > ListLimit THEN ListLimit ELSE Len(signals))}
PollingCatchesUp ==
    scan.pc \in {"done", "error"} /\ panel.mode = "poll" ~> Listed \subseteq panel.seen
=============================================================================
