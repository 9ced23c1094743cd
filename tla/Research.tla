------------------------------ MODULE Research ------------------------------
(***************************************************************************)
(* Self-grading: backtests, forward tests, discovery, calibrator and model *)
(* fits and the weekly roster validation write what they learn to two      *)
(* tables; live scans and ensembles read the newest rows of the registry   *)
(* to weigh their scanners.  Writers and readers never lock each other     *)
(* out: every commit of theirs is a step.                                  *)
(***************************************************************************)
EXTENDS Evidence, SequencesExt

CONSTANTS
    Scanners,       \* registered scanners that replay on OHLCV alone
    RosterOrder,    \* the same as a sequence, sorted by name
    Symbols,        \* the basket
    Histories,      \* what the vendor can return for a symbol
    TestOf(_, _),   \* forward test of a scanner on a history, NoTest when too short
    Backtests,      \* ids of rows of the backtest table
    Models,         \* ids of model-registry rows made by a POST
    Verdicts,       \* how a model's execution may grade it, "error" among them
    Lifts,          \* win-rate lifts, in ten-thousandths, of calibrators that fit
    Replies,        \* what a scanner may answer an ensemble: [result, score]
    Universe,       \* length of an ensemble's universe: signals it can give
    MaxTries,       \* bound: executions of one queued job
    MaxRosters,     \* bound: roster validations
    MaxEnsembles    \* bound: ensemble runs

NoTest == <<>>
Ran(test) == DOMAIN test # {}

ASSUME ResearchAssumption ==
    /\ Backtests \cap Models = {} /\ "none" \notin Backtests \cup Models
    /\ RosterOrder \in Seq(Scanners) /\ IsFiniteSet(Symbols)
    /\ MaxTries \in Nat \ {0} /\ Universe \in Nat /\ Lifts \subseteq Nat
    /\ \A s \in Scanners : \A h \in Histories :
          Ran(TestOf(s, h)) => TestOf(s, h) \in [Regimes -> Trades]

VARIABLES
    backtest,       \* the backtest table
    registry,       \* the model registry, in the order of created_at
    exec,           \* the executions of each job, by a worker and inline
    roster,         \* the roster validation that is running
    ensemble,       \* the ensemble run
    last            \* the latest signal of the ensemble
vars == <<backtest, registry, exec, roster, ensemble, last>>

NoRow == [scanner |-> "none", mode |-> "none", status |-> "none", report |-> FALSE]
Jobs  == Backtests \cup Models
Vias  == {"worker", "inline"}

(* BACKTESTABLE: what POST /backtests accepts.                             *)
Backtestable == {"mtf_structure", "volume_profile_poc"}
Modes        == {"backtest", "forward", "discovery"}

Idle     == [pc |-> "idle", tries |-> 0, seen |-> "none"]
NotBegun == [v \in Vias |-> Idle]

EdgeRow(scanner, source, promotion, factor, edges, tests) ==
    [name |-> "walkforward", scanner |-> scanner, id |-> "none", status |-> "validated",
     source |-> source, promotion |-> promotion, weight |-> WeightOf(promotion, factor),
     edges |-> edges, tests |-> tests, fitted |-> FALSE, lift |-> 0]

ModelRow(id, name, scanner) ==
    [name |-> name, scanner |-> scanner, id |-> id, status |-> "training",
     source |-> "post", promotion |-> "none", weight |-> Neutral,
     edges |-> <<>>, tests |-> <<>>, fitted |-> FALSE, lift |-> 0]

Newest(name, scanner) ==
    LET rows == {k \in DOMAIN registry : registry[k].name = name /\ registry[k].scanner = scanner}
    IN  IF rows = {} THEN 0 ELSE Max(rows)

(* get_latest_edge_record and get_latest_calibrator: a row or 0.           *)
LatestEdgeRecord(scanner) == Newest("walkforward", scanner)
LatestCalibrator(scanner) ==
    LET k == Newest("calibrator", scanner)
    IN  IF k > 0 /\ registry[k].fitted THEN k ELSE 0

(* What a live scan that starts now weighs its signals with.               *)
ScanWeight(scanner) ==
    LET e == LatestEdgeRecord(scanner)
        c == LatestCalibrator(scanner)
    IN  IF e > 0 THEN [weight |-> registry[e].weight, edges |-> registry[e].edges]
        ELSE IF c > 0 THEN [weight |-> WeightOfLift(registry[c].lift), edges |-> <<>>]
        ELSE [weight |-> Neutral, edges |-> <<>>]

RowOf(id) == CHOOSE k \in DOMAIN registry : registry[k].id = id

(* What the ensemble weighs a scanner with: its record as it was read.     *)
RecordWeight(scanner, regime) ==
    LET k == ensemble.records[scanner]
    IN  IF k = 0 THEN Neutral
        ELSE EffectiveWeight(registry[k].weight, registry[k].edges, regime)

NoLast == [side |-> NoSide, regime |-> "unknown", by |-> {}, long |-> 0, short |-> 0,
           planned |-> FALSE]

Init == /\ backtest = [b \in Backtests |-> NoRow]
        /\ registry = <<>>
        /\ exec = [j \in Jobs |-> NotBegun]
        /\ roster = [todo |-> <<>>, data |-> <<>>, runs |-> 0]
        /\ ensemble = [status |-> "none", todo |-> {}, records |-> <<>>, left |-> 0, runs |-> 0]
        /\ last = NoLast

-----------------------------------------------------------------------------
(* The queue, and an inline execution when no answer comes: a lost answer  *)
(* starts both, an API that dies after the commit neither.                 *)
Handed(vias) == [v \in Vias |-> IF v \in vias THEN [Idle EXCEPT !.pc = "queued", !.tries = 1]
                                               ELSE Idle]

(* POST /backtests and POST /discovery.                                    *)
CreateBacktest(b) ==
    /\ backtest[b] = NoRow
    /\ \E s \in Scanners, mode \in Modes, vias \in SUBSET Vias :
          /\ mode # "discovery" => s \in Backtestable
          /\ backtest' = [backtest EXCEPT ![b] =
                [scanner |-> s, mode |-> mode, status |-> "queued", report |-> FALSE]]
          /\ exec' = [exec EXCEPT ![b] = Handed(vias)]
    /\ UNCHANGED <<registry, roster, ensemble, last>>

(* POST /ml/...: only trainings go through the queue.                      *)
CreateModel(m) ==
    /\ \A k \in DOMAIN registry : registry[k].id # m
    /\ \E s \in Scanners, name \in {"calibrator", "setup"}, vias \in SUBSET Vias :
          /\ "worker" \in vias => name = "setup"
          /\ registry' = Append(registry, ModelRow(m, name, s))
          /\ exec' = [exec EXCEPT ![m] = Handed(vias)]
    /\ UNCHANGED <<backtest, roster, ensemble, last>>

SetStatus(b, status) == backtest' = [backtest EXCEPT ![b].status = status]
Goto(j, v, pc) == exec' = [exec EXCEPT ![j][v].pc = pc]
(* The work is done; a worker has yet to acknowledge its job.              *)
Finish(j, v) == Goto(j, v, IF v = "worker" THEN "closing" ELSE "ended")

(* get_backtest: the session keeps the row as it reads now.                *)
Load(b, v) ==
    /\ exec[b][v].pc = "queued"
    /\ exec' = [exec EXCEPT ![b][v].pc = "loaded", ![b][v].seen = backtest[b].status]
    /\ UNCHANGED <<backtest, registry, roster, ensemble, last>>

(* A status that was loaded as "running" is not written again.             *)
Begin(b, v) ==
    /\ exec[b][v].pc = "loaded"
    /\ IF exec[b][v].seen = "running" THEN UNCHANGED backtest ELSE SetStatus(b, "running")
    /\ exec' = [exec EXCEPT ![b][v].pc = "running", ![b][v].seen = "none"]
    /\ UNCHANGED <<registry, roster, ensemble, last>>

BeginModel(m, v) ==
    /\ exec[m][v].pc = "queued"
    /\ Goto(m, v, "running")
    /\ UNCHANGED <<backtest, registry, roster, ensemble, last>>

(* A forward test commits its edge row before its report.                  *)
SaveEdge(b, v) ==
    /\ exec[b][v].pc = "running"
    /\ backtest[b].mode = "forward"
    /\ \E sym \in Symbols, h \in Histories :
          LET t == TestOf(backtest[b].scanner, h)
              m == AllTrades(t)
          IN  /\ Ran(t)
              /\ registry' = Append(registry, EdgeRow(backtest[b].scanner, "forward",
                                     Decide(m), ProfitFactor(m), <<>>, [x \in {sym} |-> t]))
    /\ Goto(b, v, "edge saved")
    /\ UNCHANGED <<backtest, roster, ensemble, last>>

(* save_backtest_result.                                                   *)
SaveReport(b, v) ==
    /\ exec[b][v].pc = IF backtest[b].mode = "forward" THEN "edge saved" ELSE "running"
    /\ backtest' = [backtest EXCEPT ![b].status = "done", ![b].report = TRUE]
    /\ Finish(b, v)
    /\ UNCHANGED <<registry, roster, ensemble, last>>

(* Mutant: too short a history returns without a word.                     *)
InsufficientInSilence(b, v) ==
    /\ exec[b][v].pc = "running"
    /\ backtest[b].mode # "backtest"
    /\ Finish(b, v)
    /\ UNCHANGED <<backtest, registry, roster, ensemble, last>>

Insufficient(b, v) ==
    /\ exec[b][v].pc = "running"
    /\ backtest[b].mode # "backtest"
    /\ SetStatus(b, "error")
    /\ Finish(b, v)
    /\ UNCHANGED <<registry, roster, ensemble, last>>

(* The vendor or the replay raises, and the except clause says so.         *)
RaiseBacktest(b, v) ==
    /\ exec[b][v].pc \in {"running", "edge saved"}
    /\ SetStatus(b, "error")
    /\ Finish(b, v)
    /\ UNCHANGED <<registry, roster, ensemble, last>>

(* The database fails, at a query or a commit: the first ones are outside  *)
(* the try, and the except clause of the others asks the same session,     *)
(* which raises again.  The row keeps what it said last.                   *)
LoseDatabase(b, v) ==
    /\ exec[b][v].pc \in {"queued", "loaded", "running", "edge saved"}
    /\ Goto(b, v, "raised")
    /\ UNCHANGED <<backtest, registry, roster, ensemble, last>>

(* Mutant: the report goes to the newest row.                              *)
SaveModelInNewest(m, v) ==
    /\ exec[m][v].pc = "running"
    /\ \E status \in Verdicts, lift \in Lifts :
          LET k == Len(registry)
          IN  registry' = [registry EXCEPT ![k].status = status,
                 ![k].fitted = (registry[k].name = "calibrator" /\ status # "error"),
                 ![k].lift = IF status = "error" THEN 0 ELSE lift]
    /\ Finish(m, v)
    /\ UNCHANGED <<backtest, roster, ensemble, last>>

(* save_model_report.                                                      *)
SaveModel(m, v) ==
    /\ exec[m][v].pc = "running"
    /\ \E status \in Verdicts, lift \in Lifts :
          LET k == RowOf(m)
          IN  registry' = [registry EXCEPT ![k].status = status,
                 ![k].fitted = (registry[k].name = "calibrator" /\ status # "error"),
                 ![k].lift = IF status = "error" THEN 0 ELSE lift]
    /\ Finish(m, v)
    /\ UNCHANGED <<backtest, roster, ensemble, last>>

(* Nothing in ml_service catches: the row keeps the status of the POST.    *)
RaiseModel(m, v) ==
    /\ exec[m][v].pc = "running"
    /\ Goto(m, v, "raised")
    /\ UNCHANGED <<backtest, registry, roster, ensemble, last>>

(* A worker that dies leaves its job to be executed again from the start.  *)
(* A timeout and the tries end it where it is, and an inline execution     *)
(* dies with the API process: no except clause sees a cancellation.        *)
Drop(j, v) ==
    /\ \/ exec[j][v].pc \in {"loaded", "running", "edge saved", "closing"}
       \/ exec[j][v].pc = "queued" /\ v = "inline"
    /\ \/ Goto(j, v, "lost")
       \/ /\ v = "worker" /\ exec[j][v].tries < MaxTries
          /\ exec' = [exec EXCEPT ![j][v] =
                [pc |-> "queued", tries |-> exec[j][v].tries + 1, seen |-> "none"]]
    /\ UNCHANGED <<backtest, registry, roster, ensemble, last>>

Acknowledge(j, v) ==
    /\ exec[j][v].pc = "closing"
    /\ Goto(j, v, "ended")
    /\ UNCHANGED <<backtest, registry, roster, ensemble, last>>

-----------------------------------------------------------------------------
(* validate_roster: histories once, symbols without one left out.          *)
StartRoster ==
    /\ roster.todo = <<>>
    /\ roster.runs < MaxRosters
    /\ \E covered \in SUBSET Symbols : \E data \in [covered -> Histories] :
          roster' = [todo |-> RosterOrder, data |-> data, runs |-> roster.runs + 1]
    /\ UNCHANGED <<backtest, registry, exec, ensemble, last>>

(* One scanner: tested on every history, blended, its row committed.       *)
ValidateNext ==
    /\ roster.todo # <<>>
    /\ LET s      == Head(roster.todo)
           ran    == {x \in DOMAIN roster.data : Ran(TestOf(s, roster.data[x]))}
           tests  == [x \in ran |-> TestOf(s, roster.data[x])]
           pooled == AllTrades(Pool(tests))
       IN  registry' = IF ran = {} THEN registry
                       ELSE Append(registry, EdgeRow(s, "roster", BlendedPromotion(pooled),
                                     ProfitFactor(pooled), RegimeEdges(tests), tests))
    /\ roster' = [roster EXCEPT !.todo = Tail(@),
                                !.data = IF Len(roster.todo) = 1 THEN <<>> ELSE @]
    /\ UNCHANGED <<backtest, exec, ensemble, last>>

(* The worker or the API dies, or a save fails: the rest is not graded.    *)
DropRoster ==
    /\ roster.todo # <<>>
    /\ roster' = [roster EXCEPT !.todo = <<>>, !.data = <<>>]
    /\ UNCHANGED <<backtest, registry, exec, ensemble, last>>

-----------------------------------------------------------------------------
(* POST /scans/ensemble, executed in the API process.  Edge records are    *)
(* read once, one query each, before the first symbol.                     *)
StartEnsemble ==
    /\ ensemble.status # "running"
    /\ ensemble.runs < MaxEnsembles
    /\ \E asked \in SUBSET Scanners :
          /\ Cardinality(asked) >= 2
          /\ ensemble' = [status |-> "running", todo |-> asked, records |-> <<>>,
                          left |-> Universe, runs |-> ensemble.runs + 1]
    /\ last' = NoLast
    /\ UNCHANGED <<backtest, registry, exec, roster>>

ReadRecord(s) ==
    /\ ensemble.status = "running"
    /\ s \in ensemble.todo
    /\ ensemble' = [ensemble EXCEPT !.todo = @ \ {s}, !.records =
                       [r \in DOMAIN @ \cup {s} |-> IF r = s THEN LatestEdgeRecord(s) ELSE @[r]]]
    /\ UNCHANGED <<backtest, registry, exec, roster, last>>

(* _ensemble_signal: a plan is made from the strongest agreeing answer.    *)
EnsembleSignal(answers, weights, regime) ==
    LET long  == Votes(answers, weights, LONG)
        short == Votes(answers, weights, SHORT)
        side  == SideOf(long > short)
        agree == {a \in answers : a.result.triggered /\ a.result.side = side}
    IN  IF Action(long, short) # "trade" THEN {}
        ELSE {[side |-> side, regime |-> regime, by |-> {a.id : a \in agree},
               long |-> long, short |-> short,
               planned |-> sig.plan # NoPlan] :
                sig \in {BuildSignal(a.id, a.result, 1, regime,
                            Unit + ConsensusScore(long, short), <<>>, FALSE) :
                         a \in {x \in agree : \A y \in agree :
                                   Vote(x, weights) >= Vote(y, weights)}}}

(* One symbol: those with an edge answer or raise, and their votes are     *)
(* counted.  Publishing fails the run when Redis is down.                  *)
EnsembleSymbol ==
    /\ ensemble.status = "running"
    /\ ensemble.todo = {} /\ ensemble.left > 0
    /\ \E regime \in Regimes \cup {"unknown"}, up \in BOOLEAN :
       LET voting  == {s \in DOMAIN ensemble.records : RecordWeight(s, regime) >= EdgeFloor}
           weights == [s \in voting |-> RecordWeight(s, regime)]
       IN  \E heard \in SUBSET voting : \E reply \in [heard -> Replies] :
           LET answers == {[id |-> s, result |-> reply[s].result, score |-> reply[s].score] :
                              s \in heard}
               signals == EnsembleSignal(answers, weights, regime)
           IN  /\ signals # {}
               /\ last' \in signals
               /\ ensemble' = [ensemble EXCEPT !.left = @ - 1,
                     !.status = IF last'.planned /\ ~up THEN "error" ELSE @]
    /\ UNCHANGED <<backtest, registry, exec, roster>>

(* The rest of the universe gives no signal; or a query or the vendor      *)
(* raises.                                                                 *)
EndEnsemble ==
    /\ ensemble.status = "running"
    /\ \/ ensemble.todo = {} /\ ensemble' = [ensemble EXCEPT !.status = "done"]
       \/ ensemble' = [ensemble EXCEPT !.status = "error"]
    /\ UNCHANGED <<backtest, registry, exec, roster, last>>

-----------------------------------------------------------------------------
BacktestStep(b, v) == Load(b, v) \/ Begin(b, v) \/ SaveEdge(b, v) \/ SaveReport(b, v)
                        \/ Insufficient(b, v) \/ RaiseBacktest(b, v) \/ Acknowledge(b, v)
ModelStep(m, v)    == BeginModel(m, v) \/ SaveModel(m, v) \/ RaiseModel(m, v)
                        \/ Acknowledge(m, v)

Next == \/ \E b \in Backtests : CreateBacktest(b)
        \/ \E b \in Backtests, v \in Vias : BacktestStep(b, v) \/ LoseDatabase(b, v) \/ Drop(b, v)
        \/ \E m \in Models : CreateModel(m)
        \/ \E m \in Models, v \in Vias : ModelStep(m, v) \/ Drop(m, v)
        \/ StartRoster \/ ValidateNext \/ DropRoster
        \/ StartEnsemble \/ (\E s \in Scanners : ReadRecord(s))
        \/ EnsembleSymbol \/ EndEnsemble

(* An execution that was begun goes on, and workers take what is queued.   *)
Fairness == /\ \A b \in Backtests, v \in Vias : WF_vars(BacktestStep(b, v))
            /\ \A m \in Models, v \in Vias : WF_vars(ModelStep(m, v))

Spec == Init /\ [][Next]_vars /\ Fairness

-----------------------------------------------------------------------------
Promotions == {"promote", "keep_testing", "retire"}

(* Every row, job and record has its shape, and no weight that is written  *)
(* leaves the band 0.3 .. 2.5 of edge_weight_from_walkforward, even for    *)
(* tests without a losing trade, whose factor is an amount of money.       *)
TypeOK ==
    /\ \A b \in Backtests : backtest[b] = NoRow \/
          /\ backtest[b].scanner \in Scanners /\ backtest[b].mode \in Modes
          /\ backtest[b].status \in {"queued", "running", "done", "error"}
          /\ backtest[b].report \in BOOLEAN
    /\ \A k \in DOMAIN registry :
          /\ registry[k].scanner \in Scanners
          /\ registry[k].weight \in Retired..Highest
          /\ \A g \in DOMAIN registry[k].edges : registry[k].edges[g] \in Retired..Highest
    /\ \A j \in Jobs, v \in Vias :
          /\ exec[j][v].tries \in 0..MaxTries
          /\ exec[j][v].pc \in {"idle", "queued", "loaded", "running", "edge saved",
                                "closing", "ended", "raised", "lost"}
    /\ ensemble.status \in {"none", "running", "done", "error"}
    /\ \A s \in DOMAIN ensemble.records : ensemble.records[s] \in 0..Len(registry)

(* A settled row tells everything: a backtest is done only with its        *)
(* report, a forward test only when an edge row of its scanner is in the   *)
(* registry, whatever was executed twice in between; and once every        *)
(* execution of a job came to its end, none lost, cut or left without the  *)
(* database, the row has settled (backtest_service.py:58-106).             *)
SettledTellsAll ==
    \A b \in Backtests :
       /\ backtest[b] # NoRow /\ backtest[b].status = "done" =>
            /\ backtest[b].report
            /\ backtest[b].mode = "forward" =>
                 \E k \in DOMAIN registry : /\ registry[k].source = "forward"
                                            /\ registry[k].scanner = backtest[b].scanner
       /\ /\ \E v \in Vias : exec[b][v].pc # "idle"
          /\ \A v \in Vias : exec[b][v].pc \in {"idle", "closing", "ended"}
          => backtest[b].status \in {"done", "error"}

(* A weight above neutral is earned: by trades that made money, at least   *)
(* five in a forward test and thirty in a roster validation, overall and   *)
(* in the regime that has an entry of its own (roster.py:16-18, 42-67).    *)
PromotionIsEarned ==
    \A k \in DOMAIN registry :
       LET row == registry[k]
           all == AllTrades(Pool(row.tests))
           floor == IF row.source = "roster" THEN MinOosTrades ELSE 5
       IN  row.name = "walkforward" =>
             /\ row.weight > Neutral => all.n >= floor /\ Profitable(all)
             /\ \A g \in DOMAIN row.edges : row.edges[g] > Neutral =>
                  /\ Pooled(row.tests, g).n >= MinOosTrades
                  /\ Profitable(Pooled(row.tests, g))

(* A scanner whose every test lost in a regime, over thirty trades, has no *)
(* part in a signal of that regime when this was known as the ensemble     *)
(* read its records, whatever its weight over all regimes                  *)
(* (ensemble_service.py:65-67, builder.py:70-78).                          *)
RetiredIsSilent ==
    last # NoLast =>
      \A s \in last.by :
         LET k == ensemble.records[s]
         IN  k > 0 /\ registry[k].source = "roster" /\ last.regime \in Regimes =>
               ~ /\ Pooled(registry[k].tests, last.regime).n >= MinOosTrades
                 /\ \A x \in DOMAIN registry[k].tests :
                       LET t == registry[k].tests[x][last.regime]
                       IN  t.n > 0 => ProfitFactor(t) < Unit

(* What a reader may have seen stays: a row of the registry that has left  *)
(* "training" never changes again, unless its own training is executed     *)
(* again after a worker died (repo.py:425-433).                            *)
ReportsStayPut ==
    [][\A k \in DOMAIN registry :
          registry[k].status # "training" =>
             registry'[k] = registry[k] \/ registry[k].name = "setup"]_vars

(* Every job that was handed over settles for good, by one execution or    *)
(* two, unless one died or was cut, met a failing database, or, of a       *)
(* model, raised (ml_service.py catches nothing).                          *)
Settled(j) == IF j \in Backtests THEN backtest[j].status \in {"done", "error"}
              ELSE \E k \in DOMAIN registry :
                        registry[k].id = j /\ registry[k].status # "training"
HandedOver(j) == \E v \in Vias : exec[j][v].pc # "idle"
BrokenOff(j)  == \E v \in Vias : exec[j][v].pc \in {"lost", "raised"}
JobsSettle ==
    \A j \in Jobs : [](HandedOver(j) => <>(BrokenOff(j) \/ []Settled(j)))

-----------------------------------------------------------------------------
(* repo.py:446 says "Newest fitted calibrator dict for a scanner": a row   *)
(* that is in training, or that failed, is not to hide a fitted one.       *)
CalibratorServed ==
    \A s \in Scanners :
       (\E k \in DOMAIN registry : /\ registry[k].name = "calibrator"
                                   /\ registry[k].scanner = s /\ registry[k].fitted)
          => LatestCalibrator(s) > 0

(* roster.py:42-43 says that the trades of a regime are pooled and that    *)
(* "the same trade-count floor + verdict logic used globally" then         *)
(* applies: a regime whose pooled trades would be promoted is not retired. *)
RegimeVerdictPools ==
    \A k \in DOMAIN registry :
       registry[k].source = "roster" =>
          \A g \in DOMAIN registry[k].edges :
             BlendedPromotion(Pooled(registry[k].tests, g)) = "promote"
                => registry[k].edges[g] > Retired
=============================================================================
