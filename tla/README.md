# TLA+ models of Stock Wizard

Stock Wizard scans market data with some fifty scanners, turns triggered scanners
into signals with evidence, grades the scanners against history, and serves
everything through a FastAPI service, an arq worker and a Svelte front end. This
directory holds TLA+ models of the parts where order, failure and concurrency
decide whether the program is right, the TLC instances that check them, and
TLAPS proofs that lift the most important results to every instance.

## 1. The system

Paths are relative to `src/`; `app/` stands for `services/api/app/`.

| component | state | operations | talks to | hard because |
|---|---|---|---|---|
| Scan runs: `app/routers/scans.py`, `app/services/scan_service.py` | `scan_runs`, `scanner_results`, `signals` rows; one session per execution | create, enqueue or run inline, execute, read back | job queue, repository, pub/sub, alerts, data sources, calibrator, edge records | two executions of one run; commits in the middle; suppressed failures; cancellation |
| Job queue: `app/jobs.py`, `services/worker/worker/` | the arq queue in Redis, `max_jobs` 10, `job_timeout` 1800 s | enqueue, run, retry, weekly roster validation | scan runs, backtests, self-grading | at-least-once delivery; a lost answer to an enqueue; redelivery after a worker restart |
| Live stream: `app/pubsub.py`, `app/routers/results.py`, `apps/web/src/lib/state/stream.svelte.ts` | a Redis channel per run; the browser's buffer of 50 | publish, subscribe, push with de-duplication | scan runs, browser | no replay for late subscribers; a buffer shared by successive runs |
| Alerts: `app/services/alert_service.py`, `engine/engine/alerts/engine.py`, `app/routers/alerts.py` | `alert_rules`, `alert_events` | create, enable, delete, evaluate, dispatch | scan runs, webhooks | delivery before commit; no deduplication between runs |
| Backtest and discovery runs: `app/routers/backtests.py`, `app/services/backtest_service.py`, `app/routers/discovery.py`, `app/services/discovery_service.py` | `backtests`, `backtest_results`, `discovery_runs` | create, execute, read | job queue, backtest engine, edge records | the life of a run, as for scans |
| Backtest engine: `engine/engine/backtesting/engine.py`, `engine/engine/risk/position.py` | one open position, equity, trades, curve | per bar: exit, ratchet, enter, record | scanners, features, metrics | use of bars before they are known; order of stop, target and ratchet; end of data |
| Self-grading: `app/services/roster_service.py`, `engine/engine/backtesting/{roster,walkforward}.py`, `engine/engine/evidence/`, `engine/engine/signals/builder.py` | walk-forward edge records, newest wins | validate roster, save, list, weigh, gate | worker cron, scan runs, ensemble | a record replaced by a weaker one; weights read once per scan; floors and gates |
| Ensemble: `app/services/ensemble_service.py`, `engine/engine/backtesting/ensemble_bt.py` | as scan runs | execute all scanners on one snapshot, combine votes | edge records, pub/sub | consensus arithmetic; a second path into the run lifecycle |
| Vendor keys and Schwab OAuth: `app/routers/vendors.py`, `app/services/schwab_creds.py`, `engine/engine/data/schwab_source.py`, `packages/common/common/crypto.py` | `vendor_api_keys` rows with encrypted secrets | add, enable, rotate, rename, delete, connect, exchange, refresh | scan runs (token use), settings page | refresh racing rotation or deletion; two-commit sequences |
| Models: `app/services/ml_service.py`, `app/routers/ml.py`, `engine/engine/ml/` | `ml_models` | create, train, calibrate, read newest calibrator | scan runs (calibrator) | no failure status; a newer unfitted model hides a fitted one |
| Market data: `engine/engine/data/` | none (per-call) | fetch, normalise, validate bars | vendors | gaps, impossible bars, order of timestamps |
| Scanners and features: `engine/engine/scanners/`, `engine/engine/features/` | none | pure decisions on one snapshot | scan runs, backtests, ensemble | numeric edges, missing inputs |
| Database schema and access: `storage/`, `app/db.py`, `app/repositories/repo.py` | PostgreSQL | row operations, commits | all | sessions after a failed statement |
| Reports, exports, health, authentication | none | read only | browser | nothing here keeps state |
| Web and desktop front ends: `apps/` | page state | render, call the API | API | buffering of live signals |

### What makes each part correct

* **Scan runs.** A run that reads `done` is complete. What a subscriber or webhook
  received is persisted. Rows appear in whole. No run is forgotten while the system
  works. A run executed once goes through queued, running, settled and stays settled.
* **Backtest engine.** A decision uses only closed information; the stop never loosens;
  an exit is decided by the stop of earlier bars; one position at a time; the curve is
  the starting equity plus the trades.
* **Self-grading, ensembles.** A weight above neutral is earned by trades that made money;
  a scanner known to lose in a regime has no part in its signals.
* **Backtest, discovery and training runs.** A settled row has everything its status
  promises, stays as it is, and every job settles.
* **Vendor keys.** A disabled key stays disabled; a deleted one stays deleted; a
  token in use was granted; a newer secret is not overwritten by an older one.
* **Alerts, stream.** A rule that was on fires and one that was off does not; the page
  shows newest signals first, and one that polls is given every listed row in the end.
* **Scanners.** An answer is not wrong at birth; the two sides of a scanner mirror each
  other; scanners of the same chain agree on its regime.
* **Market data, discovery.** Time only goes forward in what is learnt from; turning points
  alternate, matter and are not redrawn; a suggested rule fires on its reason.

## 2. The plan and how it was carried out

The order was: what decides whether the program's promises hold under failure first,
then what grades and weighs, then the pure decisions.

1. `ScanRuns`, refining `RunLifecycle`: the life of a scan and of everything it writes.
2. `BacktestEngine`: the event loop of the backtester over integer prices.
3. `VendorKeys`: key routes, the Schwab connection, the token refresh of scans.
4. `Evidence` (verdicts, weights, votes) and `Research`, which composes it with the life
   of backtest, forward-test, discovery, training and roster jobs and with ensembles that
   read the registry while it changes.
5. `LiveFeed`: published signals, the browser's stream and poll, alert rules edited
   during a scan.
6. `ScannerResult`, `PriceScanners`, `GammaScanners`, `MarketScanners`, composed by
   `ScannerSuite`: every scanner of the registry, and `build_signal`.
7. `Discovery`: bar validation, turning points, reasons and suggested rules.
8. Proofs for 1 to 7, in `ScanRuns_proofs`, `BacktestEngine_proofs`,
   `VendorKeys_proofs`, `Research_proofs`, `LiveFeed_proofs`, `ScannerSuite_proofs` and
   `Discovery_proofs`.

`MC...` modules only give constants their values. `Sums` has the sum over a finite set that
several modules need, and `Sums_proofs` what the proofs need to know of it: induction over
finite sets and the comparison of sums, from the library's theorems on well-founded orders.
What could follow: replays of ensembles (`ensemble_bt.py`) and a client's page over several
runs.

| module | extends or instantiates | proved in |
|---|---|---|
| `ScanRuns` | `RunLifecycle` (refined) | `ScanRuns_proofs` |
| `BacktestEngine` | | `BacktestEngine_proofs` |
| `VendorKeys` | | `VendorKeys_proofs` |
| `Sums` | | `Sums_proofs` |
| `Evidence` | `ScannerResult`, `Sums` | `Research_proofs` |
| `Research` | `Evidence` | `Research_proofs` |
| `LiveFeed` | | `LiveFeed_proofs` |
| `PriceScanners`, `GammaScanners`, `MarketScanners` | `ScannerResult`, `Sums` | `ScannerSuite_proofs` |
| `ScannerSuite` | the three above | `ScannerSuite_proofs` |
| `Discovery` | `Sums` | `Discovery_proofs` |

Definitions whose comment begins with "Mutant" are no part of a model: they are
plausible mistakes of the code, and `PROJECT.json` says which property each of them breaks.

## 3. The modules and the code

### ScanRuns (with RunLifecycle, MCScanRuns, ScanRuns_proofs)

One execution of `execute_scan` is identified by its run and by who runs it: the
background task of the API (`"inline"`) or the worker's job (`"job"`). The two can be
alive at once, in a session each.

| state | stands for |
|---|---|
| `status`, `finished`, `error` | the columns of the `scan_runs` row |
| `begun`, `att` | how many executions have marked the run `running`, and which of them one is; rows carry this number |
| `http`, `job`, `tries`, `redis` | the request handler, the arq entry, its deliveries, Redis |
| `pc`, `pos`, `seen` | where an execution stands, its symbol, the status its session loaded |
| `pend` | rows added to the session and not committed |
| `aborted`, `broken` | a session in a transaction that PostgreSQL has aborted; a session that refuses all work |
| `db` | committed result, signal and alert-event rows |
| `lost`, `skipped`, `published`, `delivered`, `cut` | history: rows that went with an aborted transaction, symbols without bars, what left the process, attempts a fault hit |

A step of an execution runs from one await on the database or Redis to the next, so
between two steps anything else may run. The session is modelled by small actions that the steps
combine: `Flowing`, `Add` and `Commit` when all goes well, and two ways to fail. A failed
flush (`Break`) rolls back and makes the session refuse all work, since nothing in the
code calls `rollback`. A statement that fails after the pending rows were flushed
(`Abort`) takes them along with its transaction, and the session does not know: its next
flush fails, but with nothing left to flush its `COMMIT` is a `ROLLBACK` that raises no
error (`RollBackSilently`). `set_run_status` commits everything pending, and writes the
status column only if it differs from what the session loaded (`seen`).

The environment's faults are a constant set, so that a run of TLC can say which ones
it allows: raising sources, Redis outages, a lost answer to an enqueue, failing
statements, death of the API, a worker that drops its job, the job timeout. A Redis
outage begins at the moment somebody needs Redis; before that nobody can tell.

`RunLifecycle` is what a client that polls a run may expect: queued, running while rows
appear, then settled for good. `ScanRuns` implements it, with `state <- status` and
`rows <- db`, as long as a run is executed at most once.

### BacktestEngine (with MCBacktestEngine, BacktestEngine_proofs)

`run` is one loop; a bar goes through the phases `manage` (exit, or hold with excursions
and ratchet), `enter` and `record`, and `done` follows the residual close. The bar is
chosen in the first phase, so TLC explores every series of bars. Scanners are
abstracted to the side they ask for, features to the value of `atr.14`, the size of a
trade to a member of `Sizes`, slippage to any amount up to `MaxSlip` against the trade.

A position is described by gains instead of prices: `Gain(p, px)` is the win of one unit
at a price, `At(p, g)` its inverse, `Best` and `Worst` the extremes of a bar. Each pair of
long and short branches of the code is then one definition, and every stop lies below
every target. Prices and distances are integers; the code's rounding to four decimals
is left out, and so are exits given as functions; the metrics a verdict needs, per regime,
are in `Evidence`.
`PlanAssumption` asks only that the target lie beyond the stop; all other parameters
come unvalidated from a request and may be any integers. Of `risk_per_trade` the model
assumes that it is not negative (`Sizes \subseteq Nat`).

### VendorKeys (with MCVendorKeys, VendorKeys_proofs)

`keys` is the table's Schwab rows in the order of `created_at`; a deleted row keeps its
place with `here = FALSE`. A bundle is `creds` (a `SchwabCreds`) or any other `text`; it
has a fresh, a stale or no access token, a refresh token or none, and the number of the
user's submission it stems from. `given` and `granted` are history: the user's latest
submission for a row, and the submissions that were exchanged for tokens.

Requests and scans take steps as in `ScanRuns`: one statement with its commit, or one
call of the token endpoint. A session remembers the row it loaded (`sees`), and an
`UPDATE` names the changed columns only: that is why writing tokens does not enable a
key again, and why a toggle to the value the session loaded writes nothing. An `UPDATE`
of a row that is gone raises `StaleDataError`; from the flush inside a commit this
leaves a scan's session unusable. The ciphers are invertible functions and are left
out, as are labels, scopes and the other vendors, whose keys are read in one step.
`Expire` stands for the passing of time.

### Evidence and Research (with MCResearch, Research_proofs)

`Evidence` holds the arithmetic: `ProfitFactor` (`compute_metrics`), `Decide`
(`walkforward._decide`), `BlendedPromotion`, `RegimePromotion` and `RegimeEdges`
(`roster.py`), `WeightOf` and `WeightOfLift` (`evidence/ensemble.py`), and the vote
(`Votes`, `Action`, `ConsensusScore`). A sample is four numbers per regime: trades, wins,
money won, money lost. Factors, rates and weights are in ten-thousandths, to which the
code rounds them (`Rounded`): a profit factor when it is computed, and the mean over the
tests of a regime again when it is written down, after its unrounded value has been
compared with the thresholds (`MeanBelow`). Halves are rounded up, where the code's
floating point may go either way.

| state of `Research` | stands for |
|---|---|
| `backtest` | the `backtests` rows: scanner, mode, status, whether a report is stored |
| `registry` | the `ml_models` table in the order of `created_at`: edge records, calibrators and setup models |
| `exec` | each job's executions, one by the worker and one inline: where each stands, the status its session loaded, how often it was delivered |
| `roster` | the roster validation under way: scanners to go, histories fetched |
| `ensemble`, `last` | an ensemble run: records still to be read, those read, symbols left; its latest signal |

| action of `Research` | code |
|---|---|
| `CreateBacktest`, `CreateModel` | the POST's commit and the hand-over: to the queue, to an inline task, to both when the queue's answer is lost, to neither when the API dies; only setup trainings are queued |
| `Load`, `Begin`, `BeginModel` | the row is read; `running` is written unless that is what was read |
| `SaveEdge`, `SaveReport` | the two commits of a forward test; a backtest or discovery has the second only |
| `Insufficient`, `RaiseBacktest` | too short a history, and what the `except` clause writes when the vendor or the replay raises |
| `LoseDatabase` | a query or commit fails: before the `try` (`backtest_service.py:27-29`), or inside it, and then the `except` clause asks the same session and raises too; the row keeps what it said |
| `SaveModel`, `RaiseModel` | `save_model_report`; an exception that nothing in `ml_service` catches |
| `Drop` | a worker that dies (the job comes again or is given up), a timeout, an API process that takes its inline task along |
| `StartRoster`, `ValidateNext`, `DropRoster` | `validate_roster`: histories once, then one commit per scanner |
| `StartEnsemble`, `ReadRecord`, `EnsembleSymbol`, `EndEnsemble` | `execute_ensemble_scan` |

One action stands for one commit, so a process can die between the two of a forward test and
a redelivered job, or the other of two executions, write a second edge row. `ReadRecord` is
one query, so a roster's commits fall between the records of one ensemble.
Which trades a history gives (`TestOf`), how a training is graded (`Verdicts`, `Lifts`)
and what a scanner answers (`Replies`) are parameters.

### LiveFeed (with MCLiveFeed, LiveFeed_proofs)

| state | stands for |
|---|---|
| `scan` | the execution: step, attempt, position, pending rows, alerts fired and not committed, the rules it has read and not yet dispatched |
| `signals`, `events` | committed signal rows, newest first, and alert events |
| `rules` | the `alert_rules` table: the column `enabled` and the `enabled` inside `config` |
| `redis` | whether Redis is up |
| `panel` | the results page and its generator: how it is connected, messages on the wire, rows it polled (`seen`, `todo`), the query's current value and whether the effect has seen it (`fresh`), the buffer |
| `watch` | history: the rules that were on at some moment, and at every moment, since the signal was built |

Redis hands a message to who is subscribed and forgets it. The endpoint answers 200
before its generator subscribes, so only a request that fails makes the page poll
(`FallBackToPolling`); a Redis that goes away later breaks the answer in its middle, and
the page's live query runs its generator anew (`Reconnect`). Several yields may come
between two runs of the page's effect, which then pushes the latest only. `Poll` takes a
listing when the rows of the one before are all known to the page, and `YieldPolled` goes on
to the first row of it that is not. The module
leaves out what `ScanRuns` covers: failing statements and what happens to a session
after them.

### ScannerResult, PriceScanners, GammaScanners, MarketScanners, ScannerSuite

One operator stands for the `run` method of each scanner, with its default parameters,
as a function of what it looks at: the last bars, session and profile levels, an option
chain, a basket of constituents, headlines. A result keeps the side, the classification,
the published price and the invalidation rule; scores, evidence items and texts are
left out, and indicators and greeks are inputs. Swings, walls, flips, max pain, butterfly
wings, breadth and highs and lows are computed as the code computes them. `ScannerSuite`
takes a snapshot, has a scanner answer (`Evaluate`), builds a signal under any weight and
regime (`Build`) and goes on to the next. `MCScannerSuite` gives each scanner a grid
of snapshots that straddles its thresholds; `Pivot` is a price above all of the grid, about
which `MirrorImages` turns a snapshot upside down. Units are chosen so that thresholds are
integers (ATR in prices, relative volume in tenths); `or default` is `Or`, since a
missing value and a zero are the same to the code. Prices of a chain are whole numbers of a
unit of which a `Dollar` has several: a butterfly's body and wings are dollars, rounded to
even as `round` does (`RoundedEven`). A flip is where the line between two points of the
exposure curve meets zero (`ZeroBetween`), a fraction, and is compared as one (`Past`).

### Discovery (with MCDiscovery, Discovery_proofs)

`bars` are those `validate` has kept of the `fetched` ones, which come in order, again,
too early or broken. `Pivots` is `_pivots` as a recursive function over the bars that are
`Judged`, those with `K` bars on each side; `PivotsAfter` is one turn of its two loops,
and `TakePivot` the body of the second. `Reasons` is `_identify_reasons`, a set of `Codes`
each of which is `Evident`, and `ReasonToCondition` the table `_REASON_TO_CONDITION`.
`Events`, `Halves`, `Lifts` and `HoldsUp` are the split of the history and the lift that has
to appear in both parts, `Suggested` the rules, all from `discover`. `turns` is a second way
to a history: turns with their evidence, without the bars in between, so that histories long
enough for two halves are within reach. One ATR stands for the whole series (the code takes
that of the later pivot's bar, and asks for no minimum while there is none), features are
there (`Rows`), and `max_events`, which forgets the oldest turns, is left out.

## 4. Runs

| run | instance | what it shows | states |
|---|---|---|---|
| `scan_faults` | 1 run, 1 symbol, 2 deliveries beside the inline task, all faults, fair | `TypeOK`, `DoneIsComplete`, `RowsInWhole`, `NoRunForgotten`, `FieldsTellReruns`; `RunsSettle` | 939 259 |
| `scan_once` | 1 run, 3 symbols, faults that do not repeat an execution | `SentIsKept`; refines `RunLifecycle` (`ImplementsLifecycle`) | 19 669 |
| `scan_without_redis` | Redis outages only | violates `InlineWorksWithoutRedis` | |
| `backtest_replay` | 6 bars of which 5 are traded, stop 2, target 4, breakeven 1, trail 2, time stop 3, commission 1, slippage up to 1, equity 2 | `TypeOK`, `Bracketed`, `TradesKeepThePlan`, `OneAtATime`, `CurveShowsTrades`, `StopNeverLoosens`, `RuinIsFinal` | 849 948 |
| `backtest_htf` | as above without costs | violates `HtfIsKnown` | |
| `vendor_store` | 4 symmetric requests, 1 scan, 2 rows | `TypeOK`, `TokensAreGranted`, `GoneIsGone`, `DisableSticks` | 811 878 |
| `vendor_swap_lost` | 3 requests, 1 scan, 1 row | violates `SwapSurvives` | |
| `scanner_registry` | every scanner on its grid, three weights, all regimes | `TypeOK`, `InvalidationAhead`, `MirrorImages`, `RegimesAgree`, `WallsBracketSpot`, `MaxPainBalances` | 104 744 |
| `research_jobs` | 1 backtest row, 1 model row, each executed inline, by the worker or both, 2 deliveries, fair | `SettledTellsAll`, `ReportsStayPut`, `JobsSettle` | 888 710 |
| `research_votes` | 2 scanners, 2 symbols, three kinds of history, 2 roster validations, 1 ensemble | `TypeOK`, `PromotionIsEarned`, `RetiredIsSilent` | 756 265 |
| `history` | 8 bars of four shapes, swings of 1 bar, or 7 turns of five lessons | `TypeOK`, `PivotsMatter`, `RulesFireOnTheirReason`, `PaidTwice`, `PivotsStay` | 900 605 |
| `feed` | 2 symbols, 1 rule that fits the second, 3 executions, lists and buffer of 2, fair | `TypeOK`, `AlertsFollowRules`, `StreamShowsNewestFirst`, `PollingCatchesUp` | 2 024 204 |

Why the bounds are enough.

* Scan runs share nothing but Redis and the queue, so one run has every interference.
  Two deliveries and the inline task give three overlapping attempts; rows of earlier
  symbols, which a broken session may lose, need more symbols, and `scan_once` has three.
  All safety properties of `ScanRuns` are also proved for every universe.
* Five traded bars are an entry, a bar that reaches breakeven, one that trails, one that
  stops, and one for the next entry; the prices reach from below the stop of a position
  to above its target on both sides, the time stop falls inside the series, and an
  equity of 2 can be lost by one stop with its costs.
* Four requests are connect, exchange, and a pair that races (disable and delete, rotate
  and exchange) around one refresh; two rows make "newest" matter.
* Jobs share nothing but the registry: one backtest and one training write to it side by side.
  Two deliveries beside an inline execution are an execution, its repetition and a rival
  of both. Two roster validations give an ensemble an older and a newer record
  of the same scanner; the histories are one without a loss, one that earns in trends
  what it loses in ranges, and one below the trade floor.
* With eight units to a dollar, straddles of 1, 8, 11, 12 and 20 give a wing that
  is lifted to its least, exact, rounded down, and twice rounded from a half to even; spots of 6 to 9 lie on both sides of the
  body's own rounding. Exposure curves with uneven slopes have their zero off the middle of
  a cell, and spots lie on points of the curve, between two, and beyond both ends.
* Eight bars with swings of one bar are six candidates for pivots. A turn that ends up smaller
  than the minimum needs them: a low above the high before it, by a gap, whose replacement
  comes after the move was measured. Seven turns are two per half with and without a reason.
* A list and a buffer of two are both shorter than the four rows of two executions, so rows
  drop out of either.

`CHECK_DEADLOCK FALSE` is set except in `scanner_registry`: these systems stop by design
when every run has settled, every bar is replayed, every request served.

### Fairness

* `scan_faults` (`FairSpec`). Weak fairness of every execution's steps and of the request
  handler: the event loop runs whatever can run, and each await of the model ends. Weak
  fairness of acknowledging a job: the worker does it next. Weak fairness of
  `RestoreRedis`: an outage ends. Strong fairness of `StartJob`: the worker polls the
  queue twice a second for ever, so an outage that keeps returning does not coincide with
  every poll. Faults and the creation of runs are not fair. `RunsSettle` excuses a run
  an attempt of which was cut off by a fault or met a failing database.
* `research_jobs` (`Spec`). Weak fairness of each execution's steps, taking it from the queue
  among them, for the same reasons. Nothing asks a job to be created, dropped or to lose its
  database. `JobsSettle` excuses a job of which an execution was lost or raised.
* `feed` (`FairSpec`). Weak fairness of `Poll` and `YieldPolled` only: the page's timer
  fires and its generator is resumed. Nothing is asked of the worker, of Redis or of the
  user, and `PollingCatchesUp` speaks of runs that have ended.

## 5. What is proved

For every value of the constants within the named assumptions.

**`ScanRuns_proofs`.** Seven theorems along one chain of inductive invariants.

* `TypeCorrect`, from `TypeInv`.
* `DoneCorrect`: a run that reads `done` has the complete output of one attempt committed,
  or has lost it in exactly one way: to an aborted transaction whose failing statement the
  scan suppressed. `DoneIsComplete` says nothing of executions on their way to `done`;
  `DoneInv` adds that every live execution keeps its output: the rows of the symbols it has
  passed are committed, pending or lost in that way, unless its session is broken. A broken
  session cannot commit, so it cannot reach `done`. That nothing is lost at all
  (`DoneIsSaved`) is false: section 6.
* `FieldsCorrect` (`FieldsTellReruns`). `FieldsInv` adds that a run no client has created
  is untouched, that attempts at work at the same time have different numbers, and that
  once a run has ended nobody works in its only attempt.
* `RunsAreOwned` (`NoRunForgotten`). `OwnedInv` adds where a queued job comes from: it is
  not there before the handler put it there, and one queued again was dropped.
* `SentAlwaysKept` (`SentIsKept`) and `ReadersSeeWhole` (`RowsInWhole`). `KeptInv` describes
  the sessions (`Tidy`): only an execution inside an attempt holds rows or a failed
  session; a signal being published is stored or pending; pending rows complete each
  other up to a result whose `build_signal` raised. A job or handler owns a live execution
  (`InHand`).
* `OnceImplementsLifecycle`: under `AtMostOnceFaults` (no lost answer to an enqueue, no
  dropped job) `ScanRuns` implements `RunLifecycle`, initial states to initial states and
  every step to a step or a stutter. `OnceInv` adds to `KeptInv` that the handler hands a
  run to one execution only and that the status keeps step with it.

**`BacktestEngine_proofs`.** `PositionBracketed`, `TradesPlanned`, `StopsOnlyTighten`,
`RuinedForGood` and `TypeCorrect` from `IInv`, which adds where the target was put and how
far the stop may have moved (`Kept`), how old a position can be for the bar at hand
(`Timing`), and that a position was opened with positive equity (`Backed`). That an exit
loses no more than the plan follows from the stop being above the planned one; that it
wins no more than the target from the stop staying below it, for which the ratchet's bar
must not have reached the target. `PositionsInTurn` and `CurveIsTheTrades` from
`LedgerInv`, whose `Books` says where curve, trades and equity stand in each phase.

**`VendorKeys_proofs`.** `TypeCorrect`, `DeletedForGood`, `TokensGranted`,
`DisabledForGood`. `GrantedInv` says where tokens may come from at all: every bundle with
an access or a refresh token, in a row, in a handler or in a scan, stems from an exchange.
Each step of handlers and scans is shown to be one of four things to the rows
(`RowStep`), which gives the types and the permanence of deletions; of each it is shown
whether it can write the column `enabled` (`SameFlags`), which gives `DisabledForGood`.

**`Research_proofs`.** `SettledAlwaysTells` and `ReportsAreFinal`, whatever the evidence
arithmetic returns and however the executions by worker and inline overlap. What
`SettledAlwaysTells` says of a job whose executions came to their end leaves out those that
lost their database. `ResearchInv`: a forward test past `SaveEdge` has its row
(`BacktestsTell`), and a model's row is its job's own and in training until the job has run
(`ModelsWait`). `ResearchTypeCorrect`, `PromotionsAreEarned` and `RetiredStaysSilent` are about
the arithmetic itself. Their invariant says where a row comes from: a row with tests holds
what `Decide`, the blend and the regime edges make of just these tests, a roster's histories
are those of its symbols, and an ensemble's records are rows of the registry. The steps are
then facts about sums: a mean of factors that exceeds one needs a test whose factor exceeds
one, and a pool in which every test lost has lost.

**`LiveFeed_proofs`.** `AlertsAlwaysFollow` from `FeedInv`: column and config of a rule
agree, the signal at hand heads the session, and a matching rule that was on throughout
has fired or is still listed. `StreamNewestFirst` from `StreamInv`: messages on the wire,
the current value and the buffer are one decreasing sequence, and the scan is past each.
`FeedTypeCorrect` from `FeedTyped` beside `FeedInv`: the buffer, whatever is pushed in whatever
order, holds no signal twice and never more than its limit.

**`Discovery_proofs`.** `BarsInOrder` from `DiscoveryInv`, which types bars and turns. On it rest

* `RulesAlwaysFire` (`RulesFireOnTheirReason`): the two tables agree code by code.
* `SuggestedPaidTwice` (`PaidTwice`): a part whose mean exceeds that of the whole has a member
  above the mean, and the rest one below it (`MeanBelow`, `LiftedHasBetter`).
* `PivotsAlwaysMatter` (`PivotsMatter`), by induction over the judged bars (`StepInduction`, a
  least counterexample): `TakeKeeps` shows that one more bar keeps the pivots alternating and
  each turn `Worth` it. The attempt to prove that every turn is worth the minimum failed at
  the replacement of a pivot after a gap, and TLC found the series (`EveryTurnMatters`, section
  6); `Worth` is what does hold.
* `PivotsNeverRepaint` (`PivotsStay`): a kept bar leaves the judgement of all bars before it as
  it was (`SameAfter`), and one more judged bar keeps all pivots but the last (`TakeKeepsFront`).

**`ScannerSuite_proofs`.** Whatever the snapshots:

* `WallsAlwaysBracketSpot`: walls enclose the spot, so `gamma_squeeze` can never trigger; it
  rests on properties of `Strongest` over finite sets.
* `MaxPainAlwaysBalances` (`MaxPainBalances`): from one strike to the next the writers' pain
  changes by the step times the difference between calls up to the one and puts past it, so
  the cheapest strike is where this difference changes sign.
* `RegimesAlwaysAgree` (`RegimesAgree`): where exposure rises with the price, and the spot is on
  a point of the curve, beyond its ends, or between two points that both lie on the same side
  of zero, the interpolated flip names the regime that the total exposure has. In the cell
  of the flip itself (`NextToFlip`) the two need not agree: the curve is 121 points between
  the extreme strikes, the total is taken at the spot, and TLC finds chains that differ.
* `SuiteTypeCorrect` (`TypeOK`) and `InvalidationStaysAhead` (`InvalidationAhead`), scanner by
  scanner; the invariant is that the answer at hand is the scanner's answer to the view. A
  butterfly's spot is inside its wings for every straddle but those of more than one and less
  than one and a half dollars, where rounding may put it outside the near wing, by less than
  a quarter of a dollar.
* `SidesMirror` (`MirrorImages`): whatever the snapshots, a view turned upside down gets the
  opposite side, under the opposite rule. Each scanner with two sides has a lemma that pairs the
  conditions of one branch with those of the other; `key_levels`, which takes the first of the
  levels that are near, needs that its first two change places. The views that fit two branches
  at once are named in `BothBranches`. The proof failed at first for `mtf_structure`, which has
  such views too: when the last swing high is below the last swing low, a close between them
  breaks both, and `classify_structure` tests the upward break first
  (`price_structure.py:78-85`). The grid had none of them; the exception is now stated.

Assumptions are the named `ASSUME`s of the modules. Most bound nothing but the sign or the
type of a parameter. The others are

* `PlanAssumption`: a target lies beyond its stop.
* `DiscoveryAssumption`: a swing has a bar on each side and the minimum move is positive, as the
  route's bounds have it (`routers/discovery.py:32-33`); prices are positive and features are
  numbers.
* `ResearchAssumption`: symbols are finitely many, and a test that ran has for each regime its
  trades (`compute_metrics`).
* `BarsAssumption`: a close lies within its bar, which `validate` and the vendors' bars give.
* `ChainsAssumption`: a chain lists finitely many strikes with open interest that is not negative,
  and where the spot is a point of the curve the exposure there has the sign of the total: both
  are the sum over the same options at the same price (`gex.py`).
* `DollarAssumption`: prices are whole numbers of a unit, and a dollar is any number of them.
* `ViewsAssumption`: prices are positive and `Pivot`, about which they are turned, is above them
  all; the two ends of an opening range or of a value area come together, in order, the point
  of control with them; `anchored_vwap` is run with a close before the last.

Only model-checked: liveness (`RunsSettle`, `JobsSettle`, `PollingCatchesUp`), which is
out of the prover's reach.

## 6. Where the code and its texts disagree

Three runs show the code doing something else than its comments say; the lines are quoted
under `findings` in `PROJECT.json`.

* The inline fallback is for a service without Redis, yet a run whose scanner triggers then
  ends in error, because publishing the signal raises (`scan_without_redis`).
* A backtest with a higher timeframe sees its unfinished bar (`backtest_htf`).
* A token refresh can write an old secret over a newer one (`vendor_swap_lost`).

Further formulas stand in the modules and in no run. TLC refutes each one when it is added
as an `INVARIANT` to the instance named.

| formula | instance | text | what happens |
|---|---|---|---|
| `CurveEndsAtEquity` | `BacktestEngine_replay.cfg` | `engine.py:145`, "close any residual position at the last bar"; `metrics.py:1` takes metrics "from closed trades + an equity curve" | the closing trade is not on the curve |
| `DoneIsSaved` | `ScanRuns_faults.cfg` | `scan_service.py:195`, "alerts are best-effort" | the alert rules are selected after the last symbol's rows were flushed; if this fails, the failure is suppressed, the commit (`:200`) of the aborted transaction is a rollback, and `done` is written without the rows |
| `CallersCanFallBack` | `VendorKeys_store.cfg` | `scan_service.py:235-236`, "returns None (so callers can fall back)" | a deletion during a refresh leaves a session that refuses all work |
| `EveryTurnMatters` | `Discovery.cfg` | `discovery.py:146`, "minimum move between consecutive pivots" | after a gap a pivot replaced by a more extreme one may end closer than that to the one before |
| `BoughtBeforeRise` | `Discovery.cfg` | `discovery.py:5`, "a pivot low followed by a rally" | after a gap the turn that follows a low may be below it |
| `AliveAtBirth` | `ScannerSuite_registry.cfg` | "Close back inside value", "Price exits the profitable wing band" (`options_gamma.py:567`) and the like | `volume_profile_poc`, and `mtf_structure` when its last swing low is above its last swing high, answer with a rule that is hit at the price they publish; a butterfly on a straddle of 1.49 at 100.76 has its near wing at 101, above the spot |
| `BreachIsCalled` | `ScannerSuite_registry.cfg` | `options_gamma.py:162`, "Spot broke the call wall in negative gamma" | walls are taken around the spot of the moment: proved unreachable |
| `PeersOrNoTrade` | `ScannerSuite_registry.cfg` | `cross_asset.py:4`, "degrade gracefully to a data-quality no-trade" | `cross_asset_risk` triggers without peers |
| `CalibratorServed` | `Research_jobs.cfg` | `repo.py:446`, "Newest fitted calibrator" | a newer row that is in training or failed hides the fitted one |
| `RegimeVerdictPools` | `Research_votes.cfg` with `Histories = {"few", "split"}` | `roster.py:42-43`, "pool trades + trade-weighted PF" | the factor is the plain mean over symbols (`:57`) |

What the properties excuse is part of what the code does:

* *Runs left `running`.* A job timeout cancels a scan past `except Exception`
  (`worker/main.py:22`), a dead API takes its inline tasks along, and an `except` clause that
  sets the status on a session that has just failed raises in its turn
  (`scan_service.py:203`, `backtest_service.py:105`, `discovery_service.py:57`). Nothing
  ever looks for such rows. `NoRunForgotten`, `RunsSettle`, `SettledTellsAll` and `JobsSettle`
  speak of the others.
* *Models left in `training`*: the same, and any exception (`ml_service.py` catches none).
* *Regimes in the flip's cell*, *wings with a straddle between 1 and 1.5*: section 5.

Met while modelling, and not formulas:

* *Front end.* The portfolio and gamma pages stop polling at `finished` (`types.ts:134`,
  `portfolio/+page.svelte:37`, `gamma/+page.svelte:21`) while the API says `done`
  (`repo.py:174`), so they poll on. The results page asks for a run's status once although
  `data.remote.ts:6` says it is polled. `api.ts:535-536` falls back to polling "if the SSE
  endpoint is unavailable", but without Redis the endpoint answers 200 and breaks later.
  Polled rows come newest first, untriggered ones among them, and are pushed one by one, so
  the buffer shows them the other way round; `pollSignals` is never aborted; the buffer
  keeps the signals of the run selected before. `api.ts:431` says that a rotation "bumps
  key_version", which is the constant 1.
* *Alerts.* `cooldown_seconds` is never read. Dispatch is synchronous, up to 8 s per rule
  in the event loop, and a webhook is delivered before its event is committed.
* *Self-grading.* Edge records and the calibrator are read once per scan. A forward test of
  one symbol and five trades replaces a roster record of many and empties its regime
  edges. A test without losses has its gain in money for a profit factor. An ensemble drops
  "the ones with no proven edge", yet a scanner without any record votes with 1.0, and one
  named twice votes twice. Validating the roster computes in the worker's event loop.
* *Scanners.* `catalyst_news` with balanced sentiment and unequal counts is bearish.
  `max_pain` without open interest is the lowest strike. The butterfly's wings are
  symmetric when the straddle rounds to one step. TRIN is missing in a total sell-off. The
  short side of `low_volume_pullback` looks at no structure. A missing VIX3M makes a
  normal contango. `spx_gamma_command` and the other gamma scanners may name different
  regimes when the exposure changes sign more than once. Scanners that publish neither
  close nor spot never get a plan.
* *Data.* One bar dated into the future discards all bars until then
  (`validation.py:46`). Suggested rules fire on more bars than carried their reason, and
  not on those at the threshold.

## 7. What is not modelled

* Vendor adapters: network I/O, whose results are inputs here. Calendars only set flags.
* Indicators, greeks, implied volatilities and numeric training: floating point without
  state; what the decisions look at of them is an input. Scores, evidence items and texts
  of results and signals.
* Replays of ensembles (`ensemble_bt.py`), exits handed to the backtester as functions,
  rounding to cents.
* The order of the job queue and its `max_jobs`: jobs share nothing but the rows they
  name.
* Labels, scopes and ciphers of vendor keys, and the keys of vendors without tokens.
* Reports, exports, health checks and authentication, which keep no state; migrations; the
  desktop shell, and web pages other than the results page.
* Storage of option chains, bars and reports beyond whether they were committed.

Hazards without a property are listed in `PROJECT.json`, each with the reason.
