------------------------------ MODULE ScanRuns ------------------------------
(***************************************************************************)
(* The life of a scan run: POST /scans stores it and hands it to the arq   *)
(* queue or to an in-process background task; execute_scan walks the run's *)
(* universe inside one database session, publishing and alerting as it     *)
(* goes; GET /scans/{id} and the result endpoints read what was committed. *)
(*                                                                         *)
(* A run may be executed more than once (an enqueue whose answer is lost   *)
(* also starts the inline task; arq redelivers a job its worker dropped),  *)
(* so every row carries the number of the attempt that wrote it.           *)
(***************************************************************************)
EXTENDS Naturals, FiniteSets

CONSTANTS
    Runs,       \* scan runs the clients create
    N,          \* length of a run's universe (its symbols, by position)
    MaxTries,   \* how often arq hands out one job before it gives up
    Faults      \* which of FaultKinds the environment may inject

FaultKinds == {"raise",     \* a data source or scanner raises
               "redis",     \* Redis goes down and comes back
               "reply",     \* closing the enqueue pool fails after the enqueue
               "db",        \* a database statement fails
               "api",       \* the API process dies
               "restart",   \* a worker drops its job (shutdown or death)
               "timeout"}   \* arq cancels a job after job_timeout

ASSUME NAssumption == N \in Nat \ {0}
ASSUME MaxTriesAssumption == MaxTries \in Nat \ {0}
ASSUME FaultsAssumption == Faults \subseteq FaultKinds

VARIABLES
    status, finished, error,        \* the scan_runs row
    begun,                          \* attempts that marked the run "running"
    http, job, tries, redis,        \* request handler, arq job, Redis
    pc, att, pos, seen,             \* each execution of execute_scan
    pend, aborted, broken,          \* its session: rows, state after a failure
    db,                             \* committed result, signal, event rows
    lost,                           \* history: rows an aborted transaction held
    skipped, published, delivered,  \* symbols without bars; sent to outsiders
    cut                             \* attempts a fault cut short (0: before one)

runVars     == <<status, finished, error, begun>>
queueVars   == <<http, job, tries, redis>>
execVars    == <<pc, att, pos, seen>>
sessionVars == <<pend, aborted, broken, db, lost, cut>>
outVars     == <<skipped, published, delivered>>
vars        == <<runVars, queueVars, execVars, sessionVars, outVars>>

Positions == 1..N
Terminal  == {"done", "error"}
Execs     == Runs \X {"inline", "job"}
Inline(r) == <<r, "inline">>
Job(r)    == <<r, "job">>

Row(a, k, p) == [att |-> a, kind |-> k, pos |-> p]
Rows == [att : Nat, kind : {"result", "signal", "event"}, pos : Positions]

Stages == {"ready", "loaded", "setup", "fetch", "bars", "context", "score",
           "publish", "alerts", "finish", "fail"}
Live(e) == pc[e] \in Stages

Injected(f) == f \in Faults

-----------------------------------------------------------------------------
Init ==
    /\ status = [r \in Runs |-> "none"]
    /\ finished = [r \in Runs |-> FALSE]
    /\ error = [r \in Runs |-> FALSE]
    /\ begun = [r \in Runs |-> 0]
    /\ http = [r \in Runs |-> "idle"]
    /\ job = [r \in Runs |-> "none"]
    /\ tries = [r \in Runs |-> 0]
    /\ redis = TRUE
    /\ pc = [e \in Execs |-> "off"]
    /\ att = [e \in Execs |-> 0]
    /\ pos = [e \in Execs |-> 1]
    /\ seen = [e \in Execs |-> "none"]
    /\ pend = [e \in Execs |-> {}]
    /\ aborted = [e \in Execs |-> FALSE]
    /\ broken = [e \in Execs |-> FALSE]
    /\ db = [r \in Runs |-> {}]
    /\ lost = [r \in Runs |-> {}]
    /\ skipped = [r \in Runs |-> {}]
    /\ published = [r \in Runs |-> {}]
    /\ delivered = [r \in Runs |-> {}]
    /\ cut = [r \in Runs |-> {}]

-----------------------------------------------------------------------------
(* What a step does to the session of execution e.                         *)

Flowing == UNCHANGED sessionVars

Commit(e) ==
    /\ ~broken[e] /\ ~aborted[e]
    /\ db' = [db EXCEPT ![e[1]] = @ \cup pend[e]]
    /\ pend' = [pend EXCEPT ![e] = {}]
    /\ UNCHANGED <<aborted, broken, lost, cut>>

Cut(e) == cut' = [cut EXCEPT ![e[1]] = @ \cup {att[e]}]

(* A statement fails after the rows pending were flushed: PostgreSQL       *)
(* aborts the transaction and discards them with it. The session does not  *)
(* know, and works on in a transaction that refuses every statement.       *)
Abort(e) ==
    /\ Injected("db")
    /\ ~broken[e] /\ ~aborted[e]
    /\ aborted' = [aborted EXCEPT ![e] = TRUE]
    /\ lost' = [lost EXCEPT ![e[1]] = @ \cup pend[e]]
    /\ pend' = [pend EXCEPT ![e] = {}]
    /\ Cut(e)
    /\ UNCHANGED <<broken, db>>

(* A flush fails, as any does in an aborted transaction: the session rolls *)
(* back and refuses all further work, since nothing calls its rollback.    *)
Break(e) ==
    /\ Injected("db")
    /\ ~broken[e]
    /\ broken' = [broken EXCEPT ![e] = TRUE]
    /\ aborted' = [aborted EXCEPT ![e] = FALSE]
    /\ pend' = [pend EXCEPT ![e] = {}]
    /\ Cut(e)
    /\ UNCHANGED <<db, lost>>

Fails(e) == Abort(e) \/ Break(e)

(* With nothing to flush the COMMIT of an aborted transaction raises no    *)
(* error: PostgreSQL answers it with a ROLLBACK.                           *)
RollBackSilently(e) ==
    /\ aborted[e] /\ ~broken[e]
    /\ pend[e] = {}
    /\ aborted' = [aborted EXCEPT ![e] = FALSE]
    /\ UNCHANGED <<pend, broken, db, lost, cut>>

(* Mutant: save_result commits on its own, as save_ohlcv_bars does.        *)
AddResultAtOnce(e, kinds) ==
    LET rows == {Row(att[e], k, pos[e]) : k \in kinds}
        now  == {x \in rows : x.kind = "result"} IN
    /\ db' = [db EXCEPT ![e[1]] = @ \cup now]
    /\ pend' = [pend EXCEPT ![e] = @ \cup (rows \ now)]
    /\ UNCHANGED <<aborted, broken, lost, cut>>

Add(e, kinds) ==
    /\ pend' = [pend EXCEPT ![e] = @ \cup {Row(att[e], k, pos[e]) : k \in kinds}]
    /\ UNCHANGED <<aborted, broken, db, lost, cut>>

(* Closing a session discards what it did not commit.                      *)
Close(e) ==
    /\ pend' = [pend EXCEPT ![e] = {}]
    /\ aborted' = [aborted EXCEPT ![e] = FALSE]
    /\ broken' = [broken EXCEPT ![e] = FALSE]

Goto(e, from, to) ==
    /\ pc[e] = from
    /\ pc' = [pc EXCEPT ![e] = to]
    /\ UNCHANGED <<att, seen>>

(* An execution starts or ends: its local variables are fresh, or gone.    *)
Reset(e, to) ==
    /\ pc' = [pc EXCEPT ![e] = to]
    /\ att' = [att EXCEPT ![e] = 0]
    /\ pos' = [pos EXCEPT ![e] = 1]
    /\ seen' = [seen EXCEPT ![e] = "none"]

NextSymbol(e, from) ==
    /\ Goto(e, from, "fetch")
    /\ pos' = [pos EXCEPT ![e] = @ + 1]

-----------------------------------------------------------------------------
(* POST /scans: create_scan and jobs._enqueue.                             *)

CreateRun(r) ==
    /\ http[r] = "idle"
    /\ http' = [http EXCEPT ![r] = "created"]
    /\ status' = [status EXCEPT ![r] = "queued"]
    /\ UNCHANGED <<finished, error, begun, job, tries, redis>>
    /\ UNCHANGED <<execVars, sessionVars, outVars>>

EnqueueJob(r) ==
    /\ http[r] = "created"
    /\ redis
    /\ http' = [http EXCEPT ![r] = "enqueued"]
    /\ job' = [job EXCEPT ![r] = "queued"]
    /\ UNCHANGED <<tries, redis>>
    /\ UNCHANGED <<runVars, execVars, sessionVars, outVars>>

ClosePool(r) ==
    /\ http[r] = "enqueued"
    /\ http' = [http EXCEPT ![r] = "accepted"]
    /\ UNCHANGED <<job, tries, redis>>
    /\ UNCHANGED <<runVars, execVars, sessionVars, outVars>>

(* Mutants: the answer False schedules nothing; every answer schedules.    *)
ForgetFallBack(r) ==
    /\ http[r] = "created" /\ ~redis
    /\ http' = [http EXCEPT ![r] = "refused"]
    /\ UNCHANGED <<job, tries, redis, runVars, execVars, sessionVars, outVars>>

AlwaysFallBack(r) ==
    /\ http[r] \in {"created", "enqueued"}
    /\ http' = [http EXCEPT ![r] = "refused"]
    /\ Reset(Inline(r), "ready")
    /\ UNCHANGED <<job, tries, redis, runVars, sessionVars, outVars>>

(* enqueue_scan answers False, so create_scan schedules _run_inline: Redis *)
(* is down, or the job is in but pool.aclose() raised.                     *)
FallBackInline(r) ==
    /\ \/ http[r] = "created" /\ ~redis
       \/ http[r] = "enqueued" /\ Injected("reply")
    /\ http' = [http EXCEPT ![r] = "refused"]
    /\ Reset(Inline(r), "ready")
    /\ UNCHANGED <<job, tries, redis>>
    /\ UNCHANGED <<runVars, sessionVars, outVars>>

-----------------------------------------------------------------------------
(* The arq worker: at-least-once delivery of run_scan, MaxTries at most.   *)

StartJob(r) ==
    /\ job[r] = "queued"
    /\ redis
    /\ tries[r] < MaxTries
    /\ job' = [job EXCEPT ![r] = "active"]
    /\ tries' = [tries EXCEPT ![r] = @ + 1]
    /\ Reset(Job(r), "ready")
    /\ UNCHANGED <<http, redis>>
    /\ UNCHANGED <<runVars, sessionVars, outVars>>

AbandonJob(r) ==
    /\ job[r] = "queued"
    /\ redis
    /\ tries[r] = MaxTries
    /\ job' = [job EXCEPT ![r] = "finished"]
    /\ UNCHANGED <<http, tries, redis>>
    /\ UNCHANGED <<runVars, execVars, sessionVars, outVars>>

AckJob(r) ==
    /\ job[r] = "active"
    /\ pc[Job(r)] = "ended"
    /\ job' = [job EXCEPT ![r] = "finished"]
    /\ UNCHANGED <<http, tries, redis>>
    /\ UNCHANGED <<runVars, execVars, sessionVars, outVars>>

(* The attempt an execution stands for when a fault removes it.            *)
CutAttempt(e) == IF Live(e) THEN att[e] ELSE 0

DropExecution(e) ==
    /\ Reset(e, "off")
    /\ cut' = [cut EXCEPT ![e[1]] = @ \cup {CutAttempt(e)}]
    /\ Close(e)
    /\ UNCHANGED <<db, lost, runVars, outVars>>

DropJob(r) ==
    /\ Injected("restart")
    /\ job[r] = "active"
    /\ job' = [job EXCEPT ![r] = "queued"]
    /\ DropExecution(Job(r))
    /\ UNCHANGED <<http, tries, redis>>

(* job_timeout cancels the task: CancelledError passes `except Exception`. *)
TimeoutJob(r) ==
    /\ Injected("timeout")
    /\ job[r] = "active"
    /\ Live(Job(r))
    /\ job' = [job EXCEPT ![r] = "finished"]
    /\ DropExecution(Job(r))
    /\ UNCHANGED <<http, tries, redis>>

(* The API process dies with its request handlers and background tasks.    *)
CrashApi ==
    /\ Injected("api")
    /\ \E r \in Runs : http[r] \in {"created", "enqueued"} \/ Live(Inline(r))
    /\ http' = [r \in Runs |->
                 IF http[r] \in {"created", "enqueued"} THEN "lost" ELSE http[r]]
    /\ pc' = [e \in Execs |-> IF e[2] = "inline" THEN "off" ELSE pc[e]]
    /\ att' = [e \in Execs |-> IF e[2] = "inline" THEN 0 ELSE att[e]]
    /\ pos' = [e \in Execs |-> IF e[2] = "inline" THEN 1 ELSE pos[e]]
    /\ seen' = [e \in Execs |-> IF e[2] = "inline" THEN "none" ELSE seen[e]]
    /\ pend' = [e \in Execs |-> IF e[2] = "inline" THEN {} ELSE pend[e]]
    /\ aborted' = [e \in Execs |-> e[2] # "inline" /\ aborted[e]]
    /\ broken' = [e \in Execs |-> e[2] # "inline" /\ broken[e]]
    /\ cut' = [r \in Runs |->
                IF Live(Inline(r)) THEN cut[r] \cup {att[Inline(r)]}
                ELSE IF http[r] = "created" THEN cut[r] \cup {0} ELSE cut[r]]
    /\ UNCHANGED <<job, tries, redis, db, lost, runVars, outVars>>

(* An outage is taken from the moment somebody needs Redis: nobody can     *)
(* tell whether it began before.                                           *)
LoseRedis ==
    /\ Injected("redis")
    /\ redis
    /\ \E r \in Runs : \/ http[r] = "created" \/ job[r] = "queued"
                      \/ \E e \in Execs : e[1] = r /\ pc[e] = "publish"
    /\ redis' = FALSE
    /\ UNCHANGED <<http, job, tries>>
    /\ UNCHANGED <<runVars, execVars, sessionVars, outVars>>

RestoreRedis ==
    /\ ~redis
    /\ redis' = TRUE
    /\ UNCHANGED <<http, job, tries>>
    /\ UNCHANGED <<runVars, execVars, sessionVars, outVars>>

-----------------------------------------------------------------------------
(* execute_scan. A step runs from one await that touches the database or   *)
(* Redis to the next.                                                      *)

(* repo.get_run: the session keeps the row as it reads it now.             *)
LoadRun(e) ==
    /\ pc[e] = "ready"
    /\ pc' = [pc EXCEPT ![e] = "loaded"]
    /\ seen' = [seen EXCEPT ![e] = status[e[1]]]
    /\ UNCHANGED <<att, pos>>
    /\ UNCHANGED <<runVars, queueVars, sessionVars, outVars>>

(* set_run_status("running"): the ORM writes nothing when the status it    *)
(* loaded was "running" already.                                           *)
MarkRunning(e) ==
    LET r == e[1] IN
    /\ pc[e] = "loaded"
    /\ pc' = [pc EXCEPT ![e] = "setup"]
    /\ status' = [status EXCEPT ![r] =
                    IF seen[e] = "running" THEN @ ELSE "running"]
    /\ begun' = [begun EXCEPT ![r] = @ + 1]
    /\ att' = [att EXCEPT ![e] = begun[r] + 1]
    /\ seen' = [seen EXCEPT ![e] = "none"]
    /\ UNCHANGED <<pos, finished, error>>
    /\ UNCHANGED <<queueVars, sessionVars, outVars>>

(* Both calls come before the try: their failure leaves the row alone.     *)
FailToBegin(e) ==
    /\ Injected("db")
    /\ pc[e] \in {"ready", "loaded"}
    /\ Reset(e, "ended")
    /\ cut' = [cut EXCEPT ![e[1]] = @ \cup {0}]
    /\ UNCHANGED <<pend, aborted, broken, db, lost>>
    /\ UNCHANGED <<runVars, queueVars, outVars>>

(* Sources, calibrator, edge record and peers, once for the whole run.     *)
SetUp(e) ==
    /\ \/ Goto(e, "setup", "fetch") /\ Flowing
       \/ Goto(e, "setup", "fail") /\ Injected("raise") /\ Flowing
       \/ Goto(e, "setup", "fail") /\ Fails(e)
    /\ UNCHANGED <<pos, runVars, queueVars, outVars>>

(* Mutant: an off-by-one in the walk over the universe.                    *)
MoreSymbolsByOne(e) == pos[e] <= N + 1

MoreSymbols(e) == pos[e] <= N

FetchBars(e) ==
    /\ MoreSymbols(e)
    /\ \/ Goto(e, "fetch", "bars")
       \/ Goto(e, "fetch", "fail") /\ Injected("raise")
    /\ UNCHANGED <<pos, outVars>>
    /\ UNCHANGED <<runVars, queueVars, sessionVars>>

(* No usable bars: `continue`.                                             *)
SkipSymbol(e) ==
    /\ MoreSymbols(e)
    /\ NextSymbol(e, "fetch")
    /\ skipped' = [skipped EXCEPT ![e[1]] = @ \cup {<<att[e], pos[e]>>}]
    /\ UNCHANGED <<published, delivered>>
    /\ UNCHANGED <<runVars, queueVars, sessionVars>>

(* save_ohlcv_bars and save_option_chain flush and commit the session they *)
(* are given, with the rows of the symbols before this one; the caller     *)
(* suppresses their errors, whatever they leave the session in.            *)
Persist(e) == Commit(e) \/ Flowing \/ Fails(e)

SaveBars(e) ==
    /\ Goto(e, "bars", "context")
    /\ Persist(e)
    /\ UNCHANGED <<pos, runVars, queueVars, outVars>>

SaveChain(e) == Persist(e)

(* Higher timeframe, option chain, flow, earnings and news, for the        *)
(* scanners that need them.                                                *)
GatherContext(e) ==
    /\ \/ Goto(e, "context", "score") /\ (Flowing \/ SaveChain(e))
       \/ /\ Goto(e, "context", "fail") /\ Flowing
          /\ Injected("raise") \/ aborted[e] \/ broken[e]
       \/ Goto(e, "context", "fail") /\ Fails(e)
    /\ UNCHANGED <<pos, runVars, queueVars, outVars>>

(* Mutant: the loop swallows what a scanner raises and goes on.            *)
ScoreOrSwallow(e) ==
    /\ \/ Goto(e, "score", "publish") /\ UNCHANGED pos
          /\ Add(e, {"result", "signal"})
       \/ NextSymbol(e, "score")
          /\ (Add(e, {"result", "signal"}) \/ Flowing)
    /\ UNCHANGED <<runVars, queueVars, outVars>>

(* build_snapshot, scanner.run, save_result, build_signal, save_signal:    *)
(* nothing is awaited in between, and anything may raise.                  *)
ScoreSymbol(e) ==
    /\ \/ Goto(e, "score", "publish") /\ UNCHANGED pos
          /\ Add(e, {"result", "signal"})
       \/ NextSymbol(e, "score")
          /\ Add(e, {"result", "signal"})
       \/ Goto(e, "score", "fail") /\ UNCHANGED pos
          /\ Injected("raise")
          /\ (Flowing \/ Add(e, {"result"}))
    /\ UNCHANGED <<runVars, queueVars, outVars>>

PublishSignal(e) ==
    /\ \/ /\ Goto(e, "publish", "alerts")
          /\ redis
          /\ published' = [published EXCEPT ![e[1]] = @ \cup {<<att[e], pos[e]>>}]
       \/ /\ Goto(e, "publish", "fail")
          /\ ~redis
          /\ UNCHANGED published
    /\ UNCHANGED <<pos, skipped, delivered>>
    /\ UNCHANGED <<runVars, queueVars, sessionVars>>

(* evaluate_alerts, errors suppressed: reads the rules, which flushes the  *)
(* rows of the signal first, delivers at once for those that match and     *)
(* adds the event rows to the session.                                     *)
EvaluateAlerts(e) ==
    /\ NextSymbol(e, "alerts")
    /\ \/ Flowing /\ ~aborted[e] /\ UNCHANGED delivered
       \/ Fails(e) /\ UNCHANGED delivered
       \/ /\ ~broken[e] /\ ~aborted[e]
          /\ Add(e, {"event"})
          /\ delivered' = [delivered EXCEPT ![e[1]] = @ \cup {<<att[e], pos[e]>>}]
    /\ UNCHANGED <<skipped, published>>
    /\ UNCHANGED <<runVars, queueVars>>

CommitRows(e) ==
    /\ ~MoreSymbols(e)
    /\ \/ Goto(e, "fetch", "finish") /\ (Commit(e) \/ RollBackSilently(e))
       \/ Goto(e, "fetch", "fail") /\ Flowing /\ broken[e]
       \/ Goto(e, "fetch", "fail") /\ Break(e)
    /\ UNCHANGED <<pos, runVars, queueVars, outVars>>

(* Mutants: the end is recorded after a rollback; only "done" gets a       *)
(* finished_at.                                                            *)
ConcludeByRollback(e, verdict) ==
    /\ Reset(e, "ended")
    /\ Close(e)
    /\ status' = [status EXCEPT ![e[1]] = verdict]
    /\ finished' = [finished EXCEPT ![e[1]] = TRUE]
    /\ UNCHANGED <<db, lost, cut>>

ConcludeDoneOnly(e, verdict) ==
    /\ Reset(e, "ended")
    /\ Commit(e)
    /\ status' = [status EXCEPT ![e[1]] = verdict]
    /\ finished' = [finished EXCEPT ![e[1]] = @ \/ verdict = "done"]

(* set_run_status with a terminal status: commits all that is pending.     *)
Conclude(e, verdict) ==
    /\ Reset(e, "ended")
    /\ Commit(e)
    /\ status' = [status EXCEPT ![e[1]] = verdict]
    /\ finished' = [finished EXCEPT ![e[1]] = TRUE]

MarkDone(e) ==
    /\ \/ pc[e] = "finish" /\ Conclude(e, "done")
       \/ Goto(e, "finish", "fail") /\ Break(e) /\ UNCHANGED <<pos, status, finished>>
    /\ UNCHANGED <<error, begun, queueVars, outVars>>

(* The except clause: set_run_status("error", str(exc)); an empty str(exc) *)
(* records no text. After a failure of the session it fails in its turn,   *)
(* and the row stays as it is.                                             *)
MarkError(e) ==
    /\ pc[e] = "fail"
    /\ Conclude(e, "error")
    /\ error' = [error EXCEPT ![e[1]] = TRUE] \/ UNCHANGED error
    /\ UNCHANGED <<begun, queueVars, outVars>>

FailToMarkError(e) ==
    /\ pc[e] = "fail"
    /\ Reset(e, "ended")
    /\ Close(e)
    /\ aborted[e] \/ broken[e] \/ Injected("db")
    /\ Cut(e)
    /\ UNCHANGED <<db, lost, runVars, queueVars, outVars>>

Step(e) ==
    \/ LoadRun(e) \/ MarkRunning(e) \/ FailToBegin(e) \/ SetUp(e)
    \/ FetchBars(e) \/ SkipSymbol(e) \/ SaveBars(e) \/ GatherContext(e)
    \/ ScoreSymbol(e) \/ PublishSignal(e) \/ EvaluateAlerts(e)
    \/ CommitRows(e) \/ MarkDone(e) \/ MarkError(e) \/ FailToMarkError(e)

-----------------------------------------------------------------------------
Handle(r) == CreateRun(r) \/ EnqueueJob(r) \/ ClosePool(r) \/ FallBackInline(r)

Queue(r) == StartJob(r) \/ AbandonJob(r) \/ AckJob(r) \/ DropJob(r) \/ TimeoutJob(r)

Next ==
    \/ \E r \in Runs : Handle(r) \/ Queue(r)
    \/ \E e \in Execs : Step(e)
    \/ CrashApi
    \/ LoseRedis
    \/ RestoreRedis

Spec == Init /\ [][Next]_vars

(* The event loop and the worker keep going: an execution that can step    *)
(* does, the request handler finishes, a Redis outage ends, and the        *)
(* worker's poll (every half second) does not miss Redis every time.       *)
Fairness ==
    /\ WF_vars(RestoreRedis)
    /\ \A e \in Execs : WF_vars(Step(e))
    /\ \A r \in Runs : /\ WF_vars(EnqueueJob(r) \/ ClosePool(r) \/ FallBackInline(r))
                       /\ SF_vars(StartJob(r))
                       /\ WF_vars(AckJob(r))

FairSpec == Spec /\ Fairness

-----------------------------------------------------------------------------
TypeOK ==
    /\ status \in [Runs -> {"none", "queued", "running"} \cup Terminal]
    /\ finished \in [Runs -> BOOLEAN]
    /\ error \in [Runs -> BOOLEAN]
    /\ begun \in [Runs -> Nat]
    /\ http \in [Runs -> {"idle", "created", "enqueued", "accepted", "refused", "lost"}]
    /\ job \in [Runs -> {"none", "queued", "active", "finished"}]
    /\ tries \in [Runs -> 0..MaxTries]
    /\ redis \in BOOLEAN
    /\ pc \in [Execs -> {"off", "ended"} \cup Stages]
    /\ att \in [Execs -> Nat]
    /\ pos \in [Execs -> 1..N+1]
    /\ seen \in [Execs -> {"none", "queued", "running"} \cup Terminal]
    /\ pend \in [Execs -> SUBSET Rows]
    /\ aborted \in [Execs -> BOOLEAN]
    /\ broken \in [Execs -> BOOLEAN]
    /\ db \in [Runs -> SUBSET Rows]
    /\ lost \in [Runs -> SUBSET Rows]
    /\ skipped \in [Runs -> SUBSET (Nat \X Positions)]
    /\ published \in [Runs -> SUBSET (Nat \X Positions)]
    /\ delivered \in [Runs -> SUBSET (Nat \X Positions)]
    /\ cut \in [Runs -> SUBSET Nat]

(* Of the first k symbols, those not in skips have both the result and the *)
(* signal of attempt a in rows.                                            *)
Covered(a, k, rows, skips) ==
    \A p \in 1..k : \/ <<a, p>> \in skips
                    \/ {Row(a, "result", p), Row(a, "signal", p)} \subseteq rows

(* A run that reads "done" has the complete output of one attempt in the   *)
(* database, whatever other attempts, crashes and suppressed failures did, *)
(* but for the rows that an aborted transaction took along when the        *)
(* statement that aborted it was one whose failure the scan suppresses.    *)
DoneIsComplete ==
    \A r \in Runs : status[r] = "done" =>
        \E a \in 1..begun[r] : Covered(a, N, db[r] \cup lost[r], skipped[r])

(* What the scan's "alerts are best-effort" suggests: rules that cannot be *)
(* read cost a run its alerts only, so what reads "done" is stored.        *)
DoneIsSaved ==
    \A r \in Runs : status[r] = "done" =>
        \E a \in 1..begun[r] : Covered(a, N, db[r], skipped[r])

(* What a subscriber was sent or a webhook received before the commit is   *)
(* persisted in the end (execute_scan publishes, then commits, and its     *)
(* except clause commits too) unless a fault cut that attempt short.       *)
SentIsKept ==
    \A r \in Runs : \A s \in published[r] \cup delivered[r] :
        \/ s[1] \in cut[r]
        \/ Row(s[1], "signal", s[2]) \in db[r]
        \/ \E e \in Execs : /\ e[1] = r /\ Live(e) /\ att[e] = s[1]
                            /\ Row(s[1], "signal", s[2]) \in pend[e]

(* Rows become visible in whole: a committed alert event has its signal, a *)
(* signal its result, and a result lacks its signal only in an attempt     *)
(* that raised in build_signal, so the run was marked as failed.           *)
RowsInWhole ==
    \A r \in Runs : \A x \in db[r] :
        /\ x.kind = "event" => Row(x.att, "signal", x.pos) \in db[r]
        /\ x.kind = "signal" => Row(x.att, "result", x.pos) \in db[r]
        /\ x.kind = "result" => \/ Row(x.att, "signal", x.pos) \in db[r]
                                \/ finished[r]

(* A run that is not settled has someone who will settle it (the handler   *)
(* that created it, its queued job, or a live execution), unless a fault   *)
(* cut one of its attempts: no path of the code itself forgets a run.      *)
Owned(r) ==
    \/ http[r] = "created"
    \/ job[r] = "queued"
    \/ \E e \in Execs : e[1] = r /\ Live(e)

NoRunForgotten ==
    \A r \in Runs : status[r] \in {"queued", "running"} => Owned(r) \/ cut[r] # {}

(* finished_at and error are never taken back. A settled run carries its   *)
(* end time; one that reads unsettled with an end time, or "done" with an  *)
(* error text, has been executed more than once.                           *)
FieldsTellReruns ==
    \A r \in Runs :
        /\ status[r] \in Terminal => finished[r]
        /\ finished[r] /\ status[r] \notin Terminal => begun[r] >= 2
        /\ error[r] => finished[r]
        /\ error[r] /\ status[r] = "done" => begun[r] >= 2

-----------------------------------------------------------------------------
(* The lifecycle a client of one run relies on: see RunLifecycle.          *)
Lifecycle == INSTANCE RunLifecycle WITH state <- status, rows <- db

(* A run that is executed at most once goes through that lifecycle and     *)
(* never leaves "done" or "error", nor do its visible rows change then.    *)
ImplementsLifecycle == Lifecycle!Spec

(* Every run that was created settles for good, whatever raises and        *)
(* however often Redis is away, unless a fault cuts an execution of it     *)
(* short: a process that dies, a commit that fails, a timeout.             *)
RunsSettle ==
    \A r \in Runs : (status[r] = "queued") ~> ([](status[r] \in Terminal) \/ cut[r] # {})

(* jobs.py: "the API falls back to running inline [...] when Redis/arq is  *)
(* unavailable, so the slice works without a separate worker process".     *)
InlineWorksWithoutRedis ==
    \A r \in Runs : pc[Inline(r)] = "ended" => status[r] # "error"
=============================================================================
