--------------------------- MODULE ScanRuns_proofs ---------------------------
(***************************************************************************)
(* Proofs about ScanRuns for any set of runs, any universe length, any     *)
(* number of redeliveries and any set of injected faults.                  *)
(***************************************************************************)
EXTENDS ScanRuns, TLAPS

USE NAssumption, MaxTriesAssumption

(* An execution that is working on a symbol is inside the universe, and    *)
(* one past set_run_status("running") is an attempt of its run.            *)
InRange ==
    /\ \A e \in Execs : pc[e] \in {"bars", "context", "score", "publish", "alerts"}
                            => pos[e] <= N
    /\ \A e \in Execs : pc[e] \in Stages \ {"ready", "loaded"}
                            => att[e] \in 1..begun[e[1]]

TypeInv == TypeOK /\ InRange

LEMMA RowType ==
    ASSUME NEW a \in Nat, NEW k \in {"result", "signal", "event"}, NEW p \in Positions
    PROVE  Row(a, k, p) \in Rows
  BY DEF Row, Rows

LEMMA ExecRun == ASSUME NEW e \in Execs PROVE e[1] \in Runs
  BY DEF Execs

LEMMA InitType == Init => TypeInv
  BY DEF Init, TypeInv, TypeOK, InRange, Stages, Execs, Terminal

LEMMA HandleType ==
    ASSUME TypeInv, NEW r \in Runs, Handle(r)
    PROVE  TypeInv'
  <1>0. Inline(r) \in Execs
    BY DEF Inline, Execs
  <1>1. CASE CreateRun(r)
    BY <1>1 DEF CreateRun, TypeInv, TypeOK, InRange, execVars, sessionVars, outVars
  <1>2. CASE EnqueueJob(r)
    BY <1>2 DEF EnqueueJob, TypeInv, TypeOK, InRange, runVars, execVars, sessionVars, outVars
  <1>3. CASE ClosePool(r)
    BY <1>3 DEF ClosePool, TypeInv, TypeOK, InRange, runVars, execVars, sessionVars, outVars
  <1>4. CASE FallBackInline(r)
    BY <1>0, <1>4 DEF FallBackInline, Reset, TypeInv, TypeOK, InRange, runVars, sessionVars, outVars, Stages
  <1>5. QED
    BY <1>1, <1>2, <1>3, <1>4 DEF Handle

LEMMA QueueType ==
    ASSUME TypeInv, NEW r \in Runs, Queue(r)
    PROVE  TypeInv'
  <1>0. Job(r) \in Execs /\ Job(r)[1] = r
    BY DEF Job, Execs
  <1>1. CASE StartJob(r)
    BY <1>0, <1>1 DEF StartJob, Reset, TypeInv, TypeOK, InRange, runVars, sessionVars, outVars, Stages
  <1>2. CASE AbandonJob(r)
    BY <1>2 DEF AbandonJob, TypeInv, TypeOK, InRange, runVars, execVars, sessionVars, outVars
  <1>3. CASE AckJob(r)
    BY <1>3 DEF AckJob, TypeInv, TypeOK, InRange, runVars, execVars, sessionVars, outVars
  <1>4. CASE DropJob(r)
    BY <1>0, <1>4 DEF DropJob, DropExecution, Reset, Close, CutAttempt, TypeInv, TypeOK,
                      InRange, runVars, outVars, Stages
  <1>5. CASE TimeoutJob(r)
    <2>1. TypeOK'
      BY <1>0, <1>5 DEF TimeoutJob, DropExecution, Reset, Close, CutAttempt, TypeInv, TypeOK,
                        runVars, outVars
    <2>2. InRange'
      BY <1>0, <1>5 DEF TimeoutJob, DropExecution, Reset, TypeInv, TypeOK, InRange, runVars,
                        Stages
    <2>3. QED
      BY <2>1, <2>2 DEF TypeInv
  <1>6. QED
    BY <1>1, <1>2, <1>3, <1>4, <1>5 DEF Queue

LEMMA CrashType == ASSUME TypeInv, CrashApi PROVE TypeInv'
  <1>1. \A r \in Runs : Inline(r) \in Execs
    BY DEF Inline, Execs
  <1>2. cut' \in [Runs -> SUBSET Nat]
    BY <1>1 DEF CrashApi, TypeInv, TypeOK
  <1>3. /\ pend' \in [Execs -> SUBSET Rows]
        /\ broken' \in [Execs -> BOOLEAN] /\ aborted' \in [Execs -> BOOLEAN]
    BY DEF CrashApi, TypeInv, TypeOK
  <1>4. /\ pc' \in [Execs -> {"off", "ended"} \cup Stages]
        /\ att' \in [Execs -> Nat]
        /\ pos' \in [Execs -> 1..N+1]
        /\ seen' \in [Execs -> {"none", "queued", "running"} \cup Terminal]
    BY DEF CrashApi, TypeInv, TypeOK
  <1>5. TypeOK'
    BY <1>2, <1>3, <1>4 DEF CrashApi, TypeInv, TypeOK, runVars, outVars
  <1>6. InRange'
    BY DEF CrashApi, TypeInv, TypeOK, InRange, runVars, Stages
  <1>7. QED
    BY <1>5, <1>6 DEF TypeInv

LEMMA RedisType == ASSUME TypeInv, LoseRedis \/ RestoreRedis PROVE TypeInv'
  BY DEF LoseRedis, RestoreRedis, TypeInv, TypeOK, InRange, runVars, execVars,
         sessionVars, outVars

(* The session operations keep the types of the session variables.         *)
SessionType ==
    /\ pend \in [Execs -> SUBSET Rows]
    /\ broken \in [Execs -> BOOLEAN] /\ aborted \in [Execs -> BOOLEAN]
    /\ db \in [Runs -> SUBSET Rows] /\ lost \in [Runs -> SUBSET Rows]
    /\ cut \in [Runs -> SUBSET Nat]

Uses(e) == Flowing \/ Commit(e) \/ RollBackSilently(e) \/ Fails(e)

LEMMA SessionSteps ==
    ASSUME TypeOK, NEW e \in Execs, Uses(e)
    PROVE  SessionType'
  <1>0. SessionType /\ e[1] \in Runs /\ att[e] \in Nat
    BY ExecRun DEF TypeOK, SessionType
  <1>1. CASE Flowing
    BY <1>0, <1>1 DEF SessionType, Flowing, sessionVars
  <1>2. CASE Commit(e)
    BY <1>0, <1>2 DEF SessionType, Commit
  <1>3. CASE RollBackSilently(e)
    BY <1>0, <1>3 DEF SessionType, RollBackSilently
  <1>4. CASE Abort(e)
    BY <1>0, <1>4 DEF SessionType, Abort, Cut
  <1>5. CASE Break(e)
    BY <1>0, <1>5 DEF SessionType, Break, Cut
  <1>6. QED
    BY <1>1, <1>2, <1>3, <1>4, <1>5 DEF Uses, Fails

LEMMA AddStep ==
    ASSUME TypeOK, NEW e \in Execs, pos[e] <= N,
           NEW kinds \in SUBSET {"result", "signal", "event"}, Add(e, kinds)
    PROVE  SessionType'
  <1>0. att[e] \in Nat /\ pos[e] \in Positions
    BY DEF TypeOK, Positions
  <1>1. \A k \in kinds : Row(att[e], k, pos[e]) \in Rows
    BY <1>0, RowType
  <1>2. QED
    BY <1>1 DEF TypeOK, SessionType, Add

LEMMA BeginType ==
    ASSUME TypeInv, NEW e \in Execs, LoadRun(e) \/ MarkRunning(e) \/ FailToBegin(e)
    PROVE  TypeInv'
  <1>0. e[1] \in Runs
    BY ExecRun
  <1>1. CASE LoadRun(e)
    BY <1>0, <1>1 DEF LoadRun, TypeInv, TypeOK, InRange, runVars, queueVars, sessionVars,
                      outVars, Stages, Terminal
  <1>2. CASE MarkRunning(e)
    <2>1. TypeOK'
      BY <1>0, <1>2 DEF MarkRunning, TypeInv, TypeOK, queueVars, sessionVars, outVars,
                        Stages, Terminal
    <2>2. InRange'
      BY <1>0, <1>2, ExecRun DEF MarkRunning, TypeInv, TypeOK, InRange, Stages
    <2>3. QED
      BY <2>1, <2>2 DEF TypeInv
  <1>3. CASE FailToBegin(e)
    BY <1>0, <1>3 DEF FailToBegin, Reset, TypeInv, TypeOK, InRange, runVars, queueVars,
                      outVars, Stages
  <1>4. QED
    BY <1>1, <1>2, <1>3

(* A step inside the loop leaves the run's row and the queue alone, moves  *)
(* its execution and may use its session and send something out.           *)
ExecType ==
    /\ pc \in [Execs -> {"off", "ended"} \cup Stages]
    /\ att \in [Execs -> Nat]
    /\ pos \in [Execs -> 1..N+1]
    /\ seen \in [Execs -> {"none", "queued", "running"} \cup Terminal]

OutType ==
    /\ skipped \in [Runs -> SUBSET (Nat \X Positions)]
    /\ published \in [Runs -> SUBSET (Nat \X Positions)]
    /\ delivered \in [Runs -> SUBSET (Nat \X Positions)]

LEMMA LoopStep ==
    ASSUME TypeInv, UNCHANGED <<runVars, queueVars>>,
           ExecType', SessionType', OutType', InRange'
    PROVE  TypeInv'
  BY DEF TypeInv, TypeOK, ExecType, SessionType, OutType, runVars, queueVars

LEMMA StillOut ==
    ASSUME TypeInv
    PROVE  UNCHANGED outVars => OutType'
  BY DEF TypeInv, TypeOK, OutType, outVars

LEMMA StillSession ==
    ASSUME TypeInv
    PROVE  UNCHANGED sessionVars => SessionType'
  BY DEF TypeInv, TypeOK, SessionType, sessionVars

(* Inside the loop an execution goes on with its symbol, goes on with the  *)
(* next one, or leaves the loop.                                           *)
Inner == Stages \ {"ready", "loaded"}

LEMMA SameSymbol ==
    ASSUME TypeInv, NEW e \in Execs, NEW from \in Inner, NEW to \in Inner,
           Goto(e, from, to), UNCHANGED runVars, UNCHANGED pos,
           to \in {"fetch", "finish", "fail"} \/ pos[e] <= N
    PROVE  ExecType' /\ InRange'
  <1>1. ExecType'
    BY DEF Goto, TypeInv, TypeOK, ExecType, Inner
  <1>2. InRange'
    BY DEF Goto, TypeInv, TypeOK, InRange, Inner, Stages, runVars
  <1>3. QED
    BY <1>1, <1>2

LEMMA FollowingSymbol ==
    ASSUME TypeInv, NEW e \in Execs, NEW from \in Inner, NextSymbol(e, from),
           UNCHANGED runVars, pos[e] <= N
    PROVE  ExecType' /\ InRange'
  <1>1. pos[e] + 1 \in 1..N+1
    BY DEF TypeInv, TypeOK
  <1>2. ExecType'
    BY <1>1 DEF NextSymbol, Goto, TypeInv, TypeOK, ExecType, Inner, Stages
  <1>3. InRange'
    BY DEF NextSymbol, Goto, TypeInv, TypeOK, InRange, Inner, Stages, runVars
  <1>4. QED
    BY <1>2, <1>3

(* What an execution in the middle of a symbol knows.                      *)
LEMMA AtSymbol ==
    ASSUME TypeInv, NEW e \in Execs, NEW from \in {"bars", "context", "score", "publish", "alerts"},
           pc[e] = from
    PROVE  pos[e] <= N
  BY DEF TypeInv, InRange

LEMMA Sent ==
    ASSUME TypeInv, NEW e \in Execs, pos[e] <= N
    PROVE  <<att[e], pos[e]>> \in Nat \X Positions /\ e[1] \in Runs
  BY ExecRun DEF TypeInv, TypeOK, Positions

LEMMA LoopType ==
    ASSUME TypeInv, NEW e \in Execs,
           \/ SetUp(e) \/ FetchBars(e) \/ SkipSymbol(e) \/ SaveBars(e)
           \/ GatherContext(e) \/ ScoreSymbol(e) \/ PublishSignal(e)
           \/ EvaluateAlerts(e) \/ CommitRows(e)
    PROVE  TypeInv'
  <1>0. TypeOK
    BY DEF TypeInv
  <1>1. CASE SetUp(e)
    <2>1. SessionType'
      BY <1>0, <1>1, SessionSteps DEF SetUp, Uses
    <2>2. UNCHANGED <<pos, runVars, queueVars, outVars>>
      BY <1>1 DEF SetUp
    <2>3. ExecType' /\ InRange'
      BY <1>1, <2>2, SameSymbol DEF SetUp, Inner, Stages
    <2>4. QED
      BY <2>1, <2>2, <2>3, StillOut, LoopStep
  <1>2. CASE FetchBars(e)
    <2>1. pos[e] <= N /\ UNCHANGED <<pos, outVars, runVars, queueVars, sessionVars>>
      BY <1>2 DEF FetchBars, MoreSymbols
    <2>2. ExecType' /\ InRange'
      BY <1>2, <2>1, SameSymbol DEF FetchBars, Inner, Stages
    <2>3. QED
      BY <2>1, <2>2, StillOut, StillSession, LoopStep
  <1>3. CASE SkipSymbol(e)
    <2>1. pos[e] <= N /\ UNCHANGED <<runVars, queueVars, sessionVars>>
      BY <1>3 DEF SkipSymbol, MoreSymbols
    <2>2. ExecType' /\ InRange'
      BY <1>3, <2>1, FollowingSymbol DEF SkipSymbol, Inner, Stages
    <2>3. OutType'
      BY <1>0, <1>3, <2>1, Sent DEF SkipSymbol, TypeOK, OutType
    <2>4. QED
      BY <2>1, <2>2, <2>3, StillSession, LoopStep
  <1>4. CASE SaveBars(e)
    <2>1. SessionType'
      BY <1>0, <1>4, SessionSteps DEF SaveBars, Persist, Uses
    <2>2. UNCHANGED <<pos, runVars, queueVars, outVars>> /\ Goto(e, "bars", "context")
      BY <1>4 DEF SaveBars
    <2>3. pos[e] <= N
      BY <2>2, AtSymbol DEF Goto
    <2>4. ExecType' /\ InRange'
      BY <2>2, <2>3, SameSymbol DEF Inner, Stages
    <2>5. QED
      BY <2>1, <2>2, <2>4, StillOut, LoopStep
  <1>5. CASE GatherContext(e)
    <2>1. SessionType'
      BY <1>0, <1>5, SessionSteps DEF GatherContext, SaveChain, Persist, Uses
    <2>2. /\ UNCHANGED <<pos, runVars, queueVars, outVars>>
          /\ Goto(e, "context", "score") \/ Goto(e, "context", "fail")
      BY <1>5 DEF GatherContext
    <2>3. pos[e] <= N
      BY <2>2, AtSymbol DEF Goto
    <2>4. ExecType' /\ InRange'
      BY <2>2, <2>3, SameSymbol DEF Inner, Stages
    <2>5. QED
      BY <2>1, <2>2, <2>4, StillOut, LoopStep
  <1>6. CASE ScoreSymbol(e)
    <2>1. pos[e] <= N
      BY <1>6, AtSymbol DEF ScoreSymbol, NextSymbol, Goto
    <2>2. SessionType'
      BY <1>0, <1>6, <2>1, SessionSteps, AddStep DEF ScoreSymbol, Uses
    <2>3. UNCHANGED <<runVars, queueVars, outVars>>
      BY <1>6 DEF ScoreSymbol
    <2>4. ExecType' /\ InRange'
      BY <1>6, <2>1, <2>3, SameSymbol, FollowingSymbol DEF ScoreSymbol, Inner, Stages
    <2>5. QED
      BY <2>2, <2>3, <2>4, StillOut, LoopStep
  <1>7. CASE PublishSignal(e)
    <2>1. pos[e] <= N
      BY <1>7, AtSymbol DEF PublishSignal, Goto
    <2>2. UNCHANGED <<pos, runVars, queueVars, sessionVars>>
      BY <1>7 DEF PublishSignal
    <2>3. ExecType' /\ InRange'
      BY <1>7, <2>1, <2>2, SameSymbol DEF PublishSignal, Inner, Stages
    <2>4. OutType'
      BY <1>0, <1>7, <2>1, Sent DEF PublishSignal, TypeOK, OutType
    <2>5. QED
      BY <2>2, <2>3, <2>4, StillSession, LoopStep
  <1>8. CASE EvaluateAlerts(e)
    <2>1. pos[e] <= N
      BY <1>8, AtSymbol DEF EvaluateAlerts, NextSymbol, Goto
    <2>2. SessionType'
      BY <1>0, <1>8, <2>1, SessionSteps, AddStep DEF EvaluateAlerts, Uses
    <2>3. UNCHANGED <<runVars, queueVars>>
      BY <1>8 DEF EvaluateAlerts
    <2>4. ExecType' /\ InRange'
      BY <1>8, <2>1, <2>3, FollowingSymbol DEF EvaluateAlerts, Inner, Stages
    <2>5. OutType'
      BY <1>0, <1>8, <2>1, Sent DEF EvaluateAlerts, TypeOK, OutType
    <2>6. QED
      BY <2>2, <2>3, <2>4, <2>5, LoopStep
  <1>9. CASE CommitRows(e)
    <2>1. SessionType'
      BY <1>0, <1>9, SessionSteps DEF CommitRows, Uses, Fails
    <2>2. UNCHANGED <<pos, runVars, queueVars, outVars>>
      BY <1>9 DEF CommitRows
    <2>3. ExecType' /\ InRange'
      BY <1>9, <2>2, SameSymbol DEF CommitRows, Inner, Stages
    <2>4. QED
      BY <2>1, <2>2, <2>3, StillOut, LoopStep
  <1>10. QED
    BY <1>1, <1>2, <1>3, <1>4, <1>5, <1>6, <1>7, <1>8, <1>9

LEMMA EndType ==
    ASSUME TypeInv, NEW e \in Execs, MarkDone(e) \/ MarkError(e) \/ FailToMarkError(e)
    PROVE  TypeInv'
  <1>0. e[1] \in Runs
    BY ExecRun
  <1>1. CASE MarkDone(e)
    <2>1. SessionType'
      BY <1>1, SessionSteps DEF MarkDone, Conclude, TypeInv, Uses, Fails
    <2>a. /\ status' \in [Runs -> {"none", "queued", "running"} \cup Terminal]
          /\ finished' \in [Runs -> BOOLEAN]
      BY <1>0, <1>1 DEF MarkDone, Conclude, TypeInv, TypeOK, Terminal
    <2>b. /\ pc' \in [Execs -> {"off", "ended"} \cup Stages]
          /\ att' \in [Execs -> Nat]
          /\ pos' \in [Execs -> 1..N+1]
          /\ seen' \in [Execs -> {"none", "queued", "running"} \cup Terminal]
      <3>1. CASE Reset(e, "ended")
        BY <3>1 DEF Reset, TypeInv, TypeOK
      <3>2. CASE Goto(e, "finish", "fail") /\ UNCHANGED pos
        BY <3>2 DEF Goto, TypeInv, TypeOK, Stages
      <3>3. QED
        BY <1>1, <3>1, <3>2 DEF MarkDone, Conclude
    <2>c. UNCHANGED <<error, begun, queueVars, outVars>>
      BY <1>1 DEF MarkDone, Conclude
    <2>2. TypeOK'
      BY <2>1, <2>a, <2>b, <2>c DEF SessionType, TypeInv, TypeOK, queueVars, outVars
    <2>3. InRange'
      BY <1>1 DEF MarkDone, Conclude, Reset, Goto, TypeInv, TypeOK, InRange, Stages
    <2>4. QED
      BY <2>2, <2>3 DEF TypeInv
  <1>2. CASE MarkError(e)
    <2>1. SessionType'
      BY <1>2, SessionSteps DEF MarkError, Conclude, TypeInv, Uses
    <2>a. /\ status' \in [Runs -> {"none", "queued", "running"} \cup Terminal]
          /\ finished' \in [Runs -> BOOLEAN]
          /\ error' \in [Runs -> BOOLEAN]
      BY <1>0, <1>2 DEF MarkError, Conclude, TypeInv, TypeOK, Terminal
    <2>b. /\ pc' \in [Execs -> {"off", "ended"} \cup Stages]
          /\ att' \in [Execs -> Nat]
          /\ pos' \in [Execs -> 1..N+1]
          /\ seen' \in [Execs -> {"none", "queued", "running"} \cup Terminal]
      BY <1>2 DEF MarkError, Conclude, Reset, TypeInv, TypeOK
    <2>2. TypeOK'
      BY <1>2, <2>1, <2>a, <2>b DEF MarkError, Conclude, SessionType, TypeInv, TypeOK, queueVars, outVars
    <2>3. InRange'
      BY <1>2 DEF MarkError, Conclude, Reset, TypeInv, TypeOK, InRange, Stages
    <2>4. QED
      BY <2>2, <2>3 DEF TypeInv
  <1>3. CASE FailToMarkError(e)
    BY <1>0, <1>3 DEF FailToMarkError, Cut, Reset, Close, TypeInv, TypeOK, InRange, runVars,
                      queueVars, outVars, Stages
  <1>4. QED
    BY <1>1, <1>2, <1>3

LEMMA NextType == ASSUME TypeInv, [Next]_vars PROVE TypeInv'
  <1>1. ASSUME NEW r \in Runs, Handle(r) \/ Queue(r) PROVE TypeInv'
    BY <1>1, HandleType, QueueType
  <1>2. ASSUME NEW e \in Execs, Step(e) PROVE TypeInv'
    BY <1>2, BeginType, LoopType, EndType DEF Step
  <1>3. CASE CrashApi
    BY <1>3, CrashType
  <1>4. CASE LoseRedis \/ RestoreRedis
    BY <1>4, RedisType
  <1>5. CASE UNCHANGED vars
    BY <1>5 DEF vars, runVars, queueVars, execVars, sessionVars, outVars, TypeInv, TypeOK, InRange
  <1>6. QED
    BY <1>1, <1>2, <1>3, <1>4, <1>5 DEF Next

(* Every variable keeps its type, and every execution stays inside the     *)
(* universe of its run and inside the attempts counted for it.             *)
THEOREM TypeCorrect == Spec => []TypeOK
  <1>1. TypeInv => TypeOK
    BY DEF TypeInv
  <1>2. QED
    BY <1>1, InitType, NextType, PTL DEF Spec

-----------------------------------------------------------------------------
(* What every step leaves alone: the database, the skipped symbols and the *)
(* attempt counter only grow, and an execution is moved by its own steps,  *)
(* unless the environment starts it or removes it.                         *)
Grows ==
    \A r \in Runs : /\ db[r] \subseteq db'[r] /\ lost[r] \subseteq lost'[r]
                    /\ skipped[r] \subseteq skipped'[r]
                    /\ begun[r] <= begun'[r]

Still(x) ==
    /\ pc'[x] = pc[x] /\ att'[x] = att[x] /\ pos'[x] = pos[x]
    /\ pend'[x] = pend[x] /\ broken'[x] = broken[x] /\ aborted'[x] = aborted[x]

Moved(e) == e[1] \in Runs /\ \A x \in Execs \ {e} : Still(x)

LEMMA EnvironmentGrows ==
    ASSUME TypeInv,
           \/ \E r \in Runs : Handle(r) \/ Queue(r)
           \/ CrashApi \/ LoseRedis \/ RestoreRedis \/ UNCHANGED vars
    PROVE  Grows
  <1>1. UNCHANGED <<db, lost, skipped, begun>>
    BY DEF Handle, Queue, CreateRun, EnqueueJob, ClosePool, FallBackInline, StartJob,
           AbandonJob, AckJob, DropJob, TimeoutJob, DropExecution, CrashApi, LoseRedis,
           RestoreRedis, vars, runVars, sessionVars, outVars
  <1>2. QED
    BY <1>1 DEF Grows, TypeInv, TypeOK

LEMMA SessionGrows ==
    ASSUME TypeInv, NEW e \in Execs,
           Uses(e) \/ \E k \in SUBSET {"result", "signal", "event"} : Add(e, k)
    PROVE  /\ \A r \in Runs : db[r] \subseteq db'[r] /\ lost[r] \subseteq lost'[r]
           /\ \A x \in Execs \ {e} : /\ pend'[x] = pend[x] /\ broken'[x] = broken[x]
                                     /\ aborted'[x] = aborted[x]
  <1>0. /\ e[1] \in Runs /\ pend \in [Execs -> SUBSET Rows]
        /\ broken \in [Execs -> BOOLEAN] /\ aborted \in [Execs -> BOOLEAN]
        /\ db \in [Runs -> SUBSET Rows] /\ lost \in [Runs -> SUBSET Rows]
    BY ExecRun DEF TypeInv, TypeOK
  <1>1. CASE Flowing
    BY <1>0, <1>1 DEF Flowing, sessionVars
  <1>2. CASE Commit(e)
    BY <1>0, <1>2 DEF Commit
  <1>3. CASE Break(e)
    BY <1>0, <1>3 DEF Break
  <1>4. CASE \E k \in SUBSET {"result", "signal", "event"} : Add(e, k)
    BY <1>0, <1>4 DEF Add
  <1>5. CASE RollBackSilently(e) \/ Abort(e)
    BY <1>0, <1>5 DEF RollBackSilently, Abort
  <1>6. QED
    BY <1>1, <1>2, <1>3, <1>4, <1>5 DEF Uses, Fails

(* The session part of a step of e, by the operations the step can choose. *)
LEMMA StepSession ==
    ASSUME TypeInv, NEW e \in Execs, Step(e)
    PROVE  \/ Uses(e)
           \/ \E k \in SUBSET {"result", "signal", "event"} : Add(e, k)
           \/ FailToBegin(e) \/ FailToMarkError(e)
  <1>1. {"result", "signal"} \in SUBSET {"result", "signal", "event"}
        /\ {"result"} \in SUBSET {"result", "signal", "event"}
        /\ {"event"} \in SUBSET {"result", "signal", "event"}
    OBVIOUS
  <1>2. QED
    BY <1>1 DEF Step, LoadRun, MarkRunning, SetUp, FetchBars, SkipSymbol, SaveBars,
                SaveChain, Persist, GatherContext, ScoreSymbol, PublishSignal, EvaluateAlerts,
                CommitRows, MarkDone, MarkError, Conclude, Flowing, Uses, Fails

LEMMA StepMoves ==
    ASSUME TypeInv, NEW e \in Execs, Step(e)
    PROVE  Moved(e) /\ Grows
  <1>0. e[1] \in Runs
    BY ExecRun
  <1>1. /\ \A r \in Runs : db[r] \subseteq db'[r] /\ lost[r] \subseteq lost'[r]
        /\ \A x \in Execs \ {e} : /\ pend'[x] = pend[x] /\ broken'[x] = broken[x]
                                  /\ aborted'[x] = aborted[x]
    <2>1. CASE FailToBegin(e) \/ FailToMarkError(e)
      BY <2>1 DEF FailToBegin, FailToMarkError, Close, TypeInv, TypeOK
    <2>2. QED
      BY <2>1, StepSession, SessionGrows
  <1>2. \A x \in Execs \ {e} : pc'[x] = pc[x] /\ att'[x] = att[x] /\ pos'[x] = pos[x]
    <2>0. /\ pc \in [Execs -> {"off", "ended"} \cup Stages]
          /\ att \in [Execs -> Nat] /\ pos \in [Execs -> 1..N+1]
      BY DEF TypeInv, TypeOK
    <2>1. CASE LoadRun(e) \/ MarkRunning(e)
      BY <2>0, <2>1 DEF LoadRun, MarkRunning
    <2>2. CASE \/ FailToBegin(e) \/ MarkError(e) \/ FailToMarkError(e)
      BY <2>0, <2>2 DEF FailToBegin, MarkError, Conclude, FailToMarkError, Reset
    <2>3. CASE SetUp(e) \/ FetchBars(e) \/ SaveBars(e) \/ GatherContext(e) \/ CommitRows(e)
      BY <2>0, <2>3 DEF SetUp, FetchBars, SaveBars, GatherContext, CommitRows, Goto
    <2>4. CASE SkipSymbol(e) \/ EvaluateAlerts(e)
      BY <2>0, <2>4 DEF SkipSymbol, MoreSymbols, EvaluateAlerts, NextSymbol, Goto
    <2>5. CASE ScoreSymbol(e) \/ PublishSignal(e)
      BY <2>0, <2>5 DEF ScoreSymbol, PublishSignal, NextSymbol, Goto
    <2>6. CASE MarkDone(e)
      BY <2>0, <2>6 DEF MarkDone, Conclude, Reset, Goto
    <2>7. QED
      BY <2>1, <2>2, <2>3, <2>4, <2>5, <2>6 DEF Step
  <1>3. \A r \in Runs : skipped[r] \subseteq skipped'[r]
    <2>1. CASE SkipSymbol(e)
      BY <1>0, <2>1 DEF SkipSymbol, MoreSymbols, TypeInv, TypeOK
    <2>2. CASE ~SkipSymbol(e)
      BY <2>2 DEF Step, LoadRun, MarkRunning, FailToBegin, SetUp, FetchBars, SaveBars,
                  GatherContext, ScoreSymbol, PublishSignal, EvaluateAlerts, CommitRows,
                  MarkDone, MarkError, Conclude, FailToMarkError, outVars
    <2>3. QED
      BY <2>1, <2>2
  <1>4. \A r \in Runs : begun[r] <= begun'[r]
    <2>0. begun \in [Runs -> Nat]
      BY DEF TypeInv, TypeOK
    <2>1. CASE MarkRunning(e)
      BY <1>0, <2>0, <2>1 DEF MarkRunning
    <2>2. CASE ~MarkRunning(e)
      <3>1. begun' = begun
        BY <2>2 DEF Step, LoadRun, FailToBegin, SetUp, FetchBars, SkipSymbol, SaveBars,
                  GatherContext, ScoreSymbol, PublishSignal, EvaluateAlerts, CommitRows,
                  MarkDone, MarkError, Conclude, FailToMarkError, runVars
      <3>2. QED
        BY <2>0, <3>1
    <2>3. QED
      BY <2>1, <2>2
  <1>5. QED
    BY <1>0, <1>1, <1>2, <1>3, <1>4 DEF Moved, Still, Grows

-----------------------------------------------------------------------------
(* The strengthening of DoneIsComplete: as long as its session is usable,  *)
(* an execution has left the output of every symbol it is past in the      *)
(* database, in its session or in a transaction that was aborted, and none *)
(* of it in its session once it is about to set "done".                    *)
Gone(r) == db[r] \cup lost[r]

OutputSoFar(e) ==
    LET r == e[1] IN
    /\ pc[e] \in {"ready", "loaded", "setup"} => pos[e] = 1
    /\ pc[e] \in {"fetch", "bars", "context", "score"} /\ ~broken[e] =>
         Covered(att[e], pos[e] - 1, Gone(r) \cup pend[e], skipped[r])
    /\ pc[e] \in {"publish", "alerts"} /\ ~broken[e] =>
         Covered(att[e], pos[e], Gone(r) \cup pend[e], skipped[r])
    /\ pc[e] = "finish" => Covered(att[e], N, Gone(r), skipped[r])

IdleAtFirst == \A e \in Execs : pc[e] \in {"off", "ended"} => pos[e] = 1

DoneInv ==
    /\ TypeInv
    /\ IdleAtFirst
    /\ \A e \in Execs : OutputSoFar(e)
    /\ DoneIsComplete

LEMMA CoveredGrows ==
    ASSUME NEW a, NEW k, NEW rows, NEW rows2, NEW skips, NEW skips2,
           rows \subseteq rows2, skips \subseteq skips2, Covered(a, k, rows, skips)
    PROVE  Covered(a, k, rows2, skips2)
  BY DEF Covered

LEMMA StillKeepsOutput ==
    ASSUME TypeInv, Grows, NEW x \in Execs, Still(x), OutputSoFar(x)
    PROVE  OutputSoFar(x)'
  <1>0. /\ Gone(x[1]) \subseteq Gone(x[1])'
        /\ skipped[x[1]] \subseteq skipped'[x[1]]
    BY ExecRun DEF Grows, Gone
  <1>1. Gone(x[1]) \cup pend[x] \subseteq Gone(x[1])' \cup pend'[x]
    BY <1>0 DEF Still
  <1>2. ASSUME NEW k, Covered(att[x], k, Gone(x[1]) \cup pend[x], skipped[x[1]])
        PROVE  Covered(att[x], k, Gone(x[1])' \cup pend'[x], skipped'[x[1]])
    BY <1>0, <1>1, <1>2, CoveredGrows
  <1>3. ASSUME Covered(att[x], N, Gone(x[1]), skipped[x[1]])
        PROVE  Covered(att[x], N, Gone(x[1])', skipped'[x[1]])
    BY <1>0, <1>3, CoveredGrows
  <1>4. QED
    BY <1>2, <1>3 DEF OutputSoFar, Still

(* The database and the skipped symbols growing, a run stays complete.     *)
LEMMA DoneStays ==
    ASSUME TypeInv, TypeInv', Grows, DoneIsComplete,
           \A r \in Runs : status'[r] = "done" => status[r] = "done"
    PROVE  DoneIsComplete'
  <1> SUFFICES ASSUME NEW r \in Runs, status'[r] = "done"
               PROVE  \E a \in 1..begun'[r] : Covered(a, N, Gone(r)', skipped'[r])
    BY DEF DoneIsComplete, Gone
  <1>1. PICK a \in 1..begun[r] : Covered(a, N, Gone(r), skipped[r])
    BY DEF DoneIsComplete, Gone
  <1>2. a \in 1..begun'[r]
    BY <1>1 DEF Grows, TypeInv, TypeOK
  <1>3. Covered(a, N, Gone(r)', skipped'[r])
    BY <1>1, CoveredGrows DEF Grows, Gone
  <1>4. QED
    BY <1>2, <1>3

LEMMA EnvironmentDone ==
    ASSUME DoneInv, TypeInv',
           \/ \E r \in Runs : Handle(r) \/ Queue(r)
           \/ CrashApi \/ LoseRedis \/ RestoreRedis \/ UNCHANGED vars
    PROVE  DoneInv'
  <1>1. Grows
    BY EnvironmentGrows DEF DoneInv
  <1>2. \A x \in Execs : Still(x) \/ (pc'[x] \in {"off", "ready"} /\ pos'[x] = 1)
    <2>0. /\ \A r \in Runs : Inline(r) \in Execs /\ Job(r) \in Execs
          /\ pc \in [Execs -> {"off", "ended"} \cup Stages] /\ pos \in [Execs -> 1..N+1]
          /\ att \in [Execs -> Nat] /\ pend \in [Execs -> SUBSET Rows]
          /\ broken \in [Execs -> BOOLEAN] /\ aborted \in [Execs -> BOOLEAN]
      BY DEF DoneInv, TypeInv, TypeOK, Inline, Job, Execs
    <2>1. ASSUME NEW r \in Runs, Handle(r)
          PROVE  \A x \in Execs : Still(x) \/ (pc'[x] \in {"off", "ready"} /\ pos'[x] = 1)
      <3>1. CASE FallBackInline(r)
        BY <2>0, <3>1 DEF FallBackInline, Reset, sessionVars, Still
      <3>2. CASE CreateRun(r) \/ EnqueueJob(r) \/ ClosePool(r)
        BY <3>2 DEF CreateRun, EnqueueJob, ClosePool, execVars, sessionVars, Still
      <3>3. QED
        BY <2>1, <3>1, <3>2 DEF Handle
    <2>2. ASSUME NEW r \in Runs, Queue(r)
          PROVE  \A x \in Execs : Still(x) \/ (pc'[x] \in {"off", "ready"} /\ pos'[x] = 1)
      <3>1. CASE StartJob(r)
        BY <2>0, <3>1 DEF StartJob, Reset, sessionVars, Still
      <3>2. CASE AbandonJob(r) \/ AckJob(r)
        BY <3>2 DEF AbandonJob, AckJob, execVars, sessionVars, Still
      <3>3. CASE DropJob(r) \/ TimeoutJob(r)
        BY <2>0, <3>3 DEF DropJob, TimeoutJob, DropExecution, Reset, Close, Still
      <3>4. QED
        BY <2>2, <3>1, <3>2, <3>3 DEF Queue
    <2>3. CASE CrashApi
      BY <2>0, <2>3 DEF CrashApi, Still
    <2>4. CASE LoseRedis \/ RestoreRedis \/ UNCHANGED vars
      BY <2>4 DEF LoseRedis, RestoreRedis, vars, execVars, sessionVars, Still
    <2>5. QED
      BY <2>1, <2>2, <2>3, <2>4
  <1>3. \A r \in Runs : status'[r] = "done" => status[r] = "done"
    BY DEF Handle, Queue, CreateRun, EnqueueJob, ClosePool, FallBackInline, StartJob,
           AbandonJob, AckJob, DropJob, TimeoutJob, DropExecution, CrashApi, LoseRedis,
           RestoreRedis, vars, runVars, DoneInv, TypeInv, TypeOK
  <1>4. DoneIsComplete'
    BY <1>1, <1>3, DoneStays DEF DoneInv
  <1>5. \A x \in Execs : OutputSoFar(x)'
    BY <1>1, <1>2, StillKeepsOutput DEF DoneInv, OutputSoFar
  <1>6. IdleAtFirst'
    BY <1>2 DEF IdleAtFirst, DoneInv, Still
  <1>7. QED
    BY <1>4, <1>5, <1>6 DEF DoneInv

(* The step that e itself takes: one case per action of execute_scan.      *)
LEMMA StepOutput ==
    ASSUME DoneInv, NEW e \in Execs, Step(e)
    PROVE  OutputSoFar(e)' /\ (pc'[e] \in {"off", "ended"} => pos'[e] = 1)
  <1> DEFINE r == e[1]
             all == Gone(r) \cup pend[e]
  <1>0. /\ r \in Runs /\ pos[e] \in 1..N+1 /\ att[e] \in Nat
        /\ pc \in [Execs -> {"off", "ended"} \cup Stages]
        /\ att \in [Execs -> Nat] /\ pos \in [Execs -> 1..N+1]
        /\ pend \in [Execs -> SUBSET Rows] /\ broken \in [Execs -> BOOLEAN]
        /\ db \in [Runs -> SUBSET Rows] /\ lost \in [Runs -> SUBSET Rows]
        /\ skipped \in [Runs -> SUBSET (Nat \X Positions)]
    BY ExecRun DEF DoneInv, TypeInv, TypeOK
  <1>1. OutputSoFar(e) /\ IdleAtFirst
    BY DEF DoneInv
  <1>2. CASE LoadRun(e) \/ MarkRunning(e) \/ FailToBegin(e)
    BY <1>0, <1>1, <1>2 DEF LoadRun, MarkRunning, FailToBegin, Reset, OutputSoFar
  <1>3. CASE SetUp(e)
    <2>1. Covered(att[e], 0, Gone(r)' \cup pend'[e], skipped'[r])
      BY DEF Covered
    <2>2. QED
      BY <1>0, <1>1, <1>3, <2>1 DEF SetUp, Goto, OutputSoFar
  <1>4. CASE FetchBars(e)
    BY <1>0, <1>1, <1>4 DEF FetchBars, MoreSymbols, Goto, OutputSoFar, Gone, sessionVars, outVars
  <1>5. CASE SkipSymbol(e)
    <2>1. /\ pc[e] = "fetch" /\ pc'[e] = "fetch" /\ pos'[e] = pos[e] + 1 /\ att'[e] = att[e]
          /\ skipped'[r] = skipped[r] \cup {<<att[e], pos[e]>>}
          /\ UNCHANGED sessionVars
      BY <1>0, <1>5 DEF SkipSymbol, MoreSymbols, NextSymbol, Goto
    <2>2. Covered(att[e], pos[e] - 1, all, skipped[r]) =>
            Covered(att[e], pos[e], all, skipped[r] \cup {<<att[e], pos[e]>>})
      BY <1>0 DEF Covered
    <2>3. QED
      BY <1>0, <1>1, <2>1, <2>2 DEF OutputSoFar, Gone, sessionVars
  <1>6. CASE SaveBars(e) \/ GatherContext(e)
    <2>1. /\ pc[e] \in {"bars", "context"} /\ pc'[e] \in {"context", "score", "fail"}
          /\ pos'[e] = pos[e] /\ att'[e] = att[e] /\ skipped' = skipped
          /\ Flowing \/ Commit(e) \/ Fails(e)
      BY <1>0, <1>6 DEF SaveBars, SaveChain, Persist, GatherContext, Goto, outVars
    <2>2. ~broken'[e] => ~broken[e] /\ Gone(r)' \cup pend'[e] = all
      BY <1>0, <2>1 DEF Flowing, Commit, Fails, Abort, Break, Gone, sessionVars
    <2>3. QED
      BY <1>0, <1>1, <2>1, <2>2 DEF OutputSoFar
  <1>7. CASE ScoreSymbol(e)
    <2>1. CASE pc'[e] = "fail"
      BY <2>1 DEF OutputSoFar
    <2>2. CASE pc'[e] # "fail"
      <3>1. /\ pc[e] = "score" /\ att'[e] = att[e] /\ skipped' = skipped
            /\ \/ pc'[e] = "publish" /\ pos'[e] = pos[e]
               \/ pc'[e] = "fetch" /\ pos'[e] = pos[e] + 1
            /\ Add(e, {"result", "signal"})
        BY <1>0, <1>7, <2>2 DEF ScoreSymbol, NextSymbol, Goto, outVars
      <3>2. /\ broken' = broken /\ Gone(r)' = Gone(r)
            /\ pend'[e] = pend[e] \cup {Row(att[e], k, pos[e]) : k \in {"result", "signal"}}
        BY <1>0, <3>1 DEF Add, Gone
      <3>3. Covered(att[e], pos[e] - 1, all, skipped[r]) =>
              Covered(att[e], pos[e], Gone(r)' \cup pend'[e], skipped[r])
        BY <1>0, <3>2 DEF Covered
      <3>4. QED
        BY <1>0, <1>1, <3>1, <3>2, <3>3 DEF OutputSoFar
    <2>3. QED
      BY <2>1, <2>2, <1>7, <1>0 DEF ScoreSymbol, NextSymbol, Goto
  <1>8. CASE PublishSignal(e)
    BY <1>0, <1>1, <1>8 DEF PublishSignal, Goto, OutputSoFar, Gone, sessionVars
  <1>9. CASE EvaluateAlerts(e)
    <2>1. /\ pc[e] = "alerts" /\ pc'[e] = "fetch" /\ pos'[e] = pos[e] + 1
          /\ att'[e] = att[e] /\ skipped' = skipped
      BY <1>0, <1>9 DEF EvaluateAlerts, NextSymbol, Goto
    <2>2. ~broken'[e] => ~broken[e] /\ all \subseteq Gone(r)' \cup pend'[e]
      BY <1>0, <1>9 DEF EvaluateAlerts, Flowing, Fails, Abort, Break, Add, Gone, sessionVars
    <2>3. ~broken'[e] => Covered(att[e], pos[e], Gone(r)' \cup pend'[e], skipped[r])
      BY <1>1, <2>1, <2>2, CoveredGrows DEF OutputSoFar
    <2>4. QED
      BY <1>0, <2>1, <2>3 DEF OutputSoFar
  <1>10. CASE CommitRows(e)
    <2>1. CASE pc'[e] = "fail"
      BY <2>1 DEF OutputSoFar
    <2>2. CASE pc'[e] # "fail"
      <3>1. /\ pc[e] = "fetch" /\ pc'[e] = "finish" /\ pos[e] > N
            /\ att'[e] = att[e] /\ skipped' = skipped
            /\ Commit(e) \/ RollBackSilently(e)
        BY <1>0, <1>10, <2>2 DEF CommitRows, MoreSymbols, Goto, outVars
      <3>2. ~broken[e] /\ Gone(r)' = all /\ pos[e] - 1 = N
        BY <1>0, <3>1 DEF Commit, RollBackSilently, Gone
      <3>3. QED
        BY <1>0, <1>1, <3>1, <3>2 DEF OutputSoFar
    <2>3. QED
      BY <2>1, <2>2, <1>10, <1>0 DEF CommitRows, MoreSymbols, Goto
  <1>11. CASE MarkDone(e) \/ MarkError(e) \/ FailToMarkError(e)
    BY <1>0, <1>1, <1>11 DEF MarkDone, Conclude, MarkError, FailToMarkError, Reset, Goto, OutputSoFar
  <1>12. QED
    BY <1>2, <1>3, <1>4, <1>5, <1>6, <1>7, <1>8, <1>9, <1>10, <1>11 DEF Step

(* The only step to "done" is MarkDone, taken with all output committed.   *)
LEMMA StepDone ==
    ASSUME DoneInv, TypeInv', NEW e \in Execs, Step(e)
    PROVE  DoneIsComplete'
  <1>1. Grows
    BY StepMoves DEF DoneInv
  <1>2. CASE MarkDone(e) /\ pc'[e] = "ended"
    <2>0. e[1] \in Runs /\ status \in [Runs -> {"none", "queued", "running"} \cup Terminal]
      BY ExecRun DEF DoneInv, TypeInv, TypeOK
    <2>1. /\ pc[e] = "finish" /\ begun' = begun
          /\ \A r \in Runs \ {e[1]} : status'[r] = status[r]
      BY <1>2, <2>0 DEF MarkDone, Conclude, Goto
    <2>2. Covered(att[e], N, Gone(e[1]), skipped[e[1]]) /\ att[e] \in 1..begun[e[1]]
      BY <2>1 DEF DoneInv, OutputSoFar, TypeInv, InRange, Stages
    <2>3. Covered(att[e], N, Gone(e[1])', skipped'[e[1]])
      BY <1>1, <2>0, <2>2, CoveredGrows DEF Grows, Gone
    <2>4. ASSUME NEW r \in Runs \ {e[1]}, status'[r] = "done"
          PROVE  \E a \in 1..begun'[r] : Covered(a, N, Gone(r)', skipped'[r])
      <3>1. PICK a \in 1..begun[r] : Covered(a, N, Gone(r), skipped[r])
        BY <2>1, <2>4 DEF DoneInv, DoneIsComplete, Gone
      <3>2. Covered(a, N, Gone(r)', skipped'[r])
        BY <1>1, <3>1, CoveredGrows DEF Grows, Gone
      <3>3. QED
        BY <2>1, <3>2
    <2>5. QED
      BY <2>0, <2>1, <2>2, <2>3, <2>4 DEF DoneIsComplete, Gone
  <1>3. CASE ~(MarkDone(e) /\ pc'[e] = "ended")
    <2>0. /\ e[1] \in Runs /\ status \in [Runs -> {"none", "queued", "running"} \cup Terminal]
          /\ pc \in [Execs -> {"off", "ended"} \cup Stages]
      BY ExecRun DEF DoneInv, TypeInv, TypeOK
    <2>1. \A r \in Runs : status'[r] = "done" => status[r] = "done"
      <3>1. CASE MarkDone(e)
        BY <1>3, <2>0, <3>1 DEF MarkDone, Conclude, Reset
      <3>2. CASE MarkRunning(e) \/ MarkError(e)
        BY <2>0, <3>2 DEF MarkRunning, MarkError, Conclude
      <3>3. QED
        BY <3>1, <3>2 DEF Step, LoadRun, FailToBegin, SetUp, FetchBars, SkipSymbol, SaveBars,
                  GatherContext, ScoreSymbol, PublishSignal, EvaluateAlerts, CommitRows,
                  FailToMarkError, runVars
    <2>2. QED
      BY <1>1, <2>1, DoneStays DEF DoneInv
  <1>4. QED
    BY <1>2, <1>3

LEMMA InitDone == Init => DoneInv
  BY InitType DEF Init, DoneInv, IdleAtFirst, OutputSoFar, DoneIsComplete, Execs, Terminal

LEMMA NextDone == ASSUME DoneInv, [Next]_vars PROVE DoneInv'
  <1>0. TypeInv'
    BY NextType DEF DoneInv
  <1>1. ASSUME NEW e \in Execs, Step(e) PROVE DoneInv'
    <2>1. Moved(e) /\ Grows
      BY <1>1, StepMoves DEF DoneInv
    <2>2. \A x \in Execs \ {e} : OutputSoFar(x)' /\ (pc'[x] \in {"off", "ended"} => pos'[x] = 1)
      BY <2>1, StillKeepsOutput DEF DoneInv, Moved, Still, IdleAtFirst
    <2>3. QED
      BY <1>0, <1>1, <2>2, StepOutput, StepDone DEF DoneInv, IdleAtFirst
  <1>2. CASE \/ \E r \in Runs : Handle(r) \/ Queue(r)
             \/ CrashApi \/ LoseRedis \/ RestoreRedis \/ UNCHANGED vars
    BY <1>0, <1>2, EnvironmentDone
  <1>3. QED
    BY <1>1, <1>2 DEF Next

(* Whatever the interleaving of attempts, crashes and failed statements, a *)
(* run that reads "done" has the complete output of one attempt stored,    *)
(* but for rows an aborted transaction took along unnoticed.               *)
THEOREM DoneCorrect == Spec => []DoneIsComplete
  <1>1. DoneInv => DoneIsComplete
    BY DEF DoneInv
  <1>2. QED
    BY <1>1, InitDone, NextDone, PTL DEF Spec

-----------------------------------------------------------------------------
(* FieldsTellReruns is not inductive: an attempt that ends a run which has *)
(* ended before must be known to be a second one.  A run no client has     *)
(* created is untouched; attempts at work at the same time have different  *)
(* numbers; and once a run has ended, nobody works in its only attempt.    *)
Begun(e) == pc[e] \in Stages \ {"ready", "loaded"}

Untouched ==
    \A r \in Runs : http[r] = "idle" =>
        /\ job[r] = "none" /\ begun[r] = 0
        /\ pc[Inline(r)] = "off" /\ pc[Job(r)] = "off"

Numbered ==
    \A e, x \in Execs : e # x /\ e[1] = x[1] /\ Begun(e) /\ Begun(x) => att[e] # att[x]

AtRest ==
    \A r \in Runs : finished[r] =>
        /\ begun[r] >= 1
        /\ begun[r] < 2 => \A e \in Execs : e[1] = r => ~Begun(e)

FieldsInv == TypeInv /\ Untouched /\ Numbered /\ AtRest /\ FieldsTellReruns

LEMMA InitFields == Init => FieldsInv
  BY InitType DEF Init, FieldsInv, Untouched, Numbered, AtRest, FieldsTellReruns, Begun,
                  Stages, Terminal, Inline, Job, Execs

(* What the environment does to executions: it leaves one alone, starts it *)
(* or removes it; it ends no run and begins no attempt.                    *)
LEMMA EnvironmentFields ==
    ASSUME FieldsInv, TypeInv',
           \/ \E r \in Runs : Handle(r) \/ Queue(r)
           \/ CrashApi \/ LoseRedis \/ RestoreRedis \/ UNCHANGED vars
    PROVE  FieldsInv'
  <1>0. /\ \A r \in Runs : Inline(r) \in Execs /\ Job(r) \in Execs /\ Inline(r) # Job(r)
        /\ \A r, s \in Runs : r # s => Inline(r) # Inline(s) /\ Job(r) # Job(s) /\ Inline(r) # Job(s)
        /\ pc \in [Execs -> {"off", "ended"} \cup Stages] /\ att \in [Execs -> Nat]
        /\ status \in [Runs -> {"none", "queued", "running"} \cup Terminal]
        /\ http \in [Runs -> {"idle", "created", "enqueued", "accepted", "refused", "lost"}]
        /\ job \in [Runs -> {"none", "queued", "active", "finished"}]
        /\ begun \in [Runs -> Nat]
    BY DEF FieldsInv, TypeInv, TypeOK, Inline, Job, Execs
  <1>1. UNCHANGED <<finished, error, begun>>
    BY DEF Handle, Queue, CreateRun, EnqueueJob, ClosePool, FallBackInline, StartJob,
           AbandonJob, AckJob, DropJob, TimeoutJob, DropExecution, CrashApi, LoseRedis,
           RestoreRedis, vars, runVars
  <1>2. \A x \in Execs : \/ pc'[x] = pc[x] /\ att'[x] = att[x]
                         \/ pc'[x] \in {"off", "ready"}
    <2>1. ASSUME NEW r \in Runs, Handle(r)
          PROVE  \A x \in Execs : \/ pc'[x] = pc[x] /\ att'[x] = att[x]
                                  \/ pc'[x] \in {"off", "ready"}
      BY <1>0, <2>1 DEF Handle, CreateRun, EnqueueJob, ClosePool, FallBackInline, Reset, execVars
    <2>2. ASSUME NEW r \in Runs, Queue(r)
          PROVE  \A x \in Execs : \/ pc'[x] = pc[x] /\ att'[x] = att[x]
                                  \/ pc'[x] \in {"off", "ready"}
      BY <1>0, <2>2 DEF Queue, StartJob, AbandonJob, AckJob, DropJob, TimeoutJob,
                        DropExecution, Reset, execVars
    <2>3. QED
      BY <1>0, <2>1, <2>2 DEF CrashApi, LoseRedis, RestoreRedis, vars, execVars
  <1>3. \A x \in Execs : Begun(x)' => Begun(x) /\ att'[x] = att[x]
    BY <1>2 DEF Begun, Stages
  <1>4. Numbered' /\ AtRest'
    BY <1>1, <1>3 DEF FieldsInv, Numbered, AtRest
  <1>5. \A r \in Runs : \/ status'[r] = status[r]
                        \/ http[r] = "idle" /\ status'[r] = "queued"
    BY <1>0 DEF Handle, Queue, CreateRun, EnqueueJob, ClosePool, FallBackInline, StartJob,
           AbandonJob, AckJob, DropJob, TimeoutJob, DropExecution, CrashApi, LoseRedis,
           RestoreRedis, vars, runVars
  <1>6. FieldsTellReruns'
    BY <1>0, <1>1, <1>5 DEF FieldsInv, FieldsTellReruns, Untouched, AtRest, Terminal
  <1>7. Untouched'
    <2>1. ASSUME NEW r \in Runs, Handle(r) PROVE Untouched'
      BY <1>0, <1>1, <2>1 DEF Handle, CreateRun, EnqueueJob, ClosePool, FallBackInline, Reset,
                       execVars, FieldsInv, Untouched
    <2>2. ASSUME NEW r \in Runs, Queue(r) PROVE Untouched'
      BY <1>0, <1>1, <2>2 DEF Queue, StartJob, AbandonJob, AckJob, DropJob, TimeoutJob,
                       DropExecution, Reset, execVars, FieldsInv, Untouched
    <2>3. CASE CrashApi
      BY <1>0, <1>1, <2>3 DEF CrashApi, FieldsInv, Untouched
    <2>4. CASE LoseRedis \/ RestoreRedis \/ UNCHANGED vars
      BY <1>0, <1>1, <2>4 DEF LoseRedis, RestoreRedis, vars, queueVars, execVars, FieldsInv, Untouched
    <2>5. QED
      BY <2>1, <2>2, <2>3, <2>4
  <1>8. QED
    BY <1>4, <1>6, <1>7 DEF FieldsInv

(* What the steps of an execution do to the row of its run.                *)
LEMMA StepRow ==
    ASSUME TypeInv, NEW e \in Execs, Step(e)
    PROVE  /\ UNCHANGED <<http, job>>
           /\ \A r \in Runs \ {e[1]} :
                /\ status'[r] = status[r] /\ finished'[r] = finished[r]
                /\ error'[r] = error[r] /\ begun'[r] = begun[r]
           /\ \/ /\ UNCHANGED runVars
                 /\ Begun(e)' => Begun(e) /\ att'[e] = att[e]
              \/ /\ pc[e] = "loaded" /\ pc'[e] = "setup"
                 /\ begun'[e[1]] = begun[e[1]] + 1 /\ att'[e] = begun[e[1]] + 1
                 /\ status'[e[1]] \in {status[e[1]], "running"}
                 /\ UNCHANGED <<finished, error>>
              \/ /\ Begun(e) /\ ~Begun(e)'
                 /\ status'[e[1]] \in Terminal /\ finished'[e[1]]
                 /\ error'[e[1]] => error[e[1]] \/ status'[e[1]] = "error"
                 /\ UNCHANGED begun
  <1>0. /\ e[1] \in Runs
        /\ pc \in [Execs -> {"off", "ended"} \cup Stages] /\ att \in [Execs -> Nat]
        /\ status \in [Runs -> {"none", "queued", "running"} \cup Terminal]
        /\ finished \in [Runs -> BOOLEAN] /\ error \in [Runs -> BOOLEAN]
        /\ begun \in [Runs -> Nat]
    BY ExecRun DEF TypeInv, TypeOK
  <1>1. CASE MarkRunning(e)
    BY <1>0, <1>1 DEF MarkRunning, queueVars
  <1>2. CASE LoadRun(e) \/ FailToBegin(e) \/ FailToMarkError(e)
    BY <1>0, <1>2 DEF LoadRun, FailToBegin, FailToMarkError, Reset, Begun, Stages, queueVars, runVars
  <1>3. CASE SetUp(e) \/ FetchBars(e) \/ SkipSymbol(e) \/ SaveBars(e) \/ GatherContext(e)
    BY <1>0, <1>3 DEF SetUp, FetchBars, SkipSymbol, SaveBars, GatherContext, Goto, NextSymbol,
                      Begun, Stages, queueVars, runVars
  <1>4. CASE ScoreSymbol(e) \/ PublishSignal(e) \/ EvaluateAlerts(e) \/ CommitRows(e)
    BY <1>0, <1>4 DEF ScoreSymbol, PublishSignal, EvaluateAlerts, CommitRows, Goto, NextSymbol,
                      Begun, Stages, queueVars, runVars
  <1>5. CASE MarkDone(e)
    BY <1>0, <1>5 DEF MarkDone, Conclude, Reset, Goto, Begun, Stages, Terminal, queueVars, runVars
  <1>6. CASE MarkError(e)
    BY <1>0, <1>6 DEF MarkError, Conclude, Reset, Begun, Stages, Terminal, queueVars
  <1>7. QED
    BY <1>1, <1>2, <1>3, <1>4, <1>5, <1>6 DEF Step

LEMMA StepFields ==
    ASSUME FieldsInv, TypeInv', NEW e \in Execs, Step(e)
    PROVE  FieldsInv'
  <1> DEFINE r == e[1]
  <1>0. /\ r \in Runs /\ \A x \in Execs : x[1] \in Runs
        /\ \A s \in Runs : Inline(s) \in Execs /\ Job(s) \in Execs
        /\ \A x \in Execs : x = Inline(x[1]) \/ x = Job(x[1])
        /\ status \in [Runs -> {"none", "queued", "running"} \cup Terminal]
        /\ finished \in [Runs -> BOOLEAN] /\ error \in [Runs -> BOOLEAN]
        /\ begun \in [Runs -> Nat] /\ att \in [Execs -> Nat]
    BY ExecRun DEF FieldsInv, TypeInv, TypeOK, Inline, Job, Execs
  <1>1. \A x \in Execs \ {e} : pc'[x] = pc[x] /\ att'[x] = att[x]
    BY StepMoves DEF FieldsInv, Moved, Still
  <1>2. \A x \in Execs : Begun(x) => att[x] \in 1..begun[x[1]]
    BY DEF FieldsInv, TypeInv, InRange, Begun
  <1>3. pc[e] \in Stages
    BY DEF Step, LoadRun, MarkRunning, FailToBegin, SetUp, FetchBars, SkipSymbol, SaveBars,
           GatherContext, ScoreSymbol, PublishSignal, EvaluateAlerts, CommitRows, MarkDone,
           MarkError, FailToMarkError, Goto, NextSymbol, Stages
  <1>4. http[r] # "idle"
    BY <1>0, <1>3 DEF FieldsInv, Untouched, Stages
  <1>5. Untouched'
    BY <1>0, <1>1, <1>4, StepRow DEF FieldsInv, Untouched, Inline, Job
  <1>6. /\ \A s \in Runs \ {r} : /\ status'[s] = status[s] /\ finished'[s] = finished[s]
                                  /\ error'[s] = error[s] /\ begun'[s] = begun[s]
        /\ \A x \in Execs : x[1] # r => pc'[x] = pc[x] /\ att'[x] = att[x]
    BY <1>1, StepRow DEF FieldsInv
  <1>7. \A s \in Runs \ {r} : finished'[s] =>
            /\ begun'[s] >= 1
            /\ begun'[s] < 2 => \A x \in Execs : x[1] = s => ~Begun(x)'
    BY <1>6 DEF FieldsInv, AtRest, Begun
  <1>8. \A s \in Runs \ {r} :
            /\ status'[s] \in Terminal => finished'[s]
            /\ finished'[s] /\ status'[s] \notin Terminal => begun'[s] >= 2
            /\ error'[s] => finished'[s]
            /\ error'[s] /\ status'[s] = "done" => begun'[s] >= 2
    BY <1>6 DEF FieldsInv, FieldsTellReruns
  <1>9. CASE UNCHANGED runVars /\ (Begun(e)' => Begun(e) /\ att'[e] = att[e])
    <2>1. Numbered'
      BY <1>1, <1>9 DEF FieldsInv, Numbered, Begun
    <2>2. AtRest' /\ FieldsTellReruns'
      BY <1>1, <1>9 DEF FieldsInv, AtRest, FieldsTellReruns, Begun, runVars
    <2>3. QED
      BY <1>5, <2>1, <2>2 DEF FieldsInv
  <1>10. CASE /\ pc[e] = "loaded" /\ pc'[e] = "setup"
              /\ begun'[r] = begun[r] + 1 /\ att'[e] = begun[r] + 1
              /\ status'[r] \in {status[r], "running"}
              /\ UNCHANGED <<finished, error>>
    <2>1. Numbered'
      <3>1. \A x \in Execs \ {e} : x[1] = r /\ Begun(x)' => att'[x] # att'[e]
        BY <1>0, <1>1, <1>2, <1>10 DEF Begun
      <3>2. QED
        BY <1>1, <3>1 DEF FieldsInv, Numbered, Begun
    <2>2. finished'[r] => begun'[r] >= 2
      BY <1>0, <1>10 DEF FieldsInv, AtRest
    <2>3. AtRest'
      BY <1>0, <1>7, <2>2, <1>10 DEF AtRest
    <2>4. FieldsTellReruns'
      BY <1>0, <1>8, <1>10, <2>2 DEF FieldsInv, FieldsTellReruns, Terminal
    <2>5. QED
      BY <1>5, <2>1, <2>3, <2>4 DEF FieldsInv
  <1>11. CASE /\ Begun(e) /\ ~Begun(e)'
              /\ status'[r] \in Terminal /\ finished'[r]
              /\ error'[r] => error[r] \/ status'[r] = "error"
              /\ UNCHANGED begun
    <2>1. Numbered'
      BY <1>1, <1>11 DEF FieldsInv, Numbered, Begun
    <2>2. att[e] \in 1..begun[r]
      BY <1>2, <1>11
    <2>3. begun[r] < 2 => \A x \in Execs : x[1] = r => ~Begun(x)'
      <3>1. SUFFICES ASSUME begun[r] < 2, NEW x \in Execs \ {e}, x[1] = r, Begun(x)
                     PROVE  FALSE
        BY <1>1, <1>11 DEF Begun
      <3>2. att[x] \in 1..begun[r] /\ att[x] # att[e]
        BY <1>2, <1>11, <3>1 DEF FieldsInv, Numbered
      <3>3. begun[r] \in Nat /\ att[x] \in Nat /\ att[e] \in Nat
        BY <1>0
      <3>4. QED
        BY <2>2, <3>1, <3>2, <3>3
    <2>4. AtRest'
      BY <1>0, <1>7, <1>11, <2>2, <2>3 DEF AtRest
    <2>5. error[r] => begun[r] >= 2
      BY <1>0, <1>11, <2>2 DEF FieldsInv, FieldsTellReruns, AtRest
    <2>6. FieldsTellReruns'
      BY <1>0, <1>8, <1>11, <2>5 DEF FieldsTellReruns, Terminal
    <2>7. QED
      BY <1>5, <2>1, <2>4, <2>6 DEF FieldsInv
  <1>12. QED
    BY <1>9, <1>10, <1>11, StepRow DEF FieldsInv

LEMMA NextFields == ASSUME FieldsInv, [Next]_vars PROVE FieldsInv'
  <1>1. TypeInv'
    BY NextType DEF FieldsInv
  <1>2. QED
    BY <1>1, EnvironmentFields, StepFields DEF Next

(* Whatever the interleaving of a run's executions, its end time and error *)
(* text tell whether it was executed more than once (repo.py:165-177).     *)
THEOREM FieldsCorrect == Spec => []FieldsTellReruns
  <1>1. FieldsInv => FieldsTellReruns
    BY DEF FieldsInv
  <1>2. QED
    BY <1>1, InitFields, NextFields, PTL DEF Spec

-----------------------------------------------------------------------------
(* NoRunForgotten rests on what is known of a job in the queue: it is not  *)
(* there before the handler put it there, and one that was delivered and   *)
(* is queued again was dropped by its worker, a fault on record.           *)
FreshJobs ==
    \A r \in Runs : /\ http[r] \in {"idle", "created"} => job[r] = "none"
                    /\ job[r] = "none" => tries[r] = 0
                    /\ job[r] = "queued" /\ tries[r] > 0 => cut[r] # {}

OwnedInv == TypeInv /\ FreshJobs /\ NoRunForgotten

LEMMA InitOwned == Init => OwnedInv
  BY InitType DEF Init, OwnedInv, FreshJobs, NoRunForgotten

(* An execution that takes a step goes on, settles its run, or leaves a    *)
(* fault on record.                                                        *)
LEMMA StepOwner ==
    ASSUME TypeInv, NEW e \in Execs, Step(e)
    PROVE  /\ UNCHANGED <<http, job, tries>>
           /\ \A r \in Runs : cut[r] \subseteq cut'[r]
           /\ \/ Live(e)'
              \/ status'[e[1]] \in Terminal
              \/ cut'[e[1]] # {}
  <1>0. /\ e[1] \in Runs
        /\ pc \in [Execs -> {"off", "ended"} \cup Stages]
        /\ status \in [Runs -> {"none", "queued", "running"} \cup Terminal]
        /\ cut \in [Runs -> SUBSET Nat]
    BY ExecRun DEF TypeInv, TypeOK
  <1>1. UNCHANGED <<http, job, tries>>
    BY DEF Step, LoadRun, MarkRunning, FailToBegin, SetUp, FetchBars, SkipSymbol, SaveBars,
           GatherContext, ScoreSymbol, PublishSignal, EvaluateAlerts, CommitRows, MarkDone,
           MarkError, FailToMarkError, queueVars
  <1>2. \A r \in Runs : cut[r] \subseteq cut'[r]
    <2>1. CASE FailToBegin(e) \/ FailToMarkError(e)
      BY <1>0, <2>1 DEF FailToBegin, FailToMarkError, Cut
    <2>2. QED
      BY <1>0, <2>1, StepSession DEF Uses, Flowing, Commit, RollBackSilently, Fails, Abort, Break,
                                     Cut, Add, sessionVars
  <1>3. CASE LoadRun(e) \/ MarkRunning(e)
    BY <1>0, <1>1, <1>2, <1>3 DEF LoadRun, MarkRunning, Live, Stages
  <1>4. CASE FailToBegin(e) \/ FailToMarkError(e)
    BY <1>0, <1>1, <1>2, <1>4 DEF FailToBegin, FailToMarkError, Cut
  <1>5. CASE SetUp(e) \/ FetchBars(e) \/ SkipSymbol(e) \/ SaveBars(e) \/ GatherContext(e)
    BY <1>0, <1>1, <1>2, <1>5 DEF SetUp, FetchBars, SkipSymbol, SaveBars, GatherContext, Goto,
                                  NextSymbol, Live, Stages
  <1>6. CASE ScoreSymbol(e) \/ PublishSignal(e) \/ EvaluateAlerts(e) \/ CommitRows(e)
    BY <1>0, <1>1, <1>2, <1>6 DEF ScoreSymbol, PublishSignal, EvaluateAlerts, CommitRows, Goto,
                                  NextSymbol, Live, Stages
  <1>7. CASE MarkDone(e) \/ MarkError(e)
    BY <1>0, <1>1, <1>2, <1>7 DEF MarkDone, MarkError, Conclude, Goto, Live, Stages, Terminal
  <1>8. QED
    BY <1>3, <1>4, <1>5, <1>6, <1>7 DEF Step

LEMMA StepOwned ==
    ASSUME OwnedInv, TypeInv', NEW e \in Execs, Step(e)
    PROVE  OwnedInv'
  <1>0. /\ \A x \in Execs \ {e} : Live(x) => Live(x)'
        /\ \A r \in Runs \ {e[1]} : status'[r] = status[r]
        /\ e[1] \in Runs
    BY ExecRun, StepMoves, StepRow DEF OwnedInv, Moved, Still, Live
  <1>1. FreshJobs'
    BY StepOwner DEF OwnedInv, FreshJobs
  <1>2. NoRunForgotten'
    <2> SUFFICES ASSUME NEW r \in Runs, status'[r] \in {"queued", "running"}, cut'[r] = {}
                 PROVE  Owned(r)'
      BY DEF NoRunForgotten
    <2>1. CASE r = e[1]
      BY <2>1, StepOwner DEF OwnedInv, Owned, Terminal
    <2>2. CASE r # e[1]
      <3>1. Owned(r)
        BY <1>0, <2>2, StepOwner DEF OwnedInv, NoRunForgotten
      <3>2. \A x \in Execs : x[1] = r /\ Live(x) => Live(x)'
        BY <1>0, <2>2
      <3>3. QED
        BY <3>1, <3>2, StepOwner DEF OwnedInv, Owned
    <2>3. QED
      BY <2>1, <2>2
  <1>3. QED
    BY <1>1, <1>2 DEF OwnedInv

(* The handler and the worker hand a run on: from the request to the queue *)
(* or the background task, from the queue to the worker's execution.       *)
LEMMA EnvironmentOwned ==
    ASSUME OwnedInv, TypeInv',
           \/ \E r \in Runs : Handle(r) \/ Queue(r)
           \/ CrashApi \/ LoseRedis \/ RestoreRedis \/ UNCHANGED vars
    PROVE  OwnedInv'
  <1>0. /\ \A r \in Runs : /\ Inline(r) \in Execs /\ Inline(r)[1] = r /\ Inline(r)[2] = "inline"
                           /\ Job(r) \in Execs /\ Job(r)[1] = r /\ Job(r)[2] = "job"
        /\ \A x \in Execs : x[1] \in Runs /\ (x = Inline(x[1]) \/ x = Job(x[1]))
        /\ pc \in [Execs -> {"off", "ended"} \cup Stages]
        /\ status \in [Runs -> {"none", "queued", "running"} \cup Terminal]
        /\ http \in [Runs -> {"idle", "created", "enqueued", "accepted", "refused", "lost"}]
        /\ job \in [Runs -> {"none", "queued", "active", "finished"}]
        /\ tries \in [Runs -> 0..MaxTries] /\ cut \in [Runs -> SUBSET Nat]
    BY DEF OwnedInv, TypeInv, TypeOK, Inline, Job, Execs
  <1>1. ASSUME NEW s \in Runs, Handle(s)
        PROVE  /\ UNCHANGED <<cut, tries>>
               /\ \A x \in Execs : Live(x) => Live(x)'
               /\ \A r \in Runs \ {s} : http'[r] = http[r] /\ job'[r] = job[r] /\ status'[r] = status[r]
               /\ \/ http'[s] = "created" /\ http[s] = "idle" /\ UNCHANGED job
                  \/ /\ http'[s] \notin {"idle", "created"} /\ UNCHANGED status
                     /\ \/ http[s] = "created" /\ job'[s] = "queued"
                        \/ Live(Inline(s))' /\ UNCHANGED job
                        \/ http[s] = "enqueued" /\ UNCHANGED <<job, execVars>>
    <2>1. CASE CreateRun(s)
      BY <1>0, <2>1 DEF CreateRun, execVars, sessionVars, Live
    <2>2. CASE EnqueueJob(s) \/ ClosePool(s)
      BY <1>0, <2>2 DEF EnqueueJob, ClosePool, execVars, sessionVars, runVars, Live
    <2>3. CASE FallBackInline(s)
      BY <1>0, <2>3 DEF FallBackInline, Reset, sessionVars, runVars, Live, Stages
    <2>4. QED
      BY <1>1, <2>1, <2>2, <2>3 DEF Handle
  <1>2. ASSUME NEW s \in Runs, Queue(s)
        PROVE  /\ UNCHANGED <<http, status>>
               /\ \A x \in Execs : x[1] # s /\ Live(x) => Live(x)'
               /\ \A r \in Runs \ {s} : /\ job'[r] = job[r] /\ tries'[r] = tries[r]
                                        /\ cut'[r] = cut[r]
               /\ job[s] # "none" /\ job'[s] # "none"
               /\ \/ cut'[s] # {}
                  \/ job'[s] # "queued" /\ Live(Job(s))' /\ Live(Inline(s)) = Live(Inline(s))'
                  \/ job'[s] # "queued" /\ job[s] # "queued" /\ UNCHANGED execVars /\ cut' = cut
    <2>1. CASE StartJob(s)
      BY <1>0, <2>1 DEF StartJob, Reset, sessionVars, runVars, Live, Stages
    <2>2. CASE AbandonJob(s)
      <3>1. cut[s] # {} /\ cut' = cut
        BY <2>2, <1>0, MaxTriesAssumption DEF AbandonJob, OwnedInv, FreshJobs, sessionVars
      <3>2. QED
        BY <1>0, <2>2, <3>1 DEF AbandonJob, execVars, runVars, Live
    <2>3. CASE AckJob(s)
      BY <1>0, <2>3 DEF AckJob, execVars, sessionVars, runVars, Live
    <2>4. CASE DropJob(s) \/ TimeoutJob(s)
      <3>1. /\ cut' = [cut EXCEPT ![s] = @ \cup {CutAttempt(Job(s))}]
            /\ pc' = [pc EXCEPT ![Job(s)] = "off"]
            /\ UNCHANGED <<http, tries, status>>
        BY <1>0, <2>4 DEF DropJob, TimeoutJob, DropExecution, Reset, runVars
      <3>2. \/ job' = [job EXCEPT ![s] = "queued"]
            \/ job' = [job EXCEPT ![s] = "finished"]
        BY <2>4 DEF DropJob, TimeoutJob
      <3>3. job[s] = "active"
        BY <2>4 DEF DropJob, TimeoutJob
      <3>4. cut'[s] # {} /\ job'[s] # "none"
        BY <1>0, <3>1, <3>2
      <3>5. \A x \in Execs : x[1] # s /\ Live(x) => Live(x)'
        BY <1>0, <3>1 DEF Live
      <3>6. \A r \in Runs \ {s} : job'[r] = job[r] /\ cut'[r] = cut[r]
        BY <1>0, <3>1, <3>2
      <3>7. QED
        BY <3>1, <3>3, <3>4, <3>5, <3>6
    <2>5. QED
      BY <1>2, <2>1, <2>2, <2>3, <2>4 DEF Queue
  <1>3. ASSUME NEW s \in Runs, Handle(s) PROVE FreshJobs' /\ NoRunForgotten'
    <2>1. FreshJobs'
      BY <1>0, <1>1, <1>3 DEF OwnedInv, FreshJobs
    <2>2. \A r \in Runs \ {s} : Owned(r) => Owned(r)'
      BY <1>1, <1>3 DEF Owned
    <2>3. Owned(s) => Owned(s)'
      BY <1>0, <1>1, <1>3 DEF Owned, execVars, Live
    <2>4. status'[s] # status[s] => Owned(s)'
      BY <1>1, <1>3 DEF Owned
    <2>5. QED
      BY <1>1, <1>3, <2>1, <2>2, <2>3, <2>4 DEF OwnedInv, NoRunForgotten
  <1>4. ASSUME NEW s \in Runs, Queue(s) PROVE FreshJobs' /\ NoRunForgotten'
    <2>1. FreshJobs'
      BY <1>0, <1>2, <1>4 DEF OwnedInv, FreshJobs
    <2>2. \A r \in Runs \ {s} : Owned(r) => Owned(r)'
      BY <1>2, <1>4 DEF Owned
    <2>3. Owned(s) => Owned(s)' \/ cut'[s] # {}
      BY <1>0, <1>2, <1>4 DEF Owned, execVars, Live
    <2>4. cut[s] # {} => Owned(s)' \/ cut'[s] # {}
      BY <1>0, <1>2, <1>4 DEF Owned
    <2>5. QED
      BY <1>2, <1>4, <2>1, <2>2, <2>3, <2>4 DEF OwnedInv, NoRunForgotten
  <1>5. CASE CrashApi
    <2>1. \A r \in Runs : /\ status'[r] = status[r] /\ job'[r] = job[r] /\ tries'[r] = tries[r]
                          /\ cut[r] \subseteq cut'[r]
                          /\ http'[r] \in {"idle", "created"} => http[r] = http'[r]
                          /\ http[r] = "created" \/ Live(Inline(r)) => cut'[r] # {}
                          /\ Live(Job(r)) => Live(Job(r))'
      BY <1>0, <1>5 DEF CrashApi, runVars, Live
    <2>2. FreshJobs'
      BY <2>1 DEF OwnedInv, FreshJobs
    <2>3. \A r \in Runs : Owned(r) => Owned(r)' \/ cut'[r] # {}
      <3> SUFFICES ASSUME NEW r \in Runs, Owned(r) PROVE Owned(r)' \/ cut'[r] # {}
        OBVIOUS
      <3>1. CASE http[r] = "created"
        BY <2>1, <3>1
      <3>2. CASE job[r] = "queued"
        BY <2>1, <3>2 DEF Owned
      <3>3. ASSUME NEW x \in Execs, x[1] = r, Live(x) PROVE Owned(r)' \/ cut'[r] # {}
        <4>1. CASE x = Inline(r)
          BY <2>1, <3>3, <4>1
        <4>2. CASE x = Job(r)
          BY <2>1, <3>3, <4>2 DEF Owned
        <4>3. QED
          BY <1>0, <3>3, <4>1, <4>2
      <3>4. QED
        BY <3>1, <3>2, <3>3 DEF Owned
    <2>4. QED
      BY <2>1, <2>2, <2>3 DEF OwnedInv, NoRunForgotten
  <1>6. CASE LoseRedis \/ RestoreRedis \/ UNCHANGED vars
    BY <1>6 DEF LoseRedis, RestoreRedis, vars, runVars, queueVars, execVars, sessionVars,
                OwnedInv, FreshJobs, NoRunForgotten, Owned, Live
  <1>7. QED
    BY <1>3, <1>4, <1>5, <1>6 DEF OwnedInv

LEMMA NextOwned == ASSUME OwnedInv, [Next]_vars PROVE OwnedInv'
  <1>1. TypeInv'
    BY NextType DEF OwnedInv
  <1>2. QED
    BY <1>1, EnvironmentOwned, StepOwned DEF Next

(* No path of the code forgets a run: one that has not settled is in       *)
(* somebody's hands, or a fault has cut an execution of it short.          *)
THEOREM RunsAreOwned == Spec => []NoRunForgotten
  <1>1. OwnedInv => NoRunForgotten
    BY DEF OwnedInv
  <1>2. QED
    BY <1>1, InitOwned, NextOwned, PTL DEF Spec

-----------------------------------------------------------------------------
(* What outsiders were sent, and what a reader can see, rests on the       *)
(* sessions.  Only an execution inside an attempt holds rows or a failed   *)
(* session, and a failed session has its attempt on record (Tidy); a       *)
(* signal that is being published or evaluated is stored or pending, and   *)
(* pending rows complete each other, up to a result whose build_signal     *)
(* raised.  An execution is started only in the place of a finished one    *)
(* (InHand).                                                               *)
Tidy(e) ==
    LET r == e[1]
        all == db[r] \cup pend[e] IN
    /\ ~Begun(e) => pend[e] = {} /\ ~broken[e]
    /\ broken[e] => att[e] \in cut[r]
    /\ pc[e] \in {"publish", "alerts"} /\ ~broken[e] => Row(att[e], "signal", pos[e]) \in all
    /\ \A x \in pend[e] :
         /\ x.kind = "event" => Row(x.att, "signal", x.pos) \in all
         /\ x.kind = "signal" => Row(x.att, "result", x.pos) \in all
         /\ x.kind = "result" => Row(x.att, "signal", x.pos) \in all \/ pc[e] = "fail"

InHand ==
    \A r \in Runs : /\ Live(Inline(r)) => http[r] = "refused"
                    /\ Live(Job(r)) => job[r] = "active"

KeptInv ==
    /\ OwnedInv /\ InHand
    /\ \A e \in Execs : Tidy(e)
    /\ RowsInWhole
    /\ SentIsKept

LEMMA InitKept == Init => KeptInv
  <1> SUFFICES ASSUME Init PROVE KeptInv
    OBVIOUS
  <1>1. OwnedInv
    BY InitOwned
  <1>2. InHand
    BY DEF Init, InHand, Live, Stages, Inline, Job, Execs
  <1>3. \A e \in Execs : Tidy(e)
    BY DEF Init, Tidy, Begun, Stages
  <1>4. RowsInWhole /\ SentIsKept
    BY DEF Init, RowsInWhole, SentIsKept
  <1>5. QED
    BY <1>1, <1>2, <1>3, <1>4 DEF KeptInv

LEMMA TidyStays ==
    ASSUME NEW x \in Execs, Still(x), Tidy(x),
           db[x[1]] \subseteq db'[x[1]], cut[x[1]] \subseteq cut'[x[1]]
    PROVE  Tidy(x)'
  <1>1. db[x[1]] \cup pend[x] \subseteq db'[x[1]] \cup pend'[x]
    BY DEF Still
  <1>2. QED
    BY <1>1 DEF Tidy, Still, Begun

(* What the environment does to an execution and to a run's tables.        *)
Fate(x) ==
    \/ Still(x)
    \/ /\ ~Begun(x)' /\ pend'[x] = {} /\ ~broken'[x]
       /\ Live(x) => att[x] \in cut'[x[1]]

Undisturbed(r) ==
    /\ db'[r] = db[r] /\ finished'[r] = finished[r]
    /\ published'[r] = published[r] /\ delivered'[r] = delivered[r]
    /\ cut[r] \subseteq cut'[r]

Fine == (\A x \in Execs : Fate(x)) /\ (\A r \in Runs : Undisturbed(r)) /\ InHand'

LEMMA EnvironmentKept ==
    ASSUME KeptInv, OwnedInv',
           \/ \E r \in Runs : Handle(r) \/ Queue(r)
           \/ CrashApi \/ LoseRedis \/ RestoreRedis \/ UNCHANGED vars
    PROVE  KeptInv'
  <1>0. /\ \A r \in Runs : /\ Inline(r) \in Execs /\ Inline(r)[1] = r /\ Inline(r)[2] = "inline"
                           /\ Job(r) \in Execs /\ Job(r)[1] = r /\ Job(r)[2] = "job"
        /\ \A x \in Execs : x[1] \in Runs /\ (x = Inline(x[1]) \/ x = Job(x[1]))
        /\ pc \in [Execs -> {"off", "ended"} \cup Stages] /\ att \in [Execs -> Nat]
        /\ pend \in [Execs -> SUBSET Rows] /\ broken \in [Execs -> BOOLEAN]
        /\ aborted \in [Execs -> BOOLEAN]
        /\ pos \in [Execs -> 1..N+1] /\ cut \in [Runs -> SUBSET Nat]
        /\ http \in [Runs -> {"idle", "created", "enqueued", "accepted", "refused", "lost"}]
        /\ job \in [Runs -> {"none", "queued", "active", "finished"}]
    BY DEF KeptInv, OwnedInv, TypeInv, TypeOK, Inline, Job, Execs
  <1>1. \A x \in Execs : ~Live(x) => pend[x] = {} /\ ~broken[x]
    BY DEF KeptInv, Tidy, Begun, Live
  <1>2. ASSUME NEW r \in Runs, Handle(r) PROVE Fine
    <2>1. CASE FallBackInline(r)
      <3>1. ~Live(Inline(r))
        BY <1>0, <2>1 DEF FallBackInline, KeptInv, InHand
      <3>2. QED
        BY <1>0, <1>1, <2>1, <3>1 DEF FallBackInline, Reset, sessionVars, runVars, outVars,
                   Fine, Fate, Undisturbed, Still, Begun, KeptInv, InHand, Live
    <2>2. CASE CreateRun(r) \/ EnqueueJob(r) \/ ClosePool(r)
      <3>1. UNCHANGED <<execVars, sessionVars, outVars, finished>>
        BY <2>2 DEF CreateRun, EnqueueJob, ClosePool, runVars
      <3>2. \A s \in Runs : http[s] = "refused" => http'[s] = "refused"
        BY <1>0, <2>2 DEF CreateRun, EnqueueJob, ClosePool
      <3>3. \A s \in Runs : job[s] = "active" => job'[s] = "active"
        BY <1>0, <2>2 DEF CreateRun, EnqueueJob, ClosePool, KeptInv, OwnedInv, FreshJobs
      <3>4. InHand'
        BY <3>1, <3>2, <3>3 DEF KeptInv, InHand, Live, execVars
      <3>5. QED
        BY <3>1, <3>4 DEF Fine, Fate, Undisturbed, Still, execVars, sessionVars, outVars
    <2>3. QED
      BY <1>2, <2>1, <2>2 DEF Handle
  <1>3. ASSUME NEW r \in Runs, Queue(r) PROVE Fine
    <2>1. CASE StartJob(r)
      <3>1. ~Live(Job(r))
        BY <1>0, <2>1 DEF StartJob, KeptInv, InHand
      <3>2. QED
        BY <1>0, <1>1, <2>1, <3>1 DEF StartJob, Reset, sessionVars, runVars, outVars,
                   Fine, Fate, Undisturbed, Still, Begun, KeptInv, InHand, Live
    <2>2. CASE AbandonJob(r) \/ AckJob(r)
      BY <1>0, <2>2 DEF AbandonJob, AckJob, sessionVars, runVars, outVars,
                        execVars, Fine, Fate, Undisturbed, Still, KeptInv, InHand, Live, Stages
    <2>3. CASE DropJob(r) \/ TimeoutJob(r)
      <3>1. /\ cut' = [cut EXCEPT ![r] = @ \cup {CutAttempt(Job(r))}]
            /\ pc' = [pc EXCEPT ![Job(r)] = "off"] /\ att' = [att EXCEPT ![Job(r)] = 0]
            /\ pos' = [pos EXCEPT ![Job(r)] = 1]
            /\ pend' = [pend EXCEPT ![Job(r)] = {}] /\ broken' = [broken EXCEPT ![Job(r)] = FALSE]
            /\ aborted' = [aborted EXCEPT ![Job(r)] = FALSE]
            /\ UNCHANGED <<http, db, finished, published, delivered>>
            /\ \A s \in Runs \ {r} : job'[s] = job[s]
        BY <1>0, <2>3 DEF DropJob, TimeoutJob, DropExecution, Reset, Close, runVars, outVars
      <3>2. \A x \in Execs : Fate(x)
        <4>1. \A x \in Execs \ {Job(r)} : Still(x)
          BY <1>0, <3>1 DEF Still
        <4>2. ~Begun(Job(r))' /\ pend'[Job(r)] = {} /\ ~broken'[Job(r)]
          BY <1>0, <3>1 DEF Begun, Stages
        <4>3. Live(Job(r)) => att[Job(r)] \in cut'[r]
          BY <1>0, <3>1 DEF CutAttempt
        <4>4. QED
          BY <1>0, <4>1, <4>2, <4>3 DEF Fate
      <3>3. \A s \in Runs : Undisturbed(s)
        BY <1>0, <3>1 DEF Undisturbed
      <3>4. InHand'
        BY <1>0, <3>1 DEF KeptInv, InHand, Live, Stages
      <3>5. QED
        BY <3>2, <3>3, <3>4 DEF Fine
    <2>4. QED
      BY <1>3, <2>1, <2>2, <2>3 DEF Queue
  <1>4. ASSUME CrashApi PROVE Fine
    <2>1. \A x \in Execs : Fate(x)
      <3>1. ASSUME NEW x \in Execs, x[2] # "inline" PROVE Still(x)
        BY <1>0, <1>4, <3>1 DEF CrashApi, Still
      <3>2. ASSUME NEW x \in Execs, x[2] = "inline" PROVE Fate(x)
        <4>1. pc'[x] = "off" /\ pend'[x] = {} /\ ~broken'[x]
          BY <1>4, <3>2 DEF CrashApi
        <4>2. x = Inline(x[1]) /\ x[1] \in Runs
          BY <1>0, <3>2
        <4>3. Live(x) => att[x] \in cut'[x[1]]
          BY <1>4, <4>2 DEF CrashApi
        <4>4. QED
          BY <4>1, <4>3 DEF Fate, Begun, Stages
      <3>3. QED
        BY <3>1, <3>2 DEF Fate
    <2>2. \A s \in Runs : Undisturbed(s)
      BY <1>0, <1>4 DEF CrashApi, runVars, outVars, Undisturbed
    <2>3. InHand'
      BY <1>0, <1>4 DEF CrashApi, KeptInv, InHand, Live, Stages
    <2>4. QED
      BY <2>1, <2>2, <2>3 DEF Fine
  <1>5. ASSUME LoseRedis \/ RestoreRedis \/ UNCHANGED vars PROVE Fine
    BY <1>5 DEF LoseRedis, RestoreRedis, vars, runVars, queueVars, execVars, sessionVars, outVars,
                Fine, Fate, Undisturbed, Still, KeptInv, InHand, Live
  <1>6. Fine
    BY <1>2, <1>3, <1>4, <1>5
  <1>7. \A x \in Execs : Tidy(x)'
    <2> SUFFICES ASSUME NEW x \in Execs PROVE Tidy(x)'
      OBVIOUS
    <2>1. CASE Still(x)
      BY <1>0, <1>6, <2>1, TidyStays DEF KeptInv, Fine, Undisturbed
    <2>2. CASE ~Still(x)
      BY <1>6, <2>2 DEF Fine, Fate, Tidy, Begun, Stages
    <2>3. QED
      BY <2>1, <2>2
  <1>8. RowsInWhole'
    BY <1>6 DEF KeptInv, RowsInWhole, Fine, Undisturbed
  <1>9. SentIsKept'
    <2> SUFFICES ASSUME NEW r \in Runs, NEW s \in published[r] \cup delivered[r],
                        s[1] \notin cut'[r], Row(s[1], "signal", s[2]) \notin db'[r]
                 PROVE  \E e \in Execs : /\ e[1] = r /\ Live(e)' /\ att'[e] = s[1]
                                         /\ Row(s[1], "signal", s[2]) \in pend'[e]
      BY <1>6 DEF SentIsKept, Fine, Undisturbed
    <2>1. PICK e \in Execs : /\ e[1] = r /\ Live(e) /\ att[e] = s[1]
                             /\ Row(s[1], "signal", s[2]) \in pend[e]
      BY <1>6 DEF KeptInv, SentIsKept, Fine, Undisturbed
    <2>2. Still(e)
      BY <1>6, <2>1 DEF Fine, Fate
    <2>3. QED
      BY <2>1, <2>2 DEF Still, Live
  <1>10. QED
    BY <1>6, <1>7, <1>8, <1>9 DEF KeptInv, Fine

(* A step of an execution by what it does to its session: it leaves the    *)
(* rows pending, commits them, or drops them with the attempt on record.   *)
LEMMA StepKeeps ==
    ASSUME KeptInv, NEW e \in Execs, Step(e)
    PROVE  /\ \/ ~Begun(e)
              \/ Live(e)' /\ att'[e] = att[e] /\ pend[e] \subseteq pend'[e]
              \/ pend[e] \subseteq db'[e[1]]
              \/ att[e] \in cut'[e[1]]
           /\ \A r \in Runs \ {e[1]} : /\ published'[r] = published[r]
                                       /\ delivered'[r] = delivered[r]
                                       /\ db'[r] = db[r]
  <1>0. /\ e[1] \in Runs
        /\ pc \in [Execs -> {"off", "ended"} \cup Stages] /\ att \in [Execs -> Nat]
        /\ pend \in [Execs -> SUBSET Rows] /\ db \in [Runs -> SUBSET Rows]
        /\ cut \in [Runs -> SUBSET Nat]
        /\ published \in [Runs -> SUBSET (Nat \X Positions)]
        /\ delivered \in [Runs -> SUBSET (Nat \X Positions)]
    BY ExecRun DEF KeptInv, OwnedInv, TypeInv, TypeOK
  <1>1. \A r \in Runs \ {e[1]} : db'[r] = db[r]
    <2>1. CASE FailToBegin(e) \/ FailToMarkError(e)
      BY <2>1 DEF FailToBegin, FailToMarkError
    <2>2. QED
      BY <1>0, <2>1, StepSession DEF KeptInv, OwnedInv, Uses, Flowing, Commit,
                                     RollBackSilently, Fails, Abort, Break, Add, sessionVars
  <1>2. \A r \in Runs \ {e[1]} : published'[r] = published[r] /\ delivered'[r] = delivered[r]
    <2>1. CASE PublishSignal(e) \/ EvaluateAlerts(e)
      BY <1>0, <2>1 DEF PublishSignal, EvaluateAlerts
    <2>2. CASE ~(PublishSignal(e) \/ EvaluateAlerts(e))
      BY <2>2 DEF Step, LoadRun, MarkRunning, FailToBegin, SetUp, FetchBars, SkipSymbol,
                  SaveBars, GatherContext, ScoreSymbol, CommitRows, MarkDone, MarkError,
                  FailToMarkError, outVars
    <2>3. QED
      BY <2>1, <2>2
  <1>3. CASE LoadRun(e) \/ MarkRunning(e) \/ FailToBegin(e)
    BY <1>1, <1>2, <1>3 DEF LoadRun, MarkRunning, FailToBegin, Begun
  <1>4. CASE MarkError(e) \/ FailToMarkError(e)
    BY <1>0, <1>1, <1>2, <1>4 DEF MarkError, Conclude, Commit, FailToMarkError, Cut
  <1>5. CASE MarkDone(e)
    BY <1>0, <1>1, <1>2, <1>5 DEF MarkDone, Conclude, Commit, Break, Cut
  <1>6. CASE \/ SetUp(e) \/ FetchBars(e) \/ SkipSymbol(e) \/ SaveBars(e) \/ GatherContext(e)
             \/ ScoreSymbol(e) \/ PublishSignal(e) \/ EvaluateAlerts(e) \/ CommitRows(e)
    <2>1. Live(e)' /\ att'[e] = att[e]
      BY <1>0, <1>6 DEF SetUp, FetchBars, SkipSymbol, SaveBars, GatherContext, ScoreSymbol,
                        PublishSignal, EvaluateAlerts, CommitRows, Goto, NextSymbol, Live, Stages
    <2>2. \/ Uses(e)
          \/ \E k \in SUBSET {"result", "signal", "event"} : Add(e, k)
      <3>1. ~FailToBegin(e) /\ ~FailToMarkError(e)
        BY <1>0, <2>1 DEF FailToBegin, FailToMarkError, Reset, Live, Stages
      <3>2. QED
        BY <3>1, StepSession DEF KeptInv, OwnedInv
    <2>3. CASE Flowing
      BY <1>1, <1>2, <2>1, <2>3 DEF Flowing, sessionVars
    <2>4. CASE Commit(e)
      BY <1>0, <1>1, <1>2, <2>4 DEF Commit
    <2>5. CASE Fails(e)
      BY <1>0, <1>1, <1>2, <2>5 DEF Fails, Abort, Break, Cut
    <2>6. CASE \E k \in SUBSET {"result", "signal", "event"} : Add(e, k)
      BY <1>0, <1>1, <1>2, <2>1, <2>6 DEF Add
    <2>7. CASE RollBackSilently(e)
      BY <1>0, <1>1, <1>2, <2>1, <2>7 DEF RollBackSilently
    <2>8. QED
      BY <2>2, <2>3, <2>4, <2>5, <2>6, <2>7 DEF Uses
  <1>7. QED
    BY <1>3, <1>4, <1>5, <1>6 DEF Step

(* Nothing is sent but the signal of the symbol at hand, and that is held  *)
(* or stored, or its attempt is on record.                                 *)
LEMMA StepSends ==
    ASSUME KeptInv, NEW e \in Execs, Step(e),
           NEW s \in published'[e[1]] \cup delivered'[e[1]],
           s \notin published[e[1]] \cup delivered[e[1]]
    PROVE  /\ s[1] = att[e]
           /\ \/ Row(s[1], "signal", s[2]) \in db[e[1]] \cup pend[e]
              \/ att[e] \in cut[e[1]]
           /\ Begun(e)
  <1>0. /\ e[1] \in Runs
        /\ published \in [Runs -> SUBSET (Nat \X Positions)]
        /\ delivered \in [Runs -> SUBSET (Nat \X Positions)]
    BY ExecRun DEF KeptInv, OwnedInv, TypeInv, TypeOK
  <1>1. PublishSignal(e) \/ EvaluateAlerts(e)
    BY DEF Step, LoadRun, MarkRunning, FailToBegin, SetUp, FetchBars, SkipSymbol,
           SaveBars, GatherContext, ScoreSymbol, CommitRows, MarkDone, MarkError,
           FailToMarkError, outVars
  <1>2. pc[e] \in {"publish", "alerts"} /\ s = <<att[e], pos[e]>>
    BY <1>0, <1>1 DEF PublishSignal, EvaluateAlerts, Goto, NextSymbol
  <1>3. QED
    BY <1>2 DEF KeptInv, Tidy, Begun, Stages

LEMMA StepSent ==
    ASSUME KeptInv, NEW e \in Execs, Step(e)
    PROVE  SentIsKept'
  <1> SUFFICES ASSUME NEW r \in Runs, NEW s \in published'[r] \cup delivered'[r],
                      s[1] \notin cut'[r], Row(s[1], "signal", s[2]) \notin db'[r]
               PROVE  \E x \in Execs : /\ x[1] = r /\ Live(x)' /\ att'[x] = s[1]
                                       /\ Row(s[1], "signal", s[2]) \in pend'[x]
    BY DEF SentIsKept
  <1>0. /\ cut[r] \subseteq cut'[r] /\ db[r] \subseteq db'[r]
        /\ \A x \in Execs \ {e} : Still(x)
    BY StepOwner, StepMoves DEF KeptInv, OwnedInv, Moved, Grows
  <1>1. CASE s \in published[r] \cup delivered[r]
    <2>1. PICK x \in Execs : /\ x[1] = r /\ Live(x) /\ att[x] = s[1]
                             /\ Row(s[1], "signal", s[2]) \in pend[x]
      BY <1>0, <1>1 DEF KeptInv, SentIsKept
    <2>2. CASE x = e
      <3>1. Begun(e)
        BY <2>1, <2>2 DEF KeptInv, Tidy
      <3>2. QED
        BY <2>1, <2>2, <3>1, StepKeeps
    <2>3. CASE x # e
      BY <1>0, <2>1, <2>3 DEF Still, Live
    <2>4. QED
      BY <2>2, <2>3
  <1>2. CASE s \notin published[r] \cup delivered[r]
    <2>1. r = e[1]
      BY <1>2, StepKeeps
    <2>2. s[1] = att[e] /\ Begun(e) /\ Row(s[1], "signal", s[2]) \in pend[e]
      BY <1>0, <1>2, <2>1, StepSends
    <2>3. QED
      BY <2>1, <2>2, StepKeeps
  <1>3. QED
    BY <1>1, <1>2

LEMMA StepTidy ==
    ASSUME KeptInv, NEW e \in Execs, Step(e)
    PROVE  Tidy(e)'
  <1> DEFINE r == e[1]
  <1>0. /\ r \in Runs /\ pos[e] \in 1..N+1
        /\ pc \in [Execs -> {"off", "ended"} \cup Stages] /\ att \in [Execs -> Nat]
        /\ pos \in [Execs -> 1..N+1] /\ broken \in [Execs -> BOOLEAN]
        /\ pend \in [Execs -> SUBSET Rows] /\ db \in [Runs -> SUBSET Rows]
        /\ cut \in [Runs -> SUBSET Nat]
    BY ExecRun DEF KeptInv, OwnedInv, TypeInv, TypeOK
  <1>1. Tidy(e)
    BY DEF KeptInv
  <1>2. CASE LoadRun(e) \/ MarkRunning(e) \/ FailToBegin(e)
    <2>1. pend'[e] = {} /\ ~broken'[e] /\ pc'[e] \in {"loaded", "setup", "ended"}
      BY <1>0, <1>1, <1>2 DEF LoadRun, MarkRunning, FailToBegin, Reset, Tidy, Begun, sessionVars
    <2>2. QED
      BY <2>1 DEF Tidy, Begun
  <1>3. CASE MarkError(e) \/ FailToMarkError(e) \/ (MarkDone(e) /\ pc'[e] = "ended")
    <2>1. pend'[e] = {} /\ ~broken'[e] /\ pc'[e] = "ended"
      BY <1>0, <1>3 DEF MarkError, FailToMarkError, MarkDone, Conclude, Commit, Close, Reset, Goto
    <2>2. QED
      BY <2>1 DEF Tidy, Begun
  <1>4. CASE \/ SetUp(e) \/ FetchBars(e) \/ SkipSymbol(e) \/ SaveBars(e) \/ GatherContext(e)
             \/ CommitRows(e) \/ PublishSignal(e) \/ (MarkDone(e) /\ pc'[e] # "ended")
    <2>1. /\ Begun(e) /\ Begun(e)' /\ pc[e] # "fail" /\ att'[e] = att[e]
          /\ pc'[e] \in {"publish", "alerts"} => pc[e] = "publish" /\ pos'[e] = pos[e] /\ Flowing
          /\ Uses(e)
      BY <1>0, <1>4 DEF SetUp, FetchBars, SkipSymbol, SaveBars, SaveChain, Persist, GatherContext,
              CommitRows, PublishSignal, MarkDone, Conclude, Reset, Goto, NextSymbol, Begun, Stages,
              Flowing, Uses, Fails
    <2>2. CASE Flowing
      BY <1>1, <2>1, <2>2 DEF Flowing, sessionVars, Tidy
    <2>3. CASE Commit(e) /\ ~Flowing
      <3>1. pend'[e] = {} /\ ~broken'[e]
        BY <1>0, <2>3 DEF Commit
      <3>2. QED
        BY <2>1, <2>3, <3>1 DEF Tidy
    <2>4. CASE Fails(e) /\ ~Flowing
      <3>1. pend'[e] = {} /\ att'[e] \in cut'[r]
        BY <1>0, <2>1, <2>4 DEF Fails, Abort, Break, Cut
      <3>2. QED
        BY <2>1, <2>4, <3>1 DEF Tidy
    <2>5. CASE RollBackSilently(e) /\ ~Flowing
      <3>1. pend'[e] = {} /\ broken' = broken /\ cut' = cut
        BY <1>0, <2>5 DEF RollBackSilently
      <3>2. QED
        BY <1>1, <2>1, <2>5, <3>1 DEF Tidy
    <2>6. QED
      BY <2>1, <2>2, <2>3, <2>4, <2>5 DEF Uses
  <1>5. CASE ScoreSymbol(e)
    <2>1. /\ pc[e] = "score" /\ Begun(e) /\ Begun(e)' /\ att'[e] = att[e]
          /\ pc'[e] = "publish" => pos'[e] = pos[e]
          /\ pc'[e] # "alerts"
          /\ \/ Add(e, {"result", "signal"})
             \/ pc'[e] = "fail" /\ (Flowing \/ Add(e, {"result"}))
      BY <1>0, <1>5 DEF ScoreSymbol, Goto, NextSymbol, Begun, Stages
    <2>2. CASE Add(e, {"result", "signal"})
      <3>1. /\ pend'[e] = pend[e] \cup {Row(att[e], "result", pos[e]), Row(att[e], "signal", pos[e])}
            /\ db' = db /\ broken' = broken /\ cut' = cut
        BY <1>0, <2>2 DEF Add
      <3>2. QED
        BY <1>1, <2>1, <3>1 DEF Tidy, Row
    <2>3. CASE pc'[e] = "fail" /\ Flowing
      BY <1>1, <2>1, <2>3 DEF Flowing, sessionVars, Tidy
    <2>4. CASE pc'[e] = "fail" /\ Add(e, {"result"})
      <3>1. /\ pend'[e] = pend[e] \cup {Row(att[e], "result", pos[e])}
            /\ db' = db /\ broken' = broken /\ cut' = cut
        BY <1>0, <2>4 DEF Add
      <3>2. QED
        BY <1>1, <2>1, <2>4, <3>1 DEF Tidy, Row
    <2>5. QED
      BY <2>1, <2>2, <2>3, <2>4
  <1>6. CASE EvaluateAlerts(e)
    <2>1. /\ pc[e] = "alerts" /\ pc'[e] = "fetch" /\ Begun(e) /\ Begun(e)' /\ att'[e] = att[e]
          /\ Flowing \/ Fails(e) \/ (~broken[e] /\ Add(e, {"event"}))
      BY <1>0, <1>6 DEF EvaluateAlerts, Goto, NextSymbol, Begun, Stages
    <2>2. CASE Flowing
      BY <1>1, <2>1, <2>2 DEF Flowing, sessionVars, Tidy
    <2>3. CASE Fails(e)
      <3>1. pend'[e] = {} /\ att'[e] \in cut'[r]
        BY <1>0, <2>1, <2>3 DEF Fails, Abort, Break, Cut
      <3>2. QED
        BY <2>1, <3>1 DEF Tidy
    <2>4. CASE ~broken[e] /\ Add(e, {"event"})
      <3>1. /\ pend'[e] = pend[e] \cup {Row(att[e], "event", pos[e])}
            /\ db' = db /\ broken' = broken /\ cut' = cut
        BY <1>0, <2>4 DEF Add
      <3>2. QED
        BY <1>1, <2>1, <2>4, <3>1 DEF Tidy, Row
    <2>5. QED
      BY <2>1, <2>2, <2>3, <2>4
  <1>7. QED
    BY <1>2, <1>3, <1>4, <1>5, <1>6 DEF Step

(* Rows become visible by a commit, all that a session holds at once, and  *)
(* in "fail" only together with the end of the run.                        *)
LEMMA StepWhole ==
    ASSUME KeptInv, NEW e \in Execs, Step(e)
    PROVE  RowsInWhole'
  <1> DEFINE r == e[1]
  <1>0. /\ r \in Runs /\ finished \in [Runs -> BOOLEAN]
        /\ pc \in [Execs -> {"off", "ended"} \cup Stages]
        /\ pend \in [Execs -> SUBSET Rows] /\ db \in [Runs -> SUBSET Rows]
    BY ExecRun DEF KeptInv, OwnedInv, TypeInv, TypeOK
  <1>1. \A s \in Runs \ {r} : db'[s] = db[s] /\ finished'[s] = finished[s]
    BY StepKeeps, StepRow DEF KeptInv, OwnedInv
  <1>2. finished[r] => finished'[r]
    BY StepRow DEF KeptInv, OwnedInv, runVars
  <1>3. \/ db'[r] = db[r]
        \/ /\ db'[r] = db[r] \cup pend[e]
           /\ pc[e] = "fail" => finished'[r]
    <2>1. CASE FailToBegin(e) \/ FailToMarkError(e)
      BY <2>1 DEF FailToBegin, FailToMarkError
    <2>2. CASE Commit(e) /\ ~FailToMarkError(e)
      <3>1. db'[r] = db[r] \cup pend[e]
        BY <1>0, <2>2 DEF Commit
      <3>2. pc[e] = "fail" => MarkError(e)
        BY <2>2 DEF Step, LoadRun, MarkRunning, FailToBegin, SetUp, FetchBars, SkipSymbol,
               SaveBars, GatherContext, ScoreSymbol, PublishSignal, EvaluateAlerts, CommitRows,
               MarkDone, Conclude, Goto, NextSymbol
      <3>3. MarkError(e) => finished'[r]
        BY <1>0 DEF MarkError, Conclude
      <3>4. QED
        BY <3>1, <3>2, <3>3
    <2>3. CASE \/ Flowing \/ RollBackSilently(e) \/ Fails(e)
               \/ \E k \in SUBSET {"result", "signal", "event"} : Add(e, k)
      BY <2>3 DEF Flowing, RollBackSilently, Fails, Abort, Break, Add, sessionVars
    <2>4. QED
      BY <2>1, <2>2, <2>3, StepSession DEF KeptInv, OwnedInv, Uses
  <1>4. ASSUME NEW x \in db'[r]
        PROVE  /\ x.kind = "event" => Row(x.att, "signal", x.pos) \in db'[r]
               /\ x.kind = "signal" => Row(x.att, "result", x.pos) \in db'[r]
               /\ x.kind = "result" => \/ Row(x.att, "signal", x.pos) \in db'[r]
                                       \/ finished'[r]
    <2>1. CASE x \in db[r]
      BY <1>0, <1>2, <1>3, <2>1 DEF KeptInv, RowsInWhole
    <2>2. CASE x \in pend[e] /\ x \notin db[r]
      BY <1>3, <2>2 DEF KeptInv, Tidy
    <2>3. QED
      BY <1>3, <1>4, <2>1, <2>2
  <1>5. QED
    BY <1>1, <1>4 DEF KeptInv, RowsInWhole

LEMMA NextKept == ASSUME KeptInv, [Next]_vars PROVE KeptInv'
  <1>0. OwnedInv'
    BY NextOwned DEF KeptInv
  <1>1. ASSUME NEW e \in Execs, Step(e) PROVE KeptInv'
    <2>1. \A x \in Execs \ {e} : Tidy(x)'
      BY <1>1, ExecRun, StepMoves, StepOwner, TidyStays DEF KeptInv, OwnedInv, Moved, Grows
    <2>2. InHand'
      <3>1. Live(e)
        BY <1>1 DEF Step, LoadRun, MarkRunning, FailToBegin, SetUp, FetchBars, SkipSymbol,
               SaveBars, GatherContext, ScoreSymbol, PublishSignal, EvaluateAlerts, CommitRows,
               MarkDone, MarkError, FailToMarkError, Goto, NextSymbol, Live, Stages
      <3>2. \A x \in Execs : Live(x)' => Live(x)
        BY <1>1, <3>1, StepMoves DEF KeptInv, OwnedInv, Moved, Still, Live
      <3>3. \A r \in Runs : Inline(r) \in Execs /\ Job(r) \in Execs
        BY DEF Inline, Job, Execs
      <3>4. QED
        BY <1>1, <3>2, <3>3, StepOwner DEF KeptInv, OwnedInv, InHand
    <2>3. QED
      BY <1>0, <1>1, <2>1, <2>2, StepTidy, StepWhole, StepSent DEF KeptInv
  <1>2. CASE \/ \E r \in Runs : Handle(r) \/ Queue(r)
             \/ CrashApi \/ LoseRedis \/ RestoreRedis \/ UNCHANGED vars
    BY <1>0, <1>2, EnvironmentKept
  <1>3. QED
    BY <1>1, <1>2 DEF Next

LEMMA AlwaysKept == Spec => []KeptInv
  <1>1. QED
    BY InitKept, NextKept, PTL DEF Spec

(* What was published or delivered before the commit is stored in the end, *)
(* unless a fault cut the attempt short: no path of execute_scan itself    *)
(* tells outsiders of a signal it then loses.                              *)
THEOREM SentAlwaysKept == Spec => []SentIsKept
  <1>1. KeptInv => SentIsKept
    BY DEF KeptInv
  <1>2. QED
    BY <1>1, AlwaysKept, PTL

(* A reader of the results never sees an event without its signal nor a    *)
(* signal without its result, although save_ohlcv_bars and                 *)
(* save_option_chain commit the caller's rows in the middle of the walk.   *)
THEOREM ReadersSeeWhole == Spec => []RowsInWhole
  <1>1. KeptInv => RowsInWhole
    BY DEF KeptInv
  <1>2. QED
    BY <1>1, AlwaysKept, PTL

-----------------------------------------------------------------------------
(* The refinement.  A run is executed at most once when no answer to an    *)
(* enqueue is lost and no worker drops its job: then the request handler   *)
(* hands the run to one execution only, which finds it queued and has it   *)
(* running while it is inside its attempt.                                 *)
AtMostOnceFaults == "reply" \notin Faults /\ "restart" \notin Faults

OneHand ==
    \A r \in Runs :
       /\ http[r] = "idle" => status[r] = "none" /\ job[r] = "none"
       /\ http[r] = "created" \/ job[r] = "queued" => status[r] = "queued"
       /\ http[r] = "created" \/ Live(Inline(r)) => job[r] = "none"

InStep ==
    \A e \in Execs :
       /\ pc[e] \in {"ready", "loaded"} => status[e[1]] = "queued"
       /\ pc[e] = "loaded" => seen[e] = "queued"
       /\ Begun(e) => status[e[1]] = "running"

OnceInv == KeptInv /\ OneHand /\ InStep

LEMMA InitOnce == Init => OnceInv
  <1> SUFFICES ASSUME Init PROVE OnceInv
    OBVIOUS
  <1>1. KeptInv
    BY InitKept
  <1>2. OneHand
    BY DEF Init, OneHand, Live, Stages, Inline, Execs
  <1>3. InStep
    BY DEF Init, InStep, Begun, Stages
  <1>4. QED
    BY <1>1, <1>2, <1>3 DEF OnceInv

LEMMA EnvironmentOnce ==
    ASSUME AtMostOnceFaults, OnceInv, KeptInv',
           \/ \E r \in Runs : Handle(r) \/ Queue(r)
           \/ CrashApi \/ LoseRedis \/ RestoreRedis \/ UNCHANGED vars
    PROVE  /\ OnceInv'
           /\ db' = db
           /\ status' = status \/ \E r \in Runs : Lifecycle!Create(r)
  <1>0. /\ \A r \in Runs : /\ Inline(r) \in Execs /\ Inline(r)[1] = r /\ Inline(r)[2] = "inline"
                           /\ Job(r) \in Execs /\ Job(r)[1] = r /\ Job(r)[2] = "job"
        /\ \A x \in Execs : x[1] \in Runs /\ (x = Inline(x[1]) \/ x = Job(x[1]))
        /\ pc \in [Execs -> {"off", "ended"} \cup Stages]
        /\ seen \in [Execs -> {"none", "queued", "running"} \cup Terminal]
        /\ status \in [Runs -> {"none", "queued", "running"} \cup Terminal]
        /\ http \in [Runs -> {"idle", "created", "enqueued", "accepted", "refused", "lost"}]
        /\ job \in [Runs -> {"none", "queued", "active", "finished"}]
    BY DEF OnceInv, KeptInv, OwnedInv, TypeInv, TypeOK, Inline, Job, Execs
  <1>1. ASSUME NEW r \in Runs, Handle(r)
        PROVE  /\ OneHand' /\ InStep' /\ db' = db
               /\ status' = status \/ Lifecycle!Create(r)
    <2>1. CASE CreateRun(r)
      <3>1. /\ http[r] = "idle" /\ status[r] = "none" /\ job[r] = "none"
            /\ http' = [http EXCEPT ![r] = "created"]
            /\ status' = [status EXCEPT ![r] = "queued"]
            /\ UNCHANGED <<job, execVars, sessionVars>>
        BY <2>1 DEF CreateRun, OnceInv, OneHand
      <3>2. ~Live(Inline(r)) /\ ~Live(Job(r))
        BY <3>1 DEF OnceInv, KeptInv, InHand
      <3>3. OneHand'
        BY <1>0, <3>1, <3>2 DEF OnceInv, OneHand, Live, execVars
      <3>4. InStep'
        BY <1>0, <3>1, <3>2 DEF OnceInv, InStep, Begun, Live, Stages, execVars
      <3>5. Lifecycle!Create(r) /\ db' = db
        BY <3>1 DEF Lifecycle!Create, Lifecycle!Move, sessionVars
      <3>6. QED
        BY <3>3, <3>4, <3>5
    <2>2. CASE EnqueueJob(r) \/ ClosePool(r)
      BY <1>0, <2>2 DEF EnqueueJob, ClosePool, runVars, execVars, sessionVars, OnceInv, OneHand,
                 InStep, Live, Begun, KeptInv, InHand
    <2>3. CASE FallBackInline(r)
      <3>1. /\ http[r] = "created" /\ status[r] = "queued" /\ job[r] = "none"
            /\ http' = [http EXCEPT ![r] = "refused"]
            /\ pc' = [pc EXCEPT ![Inline(r)] = "ready"]
            /\ UNCHANGED <<job, status, db>>
            /\ \A x \in Execs \ {Inline(r)} : seen'[x] = seen[x]
        BY <1>0, <2>3 DEF FallBackInline, Reset, runVars, sessionVars, AtMostOnceFaults, Injected,
                 OnceInv, OneHand
      <3>2. OneHand'
        BY <1>0, <3>1 DEF OnceInv, OneHand, Live
      <3>3. InStep'
        BY <1>0, <3>1 DEF OnceInv, InStep, Begun, Stages
      <3>4. QED
        BY <3>1, <3>2, <3>3
    <2>4. QED
      BY <1>1, <2>1, <2>2, <2>3 DEF Handle
  <1>2. ASSUME NEW r \in Runs, Queue(r)
        PROVE  OneHand' /\ InStep' /\ db' = db /\ status' = status
    <2>1. CASE StartJob(r)
      <3>1. /\ job[r] = "queued" /\ status[r] = "queued"
            /\ job' = [job EXCEPT ![r] = "active"]
            /\ pc' = [pc EXCEPT ![Job(r)] = "ready"]
            /\ UNCHANGED <<http, status, db>>
            /\ \A x \in Execs \ {Job(r)} : seen'[x] = seen[x]
            /\ ~Live(Inline(r)) /\ http[r] # "created"
        BY <1>0, <2>1 DEF StartJob, Reset, runVars, sessionVars, OnceInv, OneHand
      <3>2. OneHand'
        <4>1. http[r] # "idle"
          BY <3>1 DEF OnceInv, OneHand
        <4>2. \A s \in Runs : Live(Inline(s))' = Live(Inline(s))
          BY <1>0, <3>1 DEF Live
        <4>3. QED
          BY <1>0, <3>1, <4>1, <4>2 DEF OnceInv, OneHand
      <3>3. InStep'
        BY <1>0, <3>1 DEF OnceInv, InStep, Begun, Stages
      <3>4. QED
        BY <3>1, <3>2, <3>3
    <2>2. CASE AbandonJob(r) \/ AckJob(r)
      <3>1. /\ job[r] # "none" /\ job' = [job EXCEPT ![r] = "finished"]
            /\ UNCHANGED <<http, status, db, pc, seen>>
        BY <2>2 DEF AbandonJob, AckJob, runVars, execVars, sessionVars
      <3>2. QED
        BY <1>0, <3>1 DEF OnceInv, OneHand, InStep, Live, Begun
    <2>3. CASE DropJob(r) \/ TimeoutJob(r)
      <3>1. /\ job[r] = "active" /\ job' = [job EXCEPT ![r] = "finished"]
            /\ pc' = [pc EXCEPT ![Job(r)] = "off"]
            /\ UNCHANGED <<http, status, db>>
            /\ \A x \in Execs \ {Job(r)} : seen'[x] = seen[x]
        BY <1>0, <2>3 DEF DropJob, TimeoutJob, DropExecution, Reset, runVars, AtMostOnceFaults, Injected
      <3>2. OneHand'
        BY <1>0, <3>1 DEF OnceInv, OneHand, Live, Stages
      <3>3. InStep'
        BY <1>0, <3>1 DEF OnceInv, InStep, Begun, Stages
      <3>4. QED
        BY <3>1, <3>2, <3>3
    <2>4. QED
      BY <1>2, <2>1, <2>2, <2>3 DEF Queue
  <1>3. ASSUME CrashApi
        PROVE  OneHand' /\ InStep' /\ db' = db /\ status' = status
    <2>1. /\ UNCHANGED <<job, status, db>>
          /\ \A r \in Runs : http'[r] \in {"idle", "created"} => http'[r] = http[r]
          /\ \A x \in Execs : pc'[x] = "off" \/ (pc'[x] = pc[x] /\ seen'[x] = seen[x])
      BY <1>0, <1>3 DEF CrashApi, runVars
    <2>2. OneHand'
      BY <1>0, <2>1 DEF OnceInv, OneHand, Live, Stages
    <2>3. InStep'
      BY <1>0, <2>1 DEF OnceInv, InStep, Begun, Stages
    <2>4. QED
      BY <2>1, <2>2, <2>3
  <1>4. ASSUME LoseRedis \/ RestoreRedis \/ UNCHANGED vars
        PROVE  OneHand' /\ InStep' /\ db' = db /\ status' = status
    BY <1>4 DEF LoseRedis, RestoreRedis, vars, runVars, queueVars, execVars, sessionVars,
                OnceInv, OneHand, InStep, Live, Begun
  <1>5. QED
    BY <1>1, <1>2, <1>3, <1>4 DEF OnceInv

(* A step of the one execution: it starts, reveals, finishes or fails.     *)
LEMMA StepOnce ==
    ASSUME OnceInv, KeptInv', NEW e \in Execs, Step(e)
    PROVE  /\ OnceInv'
           /\ \/ UNCHANGED <<status, db>>
              \/ Lifecycle!Start(e[1]) \/ Lifecycle!Reveal(e[1])
              \/ Lifecycle!Finish(e[1]) \/ Lifecycle!Fail(e[1])
  <1> DEFINE r == e[1]
  <1>0. /\ r \in Runs
        /\ \A s \in Runs : /\ Inline(s) \in Execs /\ Inline(s)[1] = s
                           /\ Job(s) \in Execs /\ Job(s)[1] = s
        /\ \A x \in Execs : x[1] \in Runs /\ (x = Inline(x[1]) \/ x = Job(x[1]))
        /\ pc \in [Execs -> {"off", "ended"} \cup Stages]
        /\ seen \in [Execs -> {"none", "queued", "running"} \cup Terminal]
        /\ status \in [Runs -> {"none", "queued", "running"} \cup Terminal]
        /\ db \in [Runs -> SUBSET Rows] /\ db' \in [Runs -> SUBSET Rows]
        /\ status' \in [Runs -> {"none", "queued", "running"} \cup Terminal]
        /\ pend \in [Execs -> SUBSET Rows]
    BY ExecRun DEF OnceInv, KeptInv, OwnedInv, TypeInv, TypeOK, Inline, Job, Execs
  <1>1. /\ Live(e)
        /\ \A x \in Execs \ {e} : pc'[x] = pc[x]
        /\ \A s \in Runs \ {r} : status'[s] = status[s] /\ db'[s] = db[s]
        /\ UNCHANGED <<http, job>>
        /\ db[r] \subseteq db'[r]
    <2>1. Live(e)
      BY DEF Step, LoadRun, MarkRunning, FailToBegin, SetUp, FetchBars, SkipSymbol,
             SaveBars, GatherContext, ScoreSymbol, PublishSignal, EvaluateAlerts, CommitRows,
             MarkDone, MarkError, FailToMarkError, Goto, NextSymbol, Live, Stages
    <2>2. QED
      BY <2>1, <1>0, StepMoves, StepRow, StepKeeps DEF OnceInv, KeptInv, OwnedInv, Moved, Still, Grows
  <1>2. \A x \in Execs \ {e} : x[1] = r => ~Live(x)
    BY <1>0, <1>1 DEF OnceInv, OneHand, KeptInv, InHand
  <1>3. \A x \in Execs \ {e} : seen'[x] = seen[x]
    BY <1>0 DEF Step, LoadRun, MarkRunning, FailToBegin, SetUp, FetchBars, SkipSymbol,
           SaveBars, GatherContext, ScoreSymbol, PublishSignal, EvaluateAlerts, CommitRows,
           MarkDone, MarkError, Conclude, FailToMarkError, Goto, NextSymbol, Reset
  <1>4. OneHand'
    <2>1. http[r] # "idle" /\ http[r] # "created" /\ job[r] # "queued"
      BY <1>0, <1>1 DEF OnceInv, OneHand, KeptInv, InHand
    <2>2. \A x \in Execs : Live(x)' => Live(x)
      BY <1>1 DEF Live
    <2>3. QED
      BY <1>0, <1>1, <2>1, <2>2 DEF OnceInv, OneHand
  <1>5. ASSUME /\ pc'[e] \in {"ready", "loaded"} => status'[r] = "queued"
               /\ pc'[e] = "loaded" => seen'[e] = "queued"
               /\ Begun(e)' => status'[r] = "running"
        PROVE  InStep'
    <2> SUFFICES ASSUME NEW x \in Execs
                 PROVE  /\ pc'[x] \in {"ready", "loaded"} => status'[x[1]] = "queued"
                        /\ pc'[x] = "loaded" => seen'[x] = "queued"
                        /\ Begun(x)' => status'[x[1]] = "running"
      BY DEF InStep
    <2>1. CASE x = e
      BY <1>5, <2>1
    <2>2. CASE x # e /\ x[1] = r
      BY <1>1, <1>2, <2>2 DEF Live, Begun, Stages
    <2>3. CASE x # e /\ x[1] # r
      BY <1>0, <1>1, <1>3, <2>3 DEF OnceInv, InStep, Begun
    <2>4. QED
      BY <2>1, <2>2, <2>3
  <1>6. CASE LoadRun(e)
    BY <1>0, <1>4, <1>5, <1>6 DEF LoadRun, OnceInv, InStep, Begun, Stages, runVars, sessionVars
  <1>7. CASE MarkRunning(e)
    <2>1. /\ status[r] = "queued" /\ status' = [status EXCEPT ![r] = "running"] /\ db' = db
          /\ pc'[e] = "setup"
      BY <1>0, <1>7 DEF MarkRunning, OnceInv, InStep, sessionVars
    <2>2. Lifecycle!Start(r)
      BY <2>1 DEF Lifecycle!Start, Lifecycle!Move
    <2>3. QED
      BY <1>0, <1>4, <1>5, <2>1, <2>2 DEF OnceInv
  <1>8. CASE FailToBegin(e) \/ FailToMarkError(e)
    <2>1. UNCHANGED <<status, db>> /\ pc'[e] = "ended"
      BY <1>0, <1>8 DEF FailToBegin, FailToMarkError, Reset, runVars
    <2>2. QED
      BY <1>4, <1>5, <2>1 DEF OnceInv, Begun, Stages
  <1>9. CASE \/ SetUp(e) \/ FetchBars(e) \/ SkipSymbol(e) \/ SaveBars(e) \/ GatherContext(e)
             \/ ScoreSymbol(e) \/ PublishSignal(e) \/ EvaluateAlerts(e) \/ CommitRows(e)
             \/ (MarkDone(e) /\ pc'[e] # "ended")
    <2>1. status' = status /\ Begun(e) /\ pc'[e] \notin {"ready", "loaded"}
      BY <1>0, <1>9 DEF SetUp, FetchBars, SkipSymbol, SaveBars, GatherContext, ScoreSymbol,
                  PublishSignal, EvaluateAlerts, CommitRows, MarkDone, Conclude, Reset,
                  Goto, NextSymbol, Begun, Stages, runVars
    <2>2. status[r] = "running"
      BY <2>1 DEF OnceInv, InStep
    <2>3. db' = [db EXCEPT ![r] = db'[r]]
      BY <1>0, <1>1
    <2>4. Lifecycle!Reveal(r)
      BY <1>1, <2>1, <2>2, <2>3 DEF Lifecycle!Reveal, Lifecycle!Grow
    <2>5. QED
      BY <1>4, <1>5, <2>1, <2>2, <2>4 DEF OnceInv
  <1>10. CASE (MarkDone(e) /\ pc'[e] = "ended") \/ MarkError(e)
    <2>1. PICK verdict \in Terminal : Conclude(e, verdict)
      BY <1>0, <1>10 DEF MarkDone, MarkError, Goto, Terminal
    <2>2. status' = [status EXCEPT ![r] = verdict] /\ pc'[e] = "ended"
      BY <1>0, <2>1 DEF Conclude, Reset
    <2>3. Begun(e)
      BY <1>10 DEF MarkDone, MarkError, Goto, Begun, Stages
    <2>4. status[r] = "running"
      BY <2>3 DEF OnceInv, InStep
    <2>5. db' = [db EXCEPT ![r] = db'[r]]
      BY <1>0, <1>1
    <2>6. Lifecycle!Finish(r) \/ Lifecycle!Fail(r)
      BY <1>1, <2>1, <2>2, <2>4, <2>5
         DEF Lifecycle!Finish, Lifecycle!Fail, Lifecycle!Move, Lifecycle!Grow, Terminal
    <2>7. QED
      BY <1>4, <1>5, <2>2, <2>6 DEF OnceInv, Begun, Stages
  <1>11. QED
    BY <1>6, <1>7, <1>8, <1>9, <1>10 DEF Step

(* A run that is executed at most once is what a polling client may        *)
(* expect: queued, running while rows appear, then settled for good.       *)
THEOREM OnceImplementsLifecycle ==
    ASSUME AtMostOnceFaults PROVE Spec => ImplementsLifecycle
  <1>1. Init => Lifecycle!Init
    BY DEF Init, Lifecycle!Init
  <1>2. OnceInv /\ [Next]_vars => OnceInv' /\ [Lifecycle!Next]_<<status, db>>
    <2> SUFFICES ASSUME OnceInv, [Next]_vars
                 PROVE  OnceInv' /\ [Lifecycle!Next]_<<status, db>>
      OBVIOUS
    <2>1. KeptInv'
      BY NextKept DEF OnceInv
    <2>2. ASSUME NEW e \in Execs, Step(e)
          PROVE  OnceInv' /\ [Lifecycle!Next]_<<status, db>>
      BY <2>1, <2>2, ExecRun, StepOnce DEF Lifecycle!Next
    <2>3. CASE \/ \E r \in Runs : Handle(r) \/ Queue(r)
               \/ CrashApi \/ LoseRedis \/ RestoreRedis \/ UNCHANGED vars
      BY <2>1, <2>3, EnvironmentOnce DEF Lifecycle!Next
    <2>4. QED
      BY <2>2, <2>3 DEF Next
  <1>3. QED
    BY <1>1, <1>2, InitOnce, PTL DEF Spec, ImplementsLifecycle, Lifecycle!Spec

==============================================================================
