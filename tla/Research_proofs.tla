--------------------------- MODULE Research_proofs ---------------------------
(***************************************************************************)
(* For any number of jobs, executions, symbols, histories and verdicts: a  *)
(* settled research row tells everything, a report that was written stays  *)
(* as it is, a weight above neutral is earned, and a scanner retired in a  *)
(* regime has no part in an ensemble's signal of that regime.              *)
(***************************************************************************)
EXTENDS Research, Sums_proofs, SequenceTheorems, TLAPS

-----------------------------------------------------------------------------
Statuses == {"none", "queued", "running", "done", "error"}
BacktestRows == [scanner : Scanners \cup {"none"}, mode : Modes \cup {"none"},
                 status : Statuses, report : BOOLEAN]
Stages == {"idle", "queued", "loaded", "running", "edge saved", "closing", "ended",
           "raised", "lost"}
Attempts   == [pc : Stages, tries : Nat, seen : Statuses]
Executions == [Vias -> Attempts]
Unfinished == Stages \ {"idle", "closing", "ended"}

(* A registry is a sequence of records with the same fields, whatever the  *)
(* values of weights, edges and tests.                                     *)
RowFields == {"name", "scanner", "id", "status", "source", "promotion", "weight",
              "edges", "tests", "fitted", "lift"}
Listed(table)  == \E S : table \in Seq(S)
Columns(table) == \A k \in DOMAIN table : DOMAIN table[k] = RowFields

JobTypes ==
    /\ backtest \in [Backtests -> BacktestRows]
    /\ exec \in [Jobs -> Executions]
    /\ Listed(registry) /\ Columns(registry)

(* A forward test of the scanner left an edge row.                         *)
EdgeOf(scanner, table) ==
    \E k \in DOMAIN table : table[k].source = "forward" /\ table[k].scanner = scanner

Tells(row, job, table) ==
    /\ row.status = "done" =>
          row.report /\ (row.mode = "forward" => EdgeOf(row.scanner, table))
    /\ \A v \in Vias : job[v].pc = "edge saved" => EdgeOf(row.scanner, table)
    /\ row.status \in {"done", "error"} \/ (\A v \in Vias : job[v].pc = "idle")
          \/ (\E v \in Vias : job[v].pc \in Unfinished)
BacktestsTell == \A b \in Backtests : Tells(backtest[b], exec[b], registry)

(* Unless it is a setup model, the job of a model's row runs inline only,  *)
(* hence once, and until it has run the row is in training.                *)
RowOfJob(row, job) ==
    row.name # "setup" =>
       /\ job["worker"].pc = "idle"
       /\ job["inline"].pc \in {"queued", "running"} => row.status = "training"
ModelsWait ==
    \A m \in Models :
       /\ HandedOver(m) => \E k \in DOMAIN registry : registry[k].id = m
       /\ \A k \in DOMAIN registry : registry[k].id = m => RowOfJob(registry[k], exec[m])

ResearchInv == JobTypes /\ BacktestsTell /\ ModelsWait

-----------------------------------------------------------------------------
(* Sequences, whatever their elements.                                     *)
LEMMA AppendListed ==
    ASSUME NEW table, Listed(table), NEW row
    PROVE  LET longer == Append(table, row)
           IN  /\ Listed(longer)
               /\ DOMAIN table \subseteq DOMAIN longer
               /\ \A k \in DOMAIN table : longer[k] = table[k]
               /\ \A k \in DOMAIN longer : k \in DOMAIN table \/ longer[k] = row
               /\ \E k \in DOMAIN longer : longer[k] = row
  <1>1. PICK S : table \in Seq(S)
    BY DEF Listed
  <1>. DEFINE T == S \cup {row}
              longer == Append(table, row)
  <1>2. table \in Seq(T) /\ row \in T
    BY <1>1, SeqMonotonic
  <1>. HIDE DEF T
  <1>3. /\ longer \in Seq(T) /\ Len(longer) = Len(table) + 1 /\ Len(table) \in Nat
        /\ DOMAIN table = 1..Len(table) /\ DOMAIN longer = 1..Len(longer)
        /\ \A k \in 1..Len(table) : longer[k] = table[k]
        /\ longer[Len(table) + 1] = row
    BY <1>2, AppendProperties, LenProperties
  <1>4. Listed(longer)
    BY <1>3 DEF Listed
  <1>. HIDE DEF longer
  <1>5. /\ DOMAIN table \subseteq DOMAIN longer
        /\ \A k \in DOMAIN table : longer[k] = table[k]
        /\ \A k \in DOMAIN longer : k \in DOMAIN table \/ longer[k] = row
        /\ Len(table) + 1 \in DOMAIN longer
    BY <1>3
  <1>. QED  BY <1>3, <1>4, <1>5 DEF longer

LEMMA ReplaceListed ==
    ASSUME NEW table, Listed(table), NEW k \in DOMAIN table, NEW row
    PROVE  LET other == [table EXCEPT ![k] = row]
           IN  /\ Listed(other)
               /\ DOMAIN other = DOMAIN table
               /\ \A j \in DOMAIN table : other[j] = IF j = k THEN row ELSE table[j]
  <1>1. PICK S : table \in Seq(S)
    BY DEF Listed
  <1>. DEFINE T == S \cup {row}
              other == [table EXCEPT ![k] = row]
  <1>2. table \in Seq(T) /\ row \in T
    BY <1>1, SeqMonotonic
  <1>. HIDE DEF T
  <1>3. k \in 1..Len(table) /\ DOMAIN table = 1..Len(table)
    BY <1>2, LenProperties
  <1>4. other \in Seq(T)
    BY <1>2, <1>3, ExceptSeq
  <1>5. Listed(other)
    BY <1>4 DEF Listed
  <1>. QED  BY <1>5

LEMMA JobsAreDistinct ==
    /\ \A b \in Backtests : b \in Jobs /\ b \notin Models
    /\ \A m \in Models : m \in Jobs /\ m \notin Backtests /\ m # "none"
  BY ResearchAssumption DEF Jobs

LEMMA InitResearch == ASSUME Init PROVE ResearchInv
  <1>1. backtest \in [Backtests -> BacktestRows]
    BY DEF Init, NoRow, BacktestRows, Statuses
  <1>2. exec \in [Jobs -> Executions] /\ \A j \in Jobs, v \in Vias : exec[j][v].pc = "idle"
    BY DEF Init, NotBegun, Idle, Executions, Attempts, Stages, Statuses
  <1>3. Listed(registry) /\ DOMAIN registry = {}
    <2>1. registry = <<>> /\ <<>> \in Seq({})
      BY DEF Init
    <2>2. registry \in Seq({})
      BY <2>1
    <2>. QED  BY <2>1, <2>2 DEF Listed
  <1>4. BacktestsTell
    <2>1. \A b \in Backtests : backtest[b].status = "none"
      BY DEF Init, NoRow
    <2>. QED  BY <1>2, <2>1, JobsAreDistinct DEF BacktestsTell, Tells
  <1>. QED
    BY <1>1, <1>2, <1>3, <1>4, JobsAreDistinct
    DEF ResearchInv, JobTypes, Columns, ModelsWait, HandedOver

-----------------------------------------------------------------------------
(* A row is added: what the tables told stays told.                        *)
LEMMA AddedRow ==
    ASSUME JobTypes, NEW row, DOMAIN row = RowFields, registry' = Append(registry, row)
    PROVE  /\ Listed(registry') /\ Columns(registry')
           /\ DOMAIN registry \subseteq DOMAIN registry'
           /\ \A k \in DOMAIN registry : registry'[k] = registry[k]
           /\ \A k \in DOMAIN registry' : k \in DOMAIN registry \/ registry'[k] = row
           /\ \E k \in DOMAIN registry' : registry'[k] = row
           /\ \A s : EdgeOf(s, registry) => EdgeOf(s, registry')
  <1>1. /\ Listed(registry')
        /\ DOMAIN registry \subseteq DOMAIN registry'
        /\ \A k \in DOMAIN registry : registry'[k] = registry[k]
        /\ \A k \in DOMAIN registry' : k \in DOMAIN registry \/ registry'[k] = row
        /\ \E k \in DOMAIN registry' : registry'[k] = row
    BY AppendListed DEF JobTypes
  <1>2. Columns(registry')
    <2>. SUFFICES ASSUME NEW k \in DOMAIN registry'
                  PROVE  DOMAIN registry'[k] = RowFields
      BY DEF Columns
    <2>. QED  BY <1>1 DEF JobTypes, Columns
  <1>3. ASSUME NEW s, EdgeOf(s, registry)
        PROVE  EdgeOf(s, registry')
    BY <1>1, <1>3 DEF EdgeOf
  <1>. QED  BY <1>1, <1>2, <1>3

(* An edge row belongs to no training.                                     *)
LEMMA EdgeRowFields ==
    ASSUME NEW scanner, NEW source, NEW promotion, NEW factor, NEW edges, NEW tests
    PROVE  LET row == EdgeRow(scanner, source, promotion, factor, edges, tests)
           IN  /\ DOMAIN row = RowFields /\ row.id = "none"
               /\ row.source = source /\ row.scanner = scanner
  BY DEF EdgeRow, RowFields

LEMMA EdgeRowKeeps ==
    ASSUME ResearchInv, NEW row, DOMAIN row = RowFields, row.id = "none",
           registry' = Append(registry, row),
           \A m \in Models : exec'[m] = exec[m]
    PROVE  ModelsWait'
  <1>1. /\ DOMAIN registry \subseteq DOMAIN registry'
        /\ \A k \in DOMAIN registry : registry'[k] = registry[k]
        /\ \A k \in DOMAIN registry' : k \in DOMAIN registry \/ registry'[k] = row
    BY AddedRow DEF ResearchInv
  <1>. SUFFICES ASSUME NEW m \in Models
                PROVE  /\ HandedOver(m)' => \E k \in DOMAIN registry' : registry'[k].id = m
                       /\ \A k \in DOMAIN registry' : registry'[k].id = m => RowOfJob(registry'[k], exec'[m])
    BY DEF ModelsWait, HandedOver
  <1>2. exec'[m] = exec[m] /\ m # "none"
    BY JobsAreDistinct
  <1>3. HandedOver(m) => \E k \in DOMAIN registry : registry[k].id = m
    BY DEF ResearchInv, ModelsWait
  <1>4. \A k \in DOMAIN registry : registry[k].id = m => RowOfJob(registry[k], exec[m])
    BY DEF ResearchInv, ModelsWait
  <1>5. ASSUME NEW k \in DOMAIN registry', registry'[k].id = m
        PROVE  RowOfJob(registry'[k], exec'[m])
    <2>1. k \in DOMAIN registry /\ registry'[k] = registry[k]
      BY <1>1, <1>2, <1>5
    <2>. QED  BY <1>2, <1>4, <1>5, <2>1 DEF RowOfJob
  <1>. QED  BY <1>1, <1>2, <1>3, <1>5 DEF HandedOver

(* Models do not notice steps of backtests.                                *)
LEMMA ModelsUntouched ==
    ASSUME ResearchInv, UNCHANGED registry, \A m \in Models : exec'[m] = exec[m]
    PROVE  ModelsWait'
  <1>. SUFFICES ASSUME NEW m \in Models
                PROVE  /\ HandedOver(m)' => \E k \in DOMAIN registry' : registry'[k].id = m
                       /\ \A k \in DOMAIN registry' : registry'[k].id = m => RowOfJob(registry'[k], exec'[m])
    BY DEF ModelsWait, HandedOver
  <1>. QED  BY DEF ResearchInv, ModelsWait, RowOfJob, HandedOver

(* What a row told it tells still, of a registry that lost no edge row.    *)
LEMMA TellsStill ==
    ASSUME NEW row, NEW job, NEW old, NEW new, Tells(row, job, old),
           \A s : EdgeOf(s, old) => EdgeOf(s, new)
    PROVE  Tells(row, job, new)
  BY DEF Tells

LEMMA OneMoves ==
    ASSUME ResearchInv, NEW b \in Backtests,
           \A c \in Backtests \ {b} : backtest'[c] = backtest[c] /\ exec'[c] = exec[c],
           \A s : EdgeOf(s, registry) => EdgeOf(s, registry'),
           Tells(backtest'[b], exec'[b], registry')
    PROVE  BacktestsTell'
  <1>. SUFFICES ASSUME NEW c \in Backtests, c # b
                PROVE  Tells(backtest'[c], exec'[c], registry')
    BY DEF BacktestsTell
  <1>1. Tells(backtest[c], exec[c], registry)
    BY DEF ResearchInv, BacktestsTell
  <1>. QED  BY <1>1, TellsStill

LEMMA BacktestsUntouched ==
    ASSUME ResearchInv, UNCHANGED backtest,
           \A c \in Backtests : exec'[c] = exec[c],
           \A s : EdgeOf(s, registry) => EdgeOf(s, registry')
    PROVE  BacktestsTell'
  <1>. SUFFICES ASSUME NEW c \in Backtests
                PROVE  Tells(backtest'[c], exec'[c], registry')
    BY DEF BacktestsTell
  <1>1. Tells(backtest[c], exec[c], registry)
    BY DEF ResearchInv, BacktestsTell
  <1>. QED  BY <1>1, TellsStill

(* One execution moves, the others stay where they are.                    *)
LEMMA MoveKeeps ==
    ASSUME JobTypes, NEW j \in Jobs, NEW v \in Vias, NEW a \in Attempts,
           exec' = [exec EXCEPT ![j][v] = a]
    PROVE  /\ exec' \in [Jobs -> Executions]
           /\ exec'[j][v] = a
           /\ \A w \in Vias \ {v} : exec'[j][w] = exec[j][w]
           /\ \A i \in Jobs \ {j} : exec'[i] = exec[i]
  BY DEF JobTypes, Executions

LEMMA GotoKeeps ==
    ASSUME JobTypes, NEW j \in Jobs, NEW v \in Vias, NEW pc \in Stages, Goto(j, v, pc)
    PROVE  /\ exec' \in [Jobs -> Executions]
           /\ exec'[j][v] = [exec[j][v] EXCEPT !.pc = pc] /\ exec'[j][v].pc = pc
           /\ exec'[j][v].tries = exec[j][v].tries
           /\ \A w \in Vias \ {v} : exec'[j][w] = exec[j][w]
           /\ \A i \in Jobs \ {j} : exec'[i] = exec[i]
  <1>. DEFINE a == [exec[j][v] EXCEPT !.pc = pc]
  <1>1. exec[j][v] \in Attempts
    BY DEF JobTypes, Executions
  <1>2. a \in Attempts /\ a.pc = pc /\ a.tries = exec[j][v].tries
    BY <1>1 DEF Attempts
  <1>3. exec' = [exec EXCEPT ![j][v] = a]
    BY DEF Goto
  <1>4. a = [exec[j][v] EXCEPT !.pc = pc]
    OBVIOUS
  <1>. HIDE DEF a
  <1>5. /\ exec' \in [Jobs -> Executions] /\ exec'[j][v] = a
        /\ \A w \in Vias \ {v} : exec'[j][w] = exec[j][w]
        /\ \A i \in Jobs \ {j} : exec'[i] = exec[i]
    BY <1>2, <1>3, MoveKeeps
  <1>. QED  BY <1>2, <1>4, <1>5

LEMMA StatusKeeps ==
    ASSUME JobTypes, NEW b \in Backtests,
           NEW status \in Statuses, SetStatus(b, status)
    PROVE  /\ backtest' \in [Backtests -> BacktestRows]
           /\ backtest'[b].status = status /\ backtest'[b].report = backtest[b].report
           /\ backtest'[b].mode = backtest[b].mode
           /\ backtest'[b].scanner = backtest[b].scanner
           /\ \A c \in Backtests \ {b} : backtest'[c] = backtest[c]
  BY DEF JobTypes, BacktestRows, SetStatus

(* A step of one backtest job that leaves the registry alone.              *)
LEMMA BacktestMoves ==
    ASSUME ResearchInv, NEW b \in Backtests, UNCHANGED registry,
           backtest' \in [Backtests -> BacktestRows], exec' \in [Jobs -> Executions],
           \A c \in Backtests \ {b} : backtest'[c] = backtest[c],
           \A i \in Jobs \ {b} : exec'[i] = exec[i],
           Tells(backtest'[b], exec'[b], registry)
    PROVE  ResearchInv'
  <1>1. \A c \in Backtests \ {b} : exec'[c] = exec[c]
    BY JobsAreDistinct
  <1>2. \A m \in Models : exec'[m] = exec[m]
    BY JobsAreDistinct
  <1>3. BacktestsTell'
    BY <1>1, OneMoves
  <1>4. ModelsWait'
    BY <1>2, ModelsUntouched
  <1>. QED  BY <1>3, <1>4 DEF ResearchInv, JobTypes

LEMMA HandedIsExecution ==
    ASSUME NEW vias
    PROVE  /\ Handed(vias) \in Executions
           /\ \A v \in Vias : /\ Handed(vias)[v].pc = IF v \in vias THEN "queued" ELSE "idle"
                             /\ Handed(vias)[v].tries \in {0, 1}
  BY DEF Handed, Idle, Executions, Attempts, Stages, Statuses

LEMMA CreateBacktestKeeps ==
    ASSUME ResearchInv, NEW b \in Backtests, CreateBacktest(b)
    PROVE  ResearchInv'
  <1>. USE DEF ResearchInv
  <1>1. PICK s \in Scanners, mode \in Modes, vias \in SUBSET Vias :
          /\ backtest' = [backtest EXCEPT ![b] =
                [scanner |-> s, mode |-> mode, status |-> "queued", report |-> FALSE]]
          /\ exec' = [exec EXCEPT ![b] = Handed(vias)]
    BY DEF CreateBacktest
  <1>. DEFINE row == [scanner |-> s, mode |-> mode, status |-> "queued", report |-> FALSE]
              job == Handed(vias)
  <1>2. row \in BacktestRows /\ job \in Executions
    BY HandedIsExecution DEF BacktestRows, Statuses
  <1>3. row.status = "queued" /\ \A v \in Vias : job[v].pc \in {"queued", "idle"}
    BY HandedIsExecution
  <1>4. backtest' = [backtest EXCEPT ![b] = row] /\ exec' = [exec EXCEPT ![b] = job]
    BY <1>1
  <1>. HIDE DEF row, job
  <1>5. /\ backtest' \in [Backtests -> BacktestRows] /\ exec' \in [Jobs -> Executions]
        /\ backtest'[b] = row /\ exec'[b] = job
        /\ \A c \in Backtests \ {b} : backtest'[c] = backtest[c]
        /\ \A i \in Jobs \ {b} : exec'[i] = exec[i]
    BY <1>2, <1>4, JobsAreDistinct DEF JobTypes
  <1>6. Tells(backtest'[b], exec'[b], registry)
    BY <1>3, <1>5 DEF Tells, Unfinished, Stages
  <1>. QED  BY <1>5, <1>6, BacktestMoves DEF CreateBacktest

(* An execution that is not over moves on, and the row may start to run.   *)
LEMMA AttemptMoves ==
    ASSUME ResearchInv, NEW b \in Backtests, NEW v \in Vias, UNCHANGED registry,
           UNCHANGED backtest \/ SetStatus(b, "running"),
           exec' \in [Jobs -> Executions], exec'[b][v].pc \in Unfinished \ {"edge saved"},
           \A w \in Vias \ {v} : exec'[b][w] = exec[b][w],
           \A i \in Jobs \ {b} : exec'[i] = exec[i]
    PROVE  ResearchInv'
  <1>1. /\ backtest' \in [Backtests -> BacktestRows]
        /\ backtest'[b].status \in {"running", backtest[b].status}
        /\ backtest'[b].mode = backtest[b].mode /\ backtest'[b].report = backtest[b].report
        /\ backtest'[b].scanner = backtest[b].scanner
        /\ \A c \in Backtests \ {b} : backtest'[c] = backtest[c]
    BY StatusKeeps DEF ResearchInv, JobTypes, Statuses
  <1>2. Tells(backtest[b], exec[b], registry)
    BY DEF ResearchInv, BacktestsTell
  <1>3. \A w \in Vias : exec'[b][w].pc = "edge saved" => exec[b][w].pc = "edge saved"
    OBVIOUS
  <1>4. Tells(backtest'[b], exec'[b], registry)
    BY <1>1, <1>2, <1>3 DEF Tells
  <1>. QED  BY <1>1, <1>4, BacktestMoves

LEMMA LoadKeeps ==
    ASSUME ResearchInv, NEW b \in Backtests, NEW v \in Vias, Load(b, v) \/ Begin(b, v)
    PROVE  ResearchInv'
  <1>1. exec[b][v] \in Attempts /\ backtest[b].status \in Statuses
    BY JobsAreDistinct DEF ResearchInv, JobTypes, Executions, BacktestRows
  <1>2. PICK pc \in {"loaded", "running"}, seen \in Statuses :
           exec' = [exec EXCEPT ![b][v].pc = pc, ![b][v].seen = seen]
    BY <1>1 DEF Load, Begin, Statuses
  <1>. DEFINE a == [exec[b][v] EXCEPT !.pc = pc, !.seen = seen]
  <1>3. a \in Attempts /\ a.pc \in {"loaded", "running"}
    BY <1>1 DEF Attempts, Stages
  <1>4. exec' = [exec EXCEPT ![b][v] = a]
    BY <1>2, JobsAreDistinct DEF ResearchInv, JobTypes, Executions
  <1>. HIDE DEF a
  <1>5. /\ exec' \in [Jobs -> Executions] /\ exec'[b][v] = a
        /\ \A w \in Vias \ {v} : exec'[b][w] = exec[b][w]
        /\ \A i \in Jobs \ {b} : exec'[i] = exec[i]
    BY <1>3, <1>4, MoveKeeps, JobsAreDistinct DEF ResearchInv
  <1>6. UNCHANGED registry /\ (UNCHANGED backtest \/ SetStatus(b, "running"))
    BY DEF Load, Begin
  <1>. QED  BY <1>3, <1>5, <1>6, AttemptMoves DEF Unfinished, Stages

LEMMA LoseDatabaseKeeps ==
    ASSUME ResearchInv, NEW b \in Backtests, NEW v \in Vias, LoseDatabase(b, v)
    PROVE  ResearchInv'
  <1>1. Goto(b, v, "raised") /\ UNCHANGED <<backtest, registry>>
    BY DEF LoseDatabase
  <1>2. /\ exec' \in [Jobs -> Executions] /\ exec'[b][v].pc = "raised"
        /\ \A w \in Vias \ {v} : exec'[b][w] = exec[b][w]
        /\ \A i \in Jobs \ {b} : exec'[i] = exec[i]
    BY <1>1, GotoKeeps, JobsAreDistinct DEF ResearchInv, Stages
  <1>. QED  BY <1>1, <1>2, AttemptMoves DEF Unfinished, Stages

LEMMA SaveEdgeKeeps ==
    ASSUME ResearchInv, NEW b \in Backtests, NEW v \in Vias, SaveEdge(b, v)
    PROVE  ResearchInv'
  <1>. USE DEF ResearchInv
  <1>1. PICK sym \in Symbols, h \in Histories :
          LET t == TestOf(backtest[b].scanner, h)
              m == AllTrades(t)
          IN  registry' = Append(registry, EdgeRow(backtest[b].scanner, "forward",
                                     Decide(m), ProfitFactor(m), <<>>, [x \in {sym} |-> t]))
    BY DEF SaveEdge
  <1>2. PICK row : /\ registry' = Append(registry, row)
                   /\ DOMAIN row = RowFields /\ row.id = "none"
                   /\ row.source = "forward" /\ row.scanner = backtest[b].scanner
    BY <1>1, EdgeRowFields
  <1>3. /\ Listed(registry') /\ Columns(registry')
        /\ \E k \in DOMAIN registry' : registry'[k] = row
        /\ \A s : EdgeOf(s, registry) => EdgeOf(s, registry')
    BY <1>2, AddedRow
  <1>4. EdgeOf(backtest[b].scanner, registry')
    BY <1>2, <1>3 DEF EdgeOf
  <1>5. Goto(b, v, "edge saved") /\ UNCHANGED backtest
    BY DEF SaveEdge
  <1>6. /\ exec' \in [Jobs -> Executions] /\ exec'[b][v].pc = "edge saved"
        /\ \A w \in Vias \ {v} : exec'[b][w] = exec[b][w]
        /\ \A i \in Jobs \ {b} : exec'[i] = exec[i]
    BY <1>5, GotoKeeps, JobsAreDistinct DEF Stages
  <1>7. Tells(backtest'[b], exec'[b], registry')
    <2>1. Tells(backtest[b], exec[b], registry)
      BY DEF BacktestsTell
    <2>. QED  BY <1>4, <1>5, <1>6, <2>1 DEF Tells, Unfinished, Stages
  <1>8. BacktestsTell'
    BY <1>3, <1>5, <1>6, <1>7, OneMoves, JobsAreDistinct
  <1>9. ModelsWait'
    BY <1>2, <1>6, EdgeRowKeeps, JobsAreDistinct
  <1>. QED  BY <1>3, <1>5, <1>6, <1>8, <1>9 DEF JobTypes

LEMMA FinishGoes ==
    ASSUME JobTypes, NEW j \in Jobs, NEW v \in Vias, Finish(j, v)
    PROVE  /\ exec' \in [Jobs -> Executions]
           /\ exec'[j][v].pc = IF v = "worker" THEN "closing" ELSE "ended"
           /\ \A w \in Vias \ {v} : exec'[j][w] = exec[j][w]
           /\ \A i \in Jobs \ {j} : exec'[i] = exec[i]
  <1>. DEFINE pc == IF v = "worker" THEN "closing" ELSE "ended"
  <1>1. Goto(j, v, pc) /\ pc \in Stages
    BY DEF Finish, Stages
  <1>. HIDE DEF pc
  <1>2. /\ exec' \in [Jobs -> Executions] /\ exec'[j][v].pc = pc
        /\ \A w \in Vias \ {v} : exec'[j][w] = exec[j][w]
        /\ \A i \in Jobs \ {j} : exec'[i] = exec[i]
    BY <1>1, GotoKeeps
  <1>. QED  BY <1>2 DEF pc

LEMMA SaveReportKeeps ==
    ASSUME ResearchInv, NEW b \in Backtests, NEW v \in Vias, SaveReport(b, v)
    PROVE  ResearchInv'
  <1>. USE DEF ResearchInv
  <1>1. Finish(b, v) /\ UNCHANGED registry
    BY DEF SaveReport
  <1>2. /\ exec' \in [Jobs -> Executions] /\ exec'[b][v].pc \in {"closing", "ended"}
        /\ \A w \in Vias \ {v} : exec'[b][w] = exec[b][w]
        /\ \A i \in Jobs \ {b} : exec'[i] = exec[i]
    BY <1>1, FinishGoes, JobsAreDistinct
  <1>3. /\ backtest' \in [Backtests -> BacktestRows]
        /\ backtest'[b].status = "done" /\ backtest'[b].report
        /\ backtest'[b].mode = backtest[b].mode
        /\ backtest'[b].scanner = backtest[b].scanner
        /\ \A c \in Backtests \ {b} : backtest'[c] = backtest[c]
    BY DEF JobTypes, BacktestRows, Statuses, SaveReport
  <1>4. Tells(backtest[b], exec[b], registry)
    BY DEF BacktestsTell
  <1>5. backtest[b].mode = "forward" => EdgeOf(backtest[b].scanner, registry)
    BY <1>4 DEF SaveReport, Tells
  <1>6. \A w \in Vias : exec'[b][w].pc = "edge saved" => exec[b][w].pc = "edge saved"
    BY <1>2
  <1>7. Tells(backtest'[b], exec'[b], registry)
    BY <1>3, <1>4, <1>5, <1>6 DEF Tells
  <1>. QED  BY <1>1, <1>2, <1>3, <1>7, BacktestMoves

LEMMA FailKeeps ==
    ASSUME ResearchInv, NEW b \in Backtests, NEW v \in Vias,
           Insufficient(b, v) \/ RaiseBacktest(b, v)
    PROVE  ResearchInv'
  <1>1. Finish(b, v) /\ SetStatus(b, "error") /\ UNCHANGED registry
    BY DEF Insufficient, RaiseBacktest
  <1>2. /\ exec' \in [Jobs -> Executions] /\ exec'[b][v].pc \in {"closing", "ended"}
        /\ \A w \in Vias \ {v} : exec'[b][w] = exec[b][w]
        /\ \A i \in Jobs \ {b} : exec'[i] = exec[i]
    BY <1>1, FinishGoes, JobsAreDistinct DEF ResearchInv
  <1>3. /\ backtest' \in [Backtests -> BacktestRows] /\ backtest'[b].status = "error"
        /\ backtest'[b].scanner = backtest[b].scanner
        /\ \A c \in Backtests \ {b} : backtest'[c] = backtest[c]
    BY <1>1, StatusKeeps DEF ResearchInv, Statuses
  <1>4. Tells(backtest[b], exec[b], registry)
    BY DEF ResearchInv, BacktestsTell
  <1>5. \A w \in Vias : exec'[b][w].pc = "edge saved" => exec[b][w].pc = "edge saved"
    BY <1>2
  <1>6. Tells(backtest'[b], exec'[b], registry)
    BY <1>3, <1>4, <1>5 DEF Tells
  <1>. QED  BY <1>1, <1>2, <1>3, <1>6, BacktestMoves

(* A step of one training that leaves the tables alone, starts nothing and *)
(* takes no inline execution back to its start.                            *)
LEMMA ModelMoves ==
    ASSUME ResearchInv, NEW m \in Models, UNCHANGED <<backtest, registry>>,
           exec' \in [Jobs -> Executions], \A i \in Jobs \ {m} : exec'[i] = exec[i],
           \A v \in Vias : exec[m][v].pc = "idle" => exec'[m][v].pc = "idle",
           exec'[m]["inline"].pc \in {"queued", "running"}
              => exec[m]["inline"].pc \in {"queued", "running"}
    PROVE  ResearchInv'
  <1>1. \A c \in Backtests : exec'[c] = exec[c]
    BY JobsAreDistinct
  <1>2. BacktestsTell'
    BY <1>1, BacktestsUntouched
  <1>3. ASSUME NEW n \in Models
        PROVE  /\ HandedOver(n)' => \E k \in DOMAIN registry : registry[k].id = n
               /\ \A k \in DOMAIN registry :
                     registry[k].id = n => RowOfJob(registry[k], exec'[n])
    <2>1. /\ HandedOver(n) => \E k \in DOMAIN registry : registry[k].id = n
          /\ \A k \in DOMAIN registry :
                registry[k].id = n => RowOfJob(registry[k], exec[n])
      BY DEF ResearchInv, ModelsWait
    <2>2. CASE n = m
      BY <2>1, <2>2 DEF RowOfJob, HandedOver, Vias
    <2>3. CASE n # m
      BY <2>1, <2>3, JobsAreDistinct DEF HandedOver
    <2>. QED  BY <2>2, <2>3
  <1>4. ModelsWait'
    BY <1>3 DEF ModelsWait
  <1>. QED  BY <1>2, <1>4 DEF ResearchInv, JobTypes

LEMMA AcknowledgeKeeps ==
    ASSUME ResearchInv, NEW j \in Jobs, NEW v \in Vias, Acknowledge(j, v)
    PROVE  ResearchInv'
  <1>1. /\ exec' \in [Jobs -> Executions] /\ exec'[j][v].pc = "ended"
        /\ \A w \in Vias \ {v} : exec'[j][w] = exec[j][w]
        /\ \A i \in Jobs \ {j} : exec'[i] = exec[i]
    BY GotoKeeps DEF ResearchInv, Stages, Acknowledge
  <1>2. exec[j][v].pc = "closing" /\ UNCHANGED <<backtest, registry>>
    BY DEF Acknowledge
  <1>3. CASE j \in Backtests
    <2>1. Tells(backtest[j], exec[j], registry)
      BY <1>3 DEF ResearchInv, BacktestsTell
    <2>2. /\ \A w \in Vias : exec'[j][w].pc = "edge saved" => exec[j][w].pc = "edge saved"
          /\ \A w \in Vias : exec[j][w].pc \in Unfinished => exec'[j][w].pc \in Unfinished
          /\ exec[j][v].pc # "idle"
      BY <1>1, <1>2 DEF Unfinished
    <2>3. Tells(backtest'[j], exec'[j], registry)
      BY <1>2, <2>1, <2>2 DEF Tells
    <2>. QED  BY <1>1, <1>2, <1>3, <2>3, BacktestMoves DEF ResearchInv, JobTypes
  <1>4. CASE j \in Models
    BY <1>1, <1>2, <1>4, ModelMoves DEF Vias
  <1>. QED  BY <1>3, <1>4 DEF Jobs

LEMMA DropGoes ==
    ASSUME JobTypes, NEW j \in Jobs, NEW v \in Vias, Drop(j, v)
    PROVE  /\ exec' \in [Jobs -> Executions] /\ exec[j][v].pc # "idle"
           /\ exec'[j][v].pc = "lost" \/ (exec'[j][v].pc = "queued" /\ v = "worker")
           /\ exec'[j][v].tries = exec[j][v].tries
                 \/ (exec[j][v].tries < MaxTries /\ exec'[j][v].tries = exec[j][v].tries + 1)
           /\ \A w \in Vias \ {v} : exec'[j][w] = exec[j][w]
           /\ \A i \in Jobs \ {j} : exec'[i] = exec[i]
           /\ UNCHANGED <<backtest, registry>>
  <1>. DEFINE a == [pc |-> "queued", tries |-> exec[j][v].tries + 1, seen |-> "none"]
  <1>1. exec[j][v].pc # "idle" /\ UNCHANGED <<backtest, registry>>
    BY DEF Drop
  <1>2. CASE Goto(j, v, "lost")
    BY <1>1, <1>2, GotoKeeps DEF Stages
  <1>3. CASE /\ v = "worker" /\ exec[j][v].tries < MaxTries
             /\ exec' = [exec EXCEPT ![j][v] = a]
    <2>1. exec[j][v].tries \in Nat
      BY DEF JobTypes, Executions, Attempts
    <2>4. a \in Attempts /\ a.pc = "queued" /\ a.tries = exec[j][v].tries + 1
      BY <2>1 DEF Attempts, Stages, Statuses
    <2>3. exec' = [exec EXCEPT ![j][v] = a]
      BY <1>3
    <2>. HIDE DEF a
    <2>5. /\ exec' \in [Jobs -> Executions] /\ exec'[j][v] = a
          /\ \A w \in Vias \ {v} : exec'[j][w] = exec[j][w]
          /\ \A i \in Jobs \ {j} : exec'[i] = exec[i]
      BY <2>3, <2>4, MoveKeeps
    <2>6. exec'[j][v].pc = "queued" /\ exec'[j][v].tries = exec[j][v].tries + 1
      BY <2>4, <2>5
    <2>. QED  BY <1>1, <1>3, <2>5, <2>6
  <1>. QED  BY <1>2, <1>3 DEF Drop

LEMMA DropKeeps ==
    ASSUME ResearchInv, NEW j \in Jobs, NEW v \in Vias, Drop(j, v)
    PROVE  ResearchInv'
  <1>1. /\ exec' \in [Jobs -> Executions] /\ exec[j][v].pc # "idle"
        /\ exec'[j][v].pc = "lost" \/ (exec'[j][v].pc = "queued" /\ v = "worker")
        /\ \A w \in Vias \ {v} : exec'[j][w] = exec[j][w]
        /\ \A i \in Jobs \ {j} : exec'[i] = exec[i]
        /\ UNCHANGED <<backtest, registry>>
    BY DropGoes DEF ResearchInv
  <1>2. CASE j \in Backtests
    BY <1>1, <1>2, AttemptMoves DEF Unfinished, Stages
  <1>3. CASE j \in Models
    <2>1. /\ \A w \in Vias : exec[j][w].pc = "idle" => exec'[j][w].pc = "idle"
          /\ exec'[j]["inline"].pc \in {"queued", "running"}
                => exec[j]["inline"].pc \in {"queued", "running"}
      BY <1>1 DEF Vias
    <2>. QED  BY <1>1, <1>3, <2>1, ModelMoves
  <1>. QED  BY <1>2, <1>3 DEF Jobs

LEMMA BeginModelKeeps ==
    ASSUME ResearchInv, NEW m \in Models, NEW v \in Vias, BeginModel(m, v) \/ RaiseModel(m, v)
    PROVE  ResearchInv'
  <1>1. /\ exec[m][v].pc \in {"queued", "running"} /\ UNCHANGED <<backtest, registry>>
        /\ Goto(m, v, "running") \/ Goto(m, v, "raised")
    BY DEF BeginModel, RaiseModel
  <1>2. /\ exec' \in [Jobs -> Executions] /\ exec'[m][v].pc \in {"running", "raised"}
        /\ \A w \in Vias \ {v} : exec'[m][w] = exec[m][w]
        /\ \A i \in Jobs \ {m} : exec'[i] = exec[i]
    BY <1>1, GotoKeeps, JobsAreDistinct DEF Stages, ResearchInv
  <1>3. /\ \A w \in Vias : exec[m][w].pc = "idle" => exec'[m][w].pc = "idle"
        /\ exec'[m]["inline"].pc \in {"queued", "running"}
              => exec[m]["inline"].pc \in {"queued", "running"}
    BY <1>1, <1>2 DEF Vias
  <1>. QED  BY <1>1, <1>2, <1>3, ModelMoves

LEMMA CreateModelKeeps ==
    ASSUME ResearchInv, NEW m \in Models, CreateModel(m)
    PROVE  ResearchInv'
  <1>. USE DEF ResearchInv
  <1>1. PICK s \in Scanners, name \in {"calibrator", "setup"}, vias \in SUBSET Vias :
          /\ "worker" \in vias => name = "setup"
          /\ registry' = Append(registry, ModelRow(m, name, s))
          /\ exec' = [exec EXCEPT ![m] = Handed(vias)]
    BY DEF CreateModel
  <1>. DEFINE row == ModelRow(m, name, s)
              job == Handed(vias)
  <1>2. /\ DOMAIN row = RowFields /\ row.id = m /\ row.name = name
        /\ row.status = "training"
    BY DEF ModelRow, RowFields
  <1>3. job \in Executions /\ ("worker" \notin vias => job["worker"].pc = "idle")
    BY HandedIsExecution DEF Vias
  <1>4. registry' = Append(registry, row) /\ exec' = [exec EXCEPT ![m] = job]
    BY <1>1
  <1>. HIDE DEF row, job
  <1>5. /\ Listed(registry') /\ Columns(registry')
        /\ DOMAIN registry \subseteq DOMAIN registry'
        /\ \A k \in DOMAIN registry : registry'[k] = registry[k]
        /\ \A k \in DOMAIN registry' : k \in DOMAIN registry \/ registry'[k] = row
        /\ \E k \in DOMAIN registry' : registry'[k] = row
        /\ \A q : EdgeOf(q, registry) => EdgeOf(q, registry')
    BY <1>2, <1>4, AddedRow
  <1>6. /\ exec' \in [Jobs -> Executions] /\ exec'[m] = job
        /\ \A i \in Jobs \ {m} : exec'[i] = exec[i]
    BY <1>3, <1>4, JobsAreDistinct DEF JobTypes
  <1>7. BacktestsTell'
    <2>1. UNCHANGED backtest /\ \A c \in Backtests : exec'[c] = exec[c]
      BY <1>6, JobsAreDistinct DEF CreateModel
    <2>. QED  BY <1>5, <2>1, BacktestsUntouched
  <1>8. \A k \in DOMAIN registry : registry[k].id # m
    BY DEF CreateModel
  <1>9. ASSUME NEW n \in Models
        PROVE  /\ HandedOver(n)' => \E k \in DOMAIN registry' : registry'[k].id = n
               /\ \A k \in DOMAIN registry' :
                     registry'[k].id = n => RowOfJob(registry'[k], exec'[n])
    <2>1. CASE n = m
      <3>1. RowOfJob(row, job)
        BY <1>1, <1>2, <1>3 DEF RowOfJob
      <3>2. \E k \in DOMAIN registry' : registry'[k].id = m
        BY <1>2, <1>5
      <3>3. \A k \in DOMAIN registry' : registry'[k].id = m => registry'[k] = row
        BY <1>5, <1>8
      <3>. QED  BY <1>6, <2>1, <3>1, <3>2, <3>3
    <2>2. CASE n # m
      <3>1. exec'[n] = exec[n]
        BY <1>6, <2>2, JobsAreDistinct
      <3>2. /\ HandedOver(n) => \E k \in DOMAIN registry : registry[k].id = n
            /\ \A k \in DOMAIN registry :
                  registry[k].id = n => RowOfJob(registry[k], exec[n])
        BY DEF ModelsWait
      <3>3. \A k \in DOMAIN registry' : registry'[k].id = n =>
                k \in DOMAIN registry /\ registry'[k] = registry[k]
        BY <1>2, <1>5, <2>2
      <3>4. HandedOver(n)' => \E k \in DOMAIN registry' : registry'[k].id = n
        BY <1>5, <3>1, <3>2 DEF HandedOver
      <3>. QED  BY <3>1, <3>2, <3>3, <3>4
    <2>. QED  BY <2>1, <2>2
  <1>10. ModelsWait'
    BY <1>9 DEF ModelsWait
  <1>. QED  BY <1>5, <1>6, <1>7, <1>10 DEF CreateModel, JobTypes

(* save_model_report writes three columns of the job's own row.            *)
LEMMA SaveModelWrites ==
    ASSUME ResearchInv, NEW m \in Models, NEW v \in Vias, SaveModel(m, v)
    PROVE  LET k == RowOf(m)
           IN  /\ k \in DOMAIN registry /\ registry[k].id = m
               /\ Listed(registry') /\ Columns(registry')
               /\ DOMAIN registry' = DOMAIN registry
               /\ \A j \in DOMAIN registry : j # k => registry'[j] = registry[j]
               /\ \A f \in {"id", "name", "source", "scanner", "weight", "edges", "tests"} :
                      registry'[k][f] = registry[k][f]
  <1>. USE DEF ResearchInv
  <1>. DEFINE k == RowOf(m)
  <1>1. HandedOver(m)
    BY DEF SaveModel, HandedOver
  <1>2. k \in DOMAIN registry /\ registry[k].id = m
    BY <1>1 DEF ModelsWait, RowOf
  <1>3. PICK status \in Verdicts, lift \in Lifts :
          registry' = [registry EXCEPT ![k].status = status,
             ![k].fitted = (registry[k].name = "calibrator" /\ status # "error"),
             ![k].lift = IF status = "error" THEN 0 ELSE lift]
    BY DEF SaveModel
  <1>. HIDE DEF k
  <1>. DEFINE fitted == (registry[k].name = "calibrator" /\ status # "error")
              won    == IF status = "error" THEN 0 ELSE lift
              row    == [registry[k] EXCEPT !.status = status, !.fitted = fitted, !.lift = won]
  <1>4. registry' = [registry EXCEPT ![k] = row]
    BY <1>2, <1>3
  <1>5. DOMAIN registry[k] = RowFields
    BY <1>2 DEF JobTypes, Columns
  <1>6. /\ DOMAIN row = RowFields
        /\ \A f \in {"id", "name", "source", "scanner", "weight", "edges", "tests"} :
              row[f] = registry[k][f]
    BY <1>5 DEF RowFields
  <1>. HIDE DEF row
  <1>7. /\ Listed(registry') /\ DOMAIN registry' = DOMAIN registry
        /\ \A j \in DOMAIN registry : registry'[j] = IF j = k THEN row ELSE registry[j]
    BY <1>2, <1>4, ReplaceListed DEF JobTypes
  <1>8. Columns(registry')
    BY <1>6, <1>7 DEF JobTypes, Columns
  <1>. QED  BY <1>2, <1>6, <1>7, <1>8 DEF k

LEMMA SaveModelKeeps ==
    ASSUME ResearchInv, NEW m \in Models, NEW v \in Vias, SaveModel(m, v)
    PROVE  ResearchInv'
  <1>. USE DEF ResearchInv
  <1>. DEFINE k == RowOf(m)
  <1>1. /\ k \in DOMAIN registry /\ registry[k].id = m
        /\ Listed(registry') /\ Columns(registry')
        /\ DOMAIN registry' = DOMAIN registry
        /\ \A j \in DOMAIN registry : j # k => registry'[j] = registry[j]
        /\ \A f \in {"id", "name", "source", "scanner"} : registry'[k][f] = registry[k][f]
    BY SaveModelWrites
  <1>. HIDE DEF k
  <1>2. /\ registry'[k].id = m /\ registry'[k].name = registry[k].name
        /\ registry'[k].source = registry[k].source
        /\ registry'[k].scanner = registry[k].scanner
    BY <1>1
  <1>3. Finish(m, v) /\ UNCHANGED backtest /\ exec[m][v].pc = "running"
    BY DEF SaveModel
  <1>4. /\ exec' \in [Jobs -> Executions] /\ exec'[m][v].pc \in {"closing", "ended"}
        /\ \A w \in Vias \ {v} : exec'[m][w] = exec[m][w]
        /\ \A i \in Jobs \ {m} : exec'[i] = exec[i]
    BY <1>3, FinishGoes, JobsAreDistinct
  <1>5. \A s : EdgeOf(s, registry) => EdgeOf(s, registry')
    <2>. SUFFICES ASSUME NEW s, NEW j \in DOMAIN registry,
                         registry[j].source = "forward", registry[j].scanner = s
                  PROVE  registry'[j].source = "forward" /\ registry'[j].scanner = s
      BY <1>1 DEF EdgeOf
    <2>. QED  BY <1>1, <1>2
  <1>6. BacktestsTell'
    <2>1. \A c \in Backtests : exec'[c] = exec[c]
      BY <1>4, JobsAreDistinct
    <2>. QED  BY <1>3, <1>5, <2>1, BacktestsUntouched
  <1>7. ASSUME NEW n \in Models
        PROVE  /\ HandedOver(n)' => \E j \in DOMAIN registry' : registry'[j].id = n
               /\ \A j \in DOMAIN registry' :
                     registry'[j].id = n => RowOfJob(registry'[j], exec'[n])
    <2>1. /\ HandedOver(n) => \E j \in DOMAIN registry : registry[j].id = n
          /\ \A j \in DOMAIN registry :
                registry[j].id = n => RowOfJob(registry[j], exec[n])
      BY DEF ModelsWait
    <2>2. \A j \in DOMAIN registry :
             registry'[j].id = registry[j].id /\ registry'[j].name = registry[j].name
      BY <1>1, <1>2
    <2>3. CASE n = m
      <3>1. \A j \in DOMAIN registry : registry[j].id = m /\ registry[j].name # "setup"
                => exec[m]["worker"].pc = "idle" /\ v = "inline"
        BY <1>3, <2>1, <2>3 DEF RowOfJob, Vias
      <3>2. \A j \in DOMAIN registry' :
               registry'[j].id = n => RowOfJob(registry'[j], exec'[n])
        BY <1>1, <1>4, <2>2, <2>3, <3>1 DEF RowOfJob, Vias
      <3>. QED  BY <1>1, <1>2, <2>3, <3>2
    <2>4. CASE n # m
      <3>1. exec'[n] = exec[n]
        BY <1>4, <2>4, JobsAreDistinct
      <3>2. \A j \in DOMAIN registry : registry[j].id = n => registry'[j] = registry[j]
        BY <1>1, <2>4
      <3>3. \A j \in DOMAIN registry' :
               registry'[j].id = n => RowOfJob(registry'[j], exec'[n])
        BY <1>1, <2>1, <2>2, <3>1, <3>2
      <3>. QED  BY <1>1, <2>1, <2>2, <3>1, <3>3 DEF HandedOver
    <2>. QED  BY <2>3, <2>4
  <1>8. ModelsWait'
    BY <1>7 DEF ModelsWait
  <1>. QED  BY <1>1, <1>3, <1>4, <1>6, <1>8 DEF JobTypes

(* A roster validation appends edge rows, an ensemble touches no table.    *)
LEMMA ValidateKeeps == ASSUME ResearchInv, ValidateNext PROVE ResearchInv'
  <1>. USE DEF ResearchInv
  <1>1. UNCHANGED <<backtest, exec>>
    BY DEF ValidateNext
  <1>2. CASE UNCHANGED registry
    BY <1>1, <1>2, BacktestsUntouched, ModelsUntouched, JobsAreDistinct DEF JobTypes
  <1>3. ASSUME NEW row, registry' = Append(registry, row),
               DOMAIN row = RowFields, row.id = "none"
        PROVE  ResearchInv'
    <2>1. /\ Listed(registry') /\ Columns(registry')
          /\ \A s : EdgeOf(s, registry) => EdgeOf(s, registry')
      BY <1>3, AddedRow
    <2>. QED  BY <1>1, <1>3, <2>1, BacktestsUntouched, EdgeRowKeeps DEF JobTypes
  <1>4. \/ UNCHANGED registry
        \/ \E row : /\ registry' = Append(registry, row)
                    /\ DOMAIN row = RowFields /\ row.id = "none"
    <2>. DEFINE s      == Head(roster.todo)
                ran    == {x \in DOMAIN roster.data : Ran(TestOf(s, roster.data[x]))}
                tests  == [x \in ran |-> TestOf(s, roster.data[x])]
                pooled == AllTrades(Pool(tests))
                row    == EdgeRow(s, "roster", BlendedPromotion(pooled),
                                  ProfitFactor(pooled), RegimeEdges(tests), tests)
    <2>1. registry' = IF ran = {} THEN registry ELSE Append(registry, row)
      BY DEF ValidateNext
    <2>. HIDE DEF ran, pooled, tests, s
    <2>2. DOMAIN row = RowFields /\ row.id = "none"
      BY EdgeRowFields
    <2>. HIDE DEF row
    <2>. QED  BY <2>1, <2>2
  <1>. QED  BY <1>2, <1>3, <1>4

LEMMA OthersKeep ==
    ASSUME ResearchInv, UNCHANGED <<backtest, registry, exec>>
    PROVE  ResearchInv'
  BY BacktestsUntouched, ModelsUntouched DEF ResearchInv, JobTypes

LEMMA StepKeeps == ASSUME ResearchInv, [Next]_vars PROVE ResearchInv'
  <1>1. ASSUME NEW b \in Backtests, CreateBacktest(b)
        PROVE  ResearchInv'
    BY <1>1, CreateBacktestKeeps
  <1>2. ASSUME NEW b \in Backtests, NEW v \in Vias,
               BacktestStep(b, v) \/ LoseDatabase(b, v) \/ Drop(b, v)
        PROVE  ResearchInv'
    BY <1>2, LoadKeeps, SaveEdgeKeeps, SaveReportKeeps, FailKeeps, LoseDatabaseKeeps,
       AcknowledgeKeeps, DropKeeps, JobsAreDistinct DEF BacktestStep
  <1>5. ASSUME NEW m \in Models, CreateModel(m)
        PROVE  ResearchInv'
    BY <1>5, CreateModelKeeps
  <1>6. ASSUME NEW m \in Models, NEW v \in Vias, ModelStep(m, v) \/ Drop(m, v)
        PROVE  ResearchInv'
    BY <1>6, BeginModelKeeps, SaveModelKeeps, AcknowledgeKeeps, DropKeeps, JobsAreDistinct
    DEF ModelStep
  <1>3. CASE ValidateNext
    BY <1>3, ValidateKeeps
  <1>4. CASE \/ StartRoster \/ DropRoster \/ StartEnsemble \/ EnsembleSymbol \/ EndEnsemble
             \/ (\E s \in Scanners : ReadRecord(s)) \/ UNCHANGED vars
    <2>1. UNCHANGED <<backtest, registry, exec>>
      BY <1>4 DEF StartRoster, DropRoster, StartEnsemble, EnsembleSymbol, EndEnsemble,
                  ReadRecord, vars
    <2>. QED  BY <2>1, OthersKeep
  <1>. QED  BY <1>1, <1>2, <1>3, <1>4, <1>5, <1>6 DEF Next

LEMMA InvTells == ASSUME ResearchInv PROVE SettledTellsAll
  <1>1. ASSUME NEW b \in Backtests, \E v \in Vias : exec[b][v].pc # "idle",
               \A v \in Vias : exec[b][v].pc \in {"idle", "closing", "ended"}
        PROVE  backtest[b].status \in {"done", "error"}
    BY <1>1 DEF ResearchInv, BacktestsTell, Tells, Unfinished
  <1>. QED  BY <1>1 DEF ResearchInv, BacktestsTell, Tells, EdgeOf, SettledTellsAll

(* One step never rewrites a report.                                       *)
StaysPut ==
    \A k \in DOMAIN registry :
       registry[k].status # "training" =>
          registry'[k] = registry[k] \/ registry[k].name = "setup"

LEMMA UnchangedStays == ASSUME UNCHANGED registry PROVE StaysPut
  BY DEF StaysPut

LEMMA AddedStays ==
    ASSUME ResearchInv, NEW row, registry' = Append(registry, row)
    PROVE  StaysPut
  BY AppendListed DEF ResearchInv, JobTypes, StaysPut

LEMMA SaveModelStays ==
    ASSUME ResearchInv, NEW m \in Models, NEW v \in Vias, SaveModel(m, v)
    PROVE  StaysPut
  <1>. DEFINE k == RowOf(m)
  <1>1. /\ k \in DOMAIN registry /\ registry[k].id = m
        /\ \A j \in DOMAIN registry : j # k => registry'[j] = registry[j]
    BY SaveModelWrites
  <1>2. registry[k].name = "setup" \/ registry[k].status = "training"
    BY <1>1 DEF SaveModel, ResearchInv, ModelsWait, RowOfJob, Vias
  <1>. HIDE DEF k
  <1>. QED  BY <1>1, <1>2 DEF StaysPut

LEMMA StepStays == ASSUME ResearchInv, [Next]_vars PROVE StaysPut
  <1>1. ASSUME NEW row, registry' = Append(registry, row) PROVE StaysPut
    BY <1>1, AddedStays
  <1>2. ASSUME NEW m \in Models, NEW v \in Vias, SaveModel(m, v) PROVE StaysPut
    BY <1>2, SaveModelStays
  <1>5. CASE \/ \E b \in Backtests : CreateBacktest(b)
             \/ \E b \in Backtests, v \in Vias : BacktestStep(b, v) \/ LoseDatabase(b, v) \/ Drop(b, v)
    <2>1. ASSUME NEW b \in Backtests, NEW v \in Vias, SaveEdge(b, v) PROVE StaysPut
      <3>1. \E row : registry' = Append(registry, row)
        BY <2>1 DEF SaveEdge
      <3>. QED  BY <1>1, <3>1
    <2>2. UNCHANGED registry \/ \E b \in Backtests, v \in Vias : SaveEdge(b, v)
      BY <1>5 DEF CreateBacktest, BacktestStep, Load, Begin, SaveReport, Insufficient,
                  RaiseBacktest, LoseDatabase, Acknowledge, Drop
    <2>. QED  BY <2>1, <2>2, UnchangedStays
  <1>6. CASE \/ \E m \in Models : CreateModel(m)
             \/ \E m \in Models, v \in Vias : ModelStep(m, v) \/ Drop(m, v)
    <2>1. \/ UNCHANGED registry \/ \E row : registry' = Append(registry, row)
          \/ \E m \in Models, v \in Vias : SaveModel(m, v)
      BY <1>6 DEF CreateModel, ModelStep, BeginModel, RaiseModel, Acknowledge, Drop
    <2>. QED  BY <1>1, <1>2, <2>1, UnchangedStays
  <1>3. CASE ValidateNext
    <2>1. UNCHANGED registry \/ \E row : registry' = Append(registry, row)
      BY <1>3 DEF ValidateNext
    <2>. QED  BY <2>1, UnchangedStays, AddedStays
  <1>4. CASE \/ StartRoster \/ DropRoster \/ StartEnsemble \/ EnsembleSymbol \/ EndEnsemble
             \/ (\E s \in Scanners : ReadRecord(s)) \/ UNCHANGED vars
    <2>1. UNCHANGED registry
      BY <1>4 DEF StartRoster, DropRoster, StartEnsemble, EnsembleSymbol, EndEnsemble,
                  ReadRecord, vars
    <2>. QED  BY <2>1, UnchangedStays
  <1>. QED  BY <1>3, <1>4, <1>5, <1>6 DEF Next

-----------------------------------------------------------------------------
LEMMA ResearchIsInductive ==
    /\ Init => ResearchInv
    /\ ResearchInv /\ [Next]_vars => ResearchInv'
  BY InitResearch, StepKeeps

(* Whatever was executed twice, dropped or raised: a backtest that reads   *)
(* done has its report, a forward test its edge row as well, and a job     *)
(* that came to its end has settled (execute_backtest).                    *)
THEOREM SettledAlwaysTells == Spec => []SettledTellsAll
  <1>1. ResearchInv => SettledTellsAll
    BY InvTells
  <1>. QED  BY <1>1, ResearchIsInductive, PTL DEF Spec

(* A report in the registry is never rewritten, but by the second          *)
(* execution of its own training (save_model_report).                      *)
THEOREM ReportsAreFinal == Spec => ReportsStayPut
  <1>1. ResearchInv /\ [Next]_vars => StaysPut
    BY StepStays
  <1>. QED  BY <1>1, ResearchIsInductive, PTL DEF Spec, ReportsStayPut, StaysPut

-----------------------------------------------------------------------------
(* The evidence of finitely many tests: counts and sums that are numbers,  *)
(* a weight within its band that is above neutral only for a promotion.    *)
Tests(S) == IsFiniteSet(DOMAIN S) /\ \A k \in DOMAIN S : S[k] \in [Regimes -> Trades]

LEMMA PooledIsTrades ==
    ASSUME NEW S, Tests(S), NEW g \in Regimes
    PROVE  Pooled(S, g) \in Trades
  <1> DEFINE K == DOMAIN S
             n == [k \in K |-> S[k][g].n]
             wins == [k \in K |-> S[k][g].wins]
             won == [k \in K |-> S[k][g].won]
             lost == [k \in K |-> S[k][g].lost]
  <1>1. IsFiniteSet(K) /\ \A k \in K : S[k][g] \in Trades
    BY DEF Tests
  <1>2. \A k \in K : n[k] \in Nat /\ wins[k] \in Nat /\ won[k] \in Nat /\ lost[k] \in Nat
    BY <1>1 DEF Trades
  <1>3. Pooled(S, g) = [n |-> SumOver(n, K), wins |-> SumOver(wins, K),
                        won |-> SumOver(won, K), lost |-> SumOver(lost, K)]
    BY DEF Pooled
  <1> HIDE DEF K, n, wins, won, lost
  <1>4. /\ SumOver(n, K) \in Nat /\ SumOver(wins, K) \in Nat
        /\ SumOver(won, K) \in Nat /\ SumOver(lost, K) \in Nat
    BY <1>1, <1>2, SumNat
  <1> QED
    BY <1>3, <1>4 DEF Trades

LEMMA AllIsTrades ==
    ASSUME NEW sample \in [Regimes -> Trades]
    PROVE  AllTrades(sample) \in Trades
  <1>1. sample["trend"] \in Trades /\ sample["range"] \in Trades
    BY DEF Regimes
  <1> QED
    BY <1>1 DEF AllTrades, Both, Trades

LEMMA PoolIsSample ==
    ASSUME NEW S, Tests(S)
    PROVE  Pool(S) \in [Regimes -> Trades]
  BY PooledIsTrades DEF Pool

(* Pooling one test changes nothing.                                       *)
LEMMA PoolOfOne ==
    ASSUME NEW x, NEW t \in [Regimes -> Trades]
    PROVE  Tests([k \in {x} |-> t]) /\ Pool([k \in {x} |-> t]) = t
  <1> DEFINE S == [k \in {x} |-> t]
  <1>1. DOMAIN S = {x} /\ S[x] = t
    OBVIOUS
  <1> HIDE DEF S
  <1>2. Tests(S)
    BY <1>1, FS_Singleton DEF Tests
  <1>3. ASSUME NEW g \in Regimes PROVE Pooled(S, g) = t[g]
    <2> DEFINE n == [k \in DOMAIN S |-> S[k][g].n]
               wins == [k \in DOMAIN S |-> S[k][g].wins]
               won == [k \in DOMAIN S |-> S[k][g].won]
               lost == [k \in DOMAIN S |-> S[k][g].lost]
    <2>1. t[g] \in Trades
      OBVIOUS
    <2>2. /\ n[x] = t[g].n /\ wins[x] = t[g].wins /\ won[x] = t[g].won /\ lost[x] = t[g].lost
          /\ n[x] \in Int /\ wins[x] \in Int /\ won[x] \in Int /\ lost[x] \in Int
      BY <1>1, <2>1 DEF Trades
    <2>3. Pooled(S, g) = [n |-> SumOver(n, {x}), wins |-> SumOver(wins, {x}),
                          won |-> SumOver(won, {x}), lost |-> SumOver(lost, {x})]
      BY <1>1 DEF Pooled
    <2> HIDE DEF n, wins, won, lost
    <2>4. /\ SumOver(n, {x}) = n[x] /\ SumOver(wins, {x}) = wins[x]
          /\ SumOver(won, {x}) = won[x] /\ SumOver(lost, {x}) = lost[x]
      BY <2>2, SumOfOne
    <2> QED
      BY <2>1, <2>2, <2>3, <2>4 DEF Trades
  <1> QED
    BY <1>2, <1>3 DEF Pool, S

LEMMA RoundedIsNat ==
    ASSUME NEW n \in Nat, NEW d \in Nat, d > 0
    PROVE  Rounded(n, d) \in Nat
  <1> DEFINE a == 2 * n + d
             b == 2 * d
  <1>1. a \in Nat /\ b \in Nat /\ b > 0
    OBVIOUS
  <1>2. a \div b \in Nat
    <2> HIDE DEF a, b
    <2> QED
      BY <1>1
  <1> QED
    BY <1>2 DEF Rounded

LEMMA FactorIsNumber ==
    ASSUME NEW m \in Trades
    PROVE  ProfitFactor(m) \in Nat
  <1>1. /\ m.won \in Nat /\ m.lost \in Nat
        /\ Unit * m.won \in Nat
    BY DEF Trades, Unit
  <1>2. m.lost > 0 => Rounded(Unit * m.won, m.lost) \in Nat
    BY <1>1, RoundedIsNat
  <1> QED
    BY <1>1, <1>2 DEF ProfitFactor

LEMMA WeightInBand ==
    ASSUME NEW promotion, NEW factor \in Int
    PROVE  /\ WeightOf(promotion, factor) \in Retired..Highest
           /\ WeightOf(promotion, factor) > Neutral => promotion = "promote"
           /\ WeightOf("retire", factor) = Retired
  BY DEF WeightOf, Clamp, Retired, Highest, Neutral, Unit

LEMMA DecidedOnProfit ==
    \A m : /\ Decide(m) = "promote" => ~(m.n < 5) /\ Profitable(m)
           /\ BlendedPromotion(m) = "promote" => ~(m.n < MinOosTrades) /\ Profitable(m)
  BY DEF Decide, BlendedPromotion

(* A mean of losing factors is a losing one.                               *)
LEMMA MeanIsNumber ==
    ASSUME NEW S, Tests(S), NEW g \in Regimes, Traded(S, g) # {}
    PROVE  /\ MeanFactor(S, g) \in Int
           /\ FactorSum(S, g) \in Nat
           /\ Cardinality(Traded(S, g)) \in Nat /\ Cardinality(Traded(S, g)) > 0
           /\ (\A k \in Traded(S, g) : ProfitFactor(S[k][g]) < Unit) => MeanBelow(S, g, Unit)
  <1> DEFINE T == Traded(S, g)
             f == [k \in T |-> ProfitFactor(S[k][g])]
  <1>1. IsFiniteSet(T) /\ \A k \in T : f[k] = ProfitFactor(S[k][g]) /\ f[k] \in Nat
    <2>1. IsFiniteSet(T)
      BY FS_Subset DEF Tests, Traded
    <2>2. \A k \in T : S[k][g] \in Trades
      BY DEF Tests, Traded
    <2> QED
      BY <2>1, <2>2, FactorIsNumber
  <1>2. FactorSum(S, g) = SumOver(f, T)
    BY DEF FactorSum
  <1>3. T # {}
    OBVIOUS
  <1> HIDE DEF T, f
  <1>4. SumOver(f, T) \in Nat
    BY <1>1, SumNat
  <1>5. Cardinality(T) \in Nat /\ Cardinality(T) > 0
    BY <1>1, <1>3, FS_CardinalityType, FS_EmptySet
  <1>6. MeanFactor(S, g) \in Int
    BY <1>2, <1>4, <1>5, RoundedIsNat DEF MeanFactor, T
  <1>7. ASSUME \A k \in T : ProfitFactor(S[k][g]) < Unit
        PROVE  MeanBelow(S, g, Unit)
    <2>1. 9999 \in Int /\ \A k \in T : f[k] \in Int /\ f[k] <= 9999
      BY <1>1, <1>7 DEF Unit
    <2>2. SumOver(f, T) <= 9999 * Cardinality(T)
      BY <1>1, <2>1, SumBound
    <2>3. SumOver(f, T) < 10000 * Cardinality(T)
      BY <1>4, <1>5, <2>2
    <2> QED
      BY <1>2, <2>3 DEF MeanBelow, T, Unit
  <1> QED
    BY <1>2, <1>4, <1>5, <1>6, <1>7 DEF T

LEMMA EdgesAreEarned ==
    ASSUME NEW S, Tests(S), NEW g \in DOMAIN RegimeEdges(S)
    PROVE  /\ g \in Regimes
           /\ RegimeEdges(S)[g] \in Retired..Highest
           /\ RegimeEdges(S)[g] > Neutral =>
                 Pooled(S, g).n >= MinOosTrades /\ Profitable(Pooled(S, g))
  <1>1. /\ g \in Regimes
        /\ RegimeEdges(S)[g] = WeightOf(RegimePromotion(S, g), MeanFactor(S, g))
    BY DEF RegimeEdges
  <1>2. MeanFactor(S, g) \in Int
    BY <1>1, MeanIsNumber DEF RegimeEdges
  <1>3. Pooled(S, g).n \in Nat
    BY <1>1, PooledIsTrades DEF Trades
  <1>4. RegimePromotion(S, g) = "promote" =>
           Pooled(S, g).n >= MinOosTrades /\ Profitable(Pooled(S, g))
    BY <1>3 DEF RegimePromotion, MinOosTrades
  <1> QED
    BY <1>1, <1>2, <1>4, WeightInBand

(* Thirty trades are not made by nobody, and a mean of losing factors is a *)
(* losing one: such a regime is retired.                                   *)
LEMMA LosersRetire ==
    ASSUME NEW S, Tests(S), NEW g \in Regimes, Pooled(S, g).n >= MinOosTrades,
           \A k \in DOMAIN S : S[k][g].n > 0 => ProfitFactor(S[k][g]) < Unit
    PROVE  g \in DOMAIN RegimeEdges(S) /\ RegimeEdges(S)[g] = Retired
  <1>1. Traded(S, g) # {}
    <2> SUFFICES ASSUME Traded(S, g) = {} PROVE FALSE
      OBVIOUS
    <2> DEFINE K == DOMAIN S
               n == [k \in K |-> S[k][g].n]
    <2>1. IsFiniteSet(K) /\ \A k \in K : n[k] = 0
      <3>1. \A k \in K : S[k][g] \in Trades
        BY DEF Tests
      <3> QED
        BY <3>1 DEF Tests, Traded, Trades
    <2>2. Pooled(S, g).n = SumOver(n, K)
      BY DEF Pooled
    <2> HIDE DEF K, n
    <2>3. SumOver(n, K) = 0
      BY <2>1, SumZero
    <2> QED
      BY <2>2, <2>3 DEF MinOosTrades
  <1>2. /\ g \in DOMAIN RegimeEdges(S)
        /\ RegimeEdges(S)[g] = WeightOf(RegimePromotion(S, g), MeanFactor(S, g))
    BY <1>1 DEF RegimeEdges, Traded
  <1>3. /\ MeanFactor(S, g) \in Int
        /\ MeanBelow(S, g, Unit) /\ ~ ~MeanBelow(S, g, 13000)
    <2>1. \A k \in Traded(S, g) : ProfitFactor(S[k][g]) < Unit
      BY DEF Traded
    <2>2. MeanBelow(S, g, Unit)
      BY <1>1, <2>1, MeanIsNumber
    <2>3. FactorSum(S, g) < 10000 * Cardinality(Traded(S, g))
      BY <2>2 DEF MeanBelow, Unit
    <2>4. FactorSum(S, g) < 13000 * Cardinality(Traded(S, g))
      BY <1>1, <2>3, MeanIsNumber
    <2> QED
      BY <1>1, <2>2, <2>4, MeanIsNumber DEF MeanBelow
  <1>4. Pooled(S, g).n \in Nat
    BY PooledIsTrades DEF Trades
  <1>5. RegimePromotion(S, g) = "retire"
    BY <1>3, <1>4 DEF RegimePromotion, MinOosTrades
  <1> QED
    BY <1>2, <1>3, <1>5, WeightInBand

-----------------------------------------------------------------------------
(* What the rows, the jobs and the readers are besides: every row of the   *)
(* registry is earned, and whoever had a part in the last signal was not   *)
(* retired in its regime when its record was read.                         *)
Earned(row) ==
    row.name = "walkforward" =>
       LET all == AllTrades(Pool(row.tests))
           floor == IF row.source = "roster" THEN MinOosTrades ELSE 5
       IN  /\ row.weight > Neutral => all.n >= floor /\ Profitable(all)
           /\ \A g \in DOMAIN row.edges : row.edges[g] > Neutral =>
                /\ Pooled(row.tests, g).n >= MinOosTrades
                /\ Profitable(Pooled(row.tests, g))

RowGood(row) ==
    /\ row.scanner \in Scanners /\ row.weight \in Retired..Highest
    /\ \A g \in DOMAIN row.edges : row.edges[g] \in Retired..Highest
    /\ Earned(row)
    /\ row.source = "roster" => Tests(row.tests) /\ row.edges = RegimeEdges(row.tests)

RowsGood == \A k \in DOMAIN registry : RowGood(registry[k])

Proper(row) == /\ row.scanner \in Scanners /\ row.mode \in Modes
               /\ row.status \in {"queued", "running", "done", "error"}
               /\ row.report \in BOOLEAN
JobsProper ==
    /\ \A b \in Backtests : (backtest[b] = NoRow /\ ~HandedOver(b)) \/ Proper(backtest[b])
    /\ \A j \in Jobs, v \in Vias : exec[j][v].tries \in 0..MaxTries

RosterTyped ==
    /\ DOMAIN roster = {"todo", "data", "runs"} /\ roster.todo \in Seq(Scanners)
    /\ IsFiniteSet(DOMAIN roster.data)
    /\ \A x \in DOMAIN roster.data : roster.data[x] \in Histories

RecordsRead(records, table) == \A s \in DOMAIN records : records[s] = 0 \/ records[s] \in DOMAIN table
EnsembleTyped ==
    /\ DOMAIN ensemble = {"status", "todo", "records", "left", "runs"}
    /\ ensemble.status \in {"none", "running", "done", "error"}
    /\ RecordsRead(ensemble.records, registry)

Voter(s, regime, records, table) ==
    /\ s \in DOMAIN records
    /\ records[s] # 0 =>
          EffectiveWeight(table[records[s]].weight, table[records[s]].edges, regime) >= EdgeFloor
VotersHeard ==
    last # NoLast => /\ ensemble.todo = {}
                     /\ \A s \in last.by : Voter(s, last.regime, ensemble.records, registry)

GradeInv == RowsGood /\ JobsProper /\ RosterTyped /\ EnsembleTyped /\ VotersHeard

LEMMA GradeInit == Init => GradeInv
  <1> SUFFICES ASSUME Init PROVE GradeInv
    OBVIOUS
  <1>1. RowsGood
    <2>1. registry = <<>>
      BY DEF Init
    <2> QED
      BY <2>1 DEF RowsGood
  <1>2. JobsProper
    BY ResearchAssumption, JobsAreDistinct DEF Init, JobsProper, NotBegun, Idle, HandedOver
  <1>3. RosterTyped
    <2>1. roster = [todo |-> <<>>, data |-> <<>>, runs |-> 0]
      BY DEF Init
    <2>2. DOMAIN roster.data = {} /\ roster.todo = <<>>
      BY <2>1
    <2> QED
      BY <2>1, <2>2, FS_EmptySet DEF RosterTyped
  <1>4. EnsembleTyped
    <2>1. ensemble = [status |-> "none", todo |-> {}, records |-> <<>>, left |-> 0, runs |-> 0]
      BY DEF Init
    <2>2. DOMAIN ensemble.records = {}
      BY <2>1
    <2> QED
      BY <2>1, <2>2 DEF EnsembleTyped, RecordsRead
  <1>5. VotersHeard
    BY DEF Init, VotersHeard
  <1> QED
    BY <1>1, <1>2, <1>3, <1>4, <1>5 DEF GradeInv

-----------------------------------------------------------------------------
(* The registry grows by good rows, and what a reader weighs with stays.   *)
Graded == {"name", "source", "scanner", "weight", "edges", "tests"}
Grows == /\ DOMAIN registry \subseteq DOMAIN registry'
         /\ \A k \in DOMAIN registry : \A f \in Graded : registry'[k][f] = registry[k][f]

LEMMA GoodRowGrows ==
    ASSUME ResearchInv, RowsGood, NEW row, DOMAIN row = RowFields, RowGood(row),
           registry' = Append(registry, row)
    PROVE  Grows /\ RowsGood'
  <1>1. /\ DOMAIN registry \subseteq DOMAIN registry'
        /\ \A k \in DOMAIN registry : registry'[k] = registry[k]
        /\ \A k \in DOMAIN registry' : k \in DOMAIN registry \/ registry'[k] = row
    BY AddedRow DEF ResearchInv
  <1> QED
    BY <1>1 DEF Grows, RowsGood

LEMMA ForwardRowGood ==
    ASSUME NEW scanner \in Scanners, NEW x, NEW t \in [Regimes -> Trades]
    PROVE  LET m == AllTrades(t)
               row == EdgeRow(scanner, "forward", Decide(m), ProfitFactor(m), <<>>, [k \in {x} |-> t])
           IN  DOMAIN row = RowFields /\ RowGood(row)
  <1> DEFINE m == AllTrades(t)
             tests == [k \in {x} |-> t]
             verdict == Decide(m)
             factor == ProfitFactor(m)
             row == EdgeRow(scanner, "forward", verdict, factor, <<>>, tests)
  <1>1. m \in Trades /\ factor \in Int /\ Pool(tests) = t
    <2>1. m \in Trades
      BY AllIsTrades
    <2>2. Pool(tests) = t
      BY PoolOfOne
    <2> HIDE DEF m, tests
    <2>3. ProfitFactor(m) \in Nat
      BY <2>1, FactorIsNumber
    <2> QED
      BY <2>1, <2>2, <2>3
  <1>2. m.n \in Nat /\ AllTrades(Pool(tests)) = m
    BY <1>1 DEF Trades
  <1> HIDE DEF tests
  <1>3. verdict = "promote" => ~(m.n < 5) /\ Profitable(m)
    BY DecidedOnProfit
  <1> HIDE DEF m, verdict, factor
  <1>4. /\ DOMAIN row = RowFields /\ row.scanner = scanner /\ row.source = "forward"
        /\ row.weight = WeightOf(verdict, factor) /\ row.edges = <<>> /\ row.tests = tests
        /\ DOMAIN row.edges = {}
    BY DEF EdgeRow, RowFields
  <1> HIDE DEF row
  <1>5. row.weight \in Retired..Highest /\ (row.weight > Neutral => verdict = "promote")
    BY <1>1, <1>4, WeightInBand
  <1>6. Earned(row)
    BY <1>2, <1>3, <1>4, <1>5 DEF Earned
  <1>7. RowGood(row)
    BY <1>4, <1>5, <1>6 DEF RowGood
  <1> QED
    BY <1>4, <1>7 DEF row, m, verdict, factor, tests

LEMMA RosterRowGood ==
    ASSUME NEW scanner \in Scanners, NEW tests, Tests(tests)
    PROVE  LET pooled == AllTrades(Pool(tests))
               row == EdgeRow(scanner, "roster", BlendedPromotion(pooled),
                              ProfitFactor(pooled), RegimeEdges(tests), tests)
           IN  DOMAIN row = RowFields /\ RowGood(row)
  <1> DEFINE m == AllTrades(Pool(tests))
             verdict == BlendedPromotion(m)
             factor == ProfitFactor(m)
             edges == RegimeEdges(tests)
             row == EdgeRow(scanner, "roster", verdict, factor, edges, tests)
  <1>1. m \in Trades /\ factor \in Int
    BY PoolIsSample, AllIsTrades, FactorIsNumber
  <1>2. m.n \in Nat
    BY <1>1 DEF Trades
  <1>3. verdict = "promote" => ~(m.n < MinOosTrades) /\ Profitable(m)
    BY DecidedOnProfit
  <1>9. m = AllTrades(Pool(tests)) /\ edges = RegimeEdges(tests)
    OBVIOUS
  <1> HIDE DEF m, verdict, factor, edges
  <1>4. /\ DOMAIN row = RowFields /\ row.scanner = scanner /\ row.source = "roster"
        /\ row.weight = WeightOf(verdict, factor) /\ row.edges = edges /\ row.tests = tests
    BY DEF EdgeRow, RowFields
  <1> HIDE DEF row
  <1>5. row.weight \in Retired..Highest /\ (row.weight > Neutral => verdict = "promote")
    BY <1>1, <1>4, WeightInBand
  <1>6. \A g \in DOMAIN edges :
           /\ edges[g] \in Retired..Highest
           /\ edges[g] > Neutral => Pooled(tests, g).n >= MinOosTrades /\ Profitable(Pooled(tests, g))
    BY <1>9, EdgesAreEarned
  <1>7. Earned(row)
    <2>1. row.weight > Neutral => m.n >= MinOosTrades /\ Profitable(m)
      BY <1>2, <1>3, <1>5 DEF MinOosTrades
    <2> QED
      BY <1>4, <1>6, <1>9, <2>1 DEF Earned
  <1>8. RowGood(row)
    BY <1>4, <1>5, <1>6, <1>7, <1>9 DEF RowGood
  <1> QED
    BY <1>4, <1>8 DEF row, m, verdict, factor, edges

LEMMA ModelRowGood ==
    ASSUME NEW m, NEW name, name # "walkforward", NEW scanner \in Scanners
    PROVE  LET row == ModelRow(m, name, scanner) IN DOMAIN row = RowFields /\ RowGood(row)
  <1> DEFINE row == ModelRow(m, name, scanner)
  <1>1. /\ DOMAIN row = RowFields /\ row.scanner = scanner /\ row.source = "post"
        /\ row.name # "walkforward" /\ row.weight = Neutral /\ DOMAIN row.edges = {}
    BY DEF ModelRow, RowFields
  <1> HIDE DEF row
  <1>2. RowGood(row)
    BY <1>1 DEF RowGood, Earned, Neutral, Unit, Retired, Highest
  <1> QED
    BY <1>1, <1>2 DEF row

LEMMA RegistryGrows ==
    ASSUME ResearchInv, GradeInv, [Next]_vars
    PROVE  Grows /\ RowsGood'
  <1> USE DEF GradeInv
  <1>1. ASSUME NEW b \in Backtests, NEW v \in Vias, SaveEdge(b, v) PROVE Grows /\ RowsGood'
    <2>1. backtest[b].scanner \in Scanners
      <3>1. HandedOver(b)
        BY <1>1 DEF SaveEdge, HandedOver
      <3> QED
        BY <3>1 DEF JobsProper, Proper
    <2>2. PICK x \in Symbols, h \in Histories :
             LET t == TestOf(backtest[b].scanner, h)
                 m == AllTrades(t)
             IN  /\ Ran(t)
                 /\ registry' = Append(registry, EdgeRow(backtest[b].scanner, "forward",
                                     Decide(m), ProfitFactor(m), <<>>, [k \in {x} |-> t]))
      BY <1>1 DEF SaveEdge
    <2> DEFINE scanner == backtest[b].scanner
               t == TestOf(scanner, h)
               m == AllTrades(t)
               row == EdgeRow(scanner, "forward", Decide(m), ProfitFactor(m), <<>>, [k \in {x} |-> t])
    <2>3. t \in [Regimes -> Trades] /\ scanner \in Scanners
      BY <2>1, <2>2, ResearchAssumption
    <2>4. registry' = Append(registry, row)
      BY <2>2
    <2> HIDE DEF t, scanner
    <2>5. DOMAIN row = RowFields /\ RowGood(row)
      BY <2>3, ForwardRowGood
    <2> HIDE DEF row
    <2> QED
      BY <2>4, <2>5, GoodRowGrows
  <1>2. ASSUME NEW m \in Models, CreateModel(m) PROVE Grows /\ RowsGood'
    <2>1. PICK s \in Scanners, name \in {"calibrator", "setup"} :
             registry' = Append(registry, ModelRow(m, name, s))
      BY <1>2 DEF CreateModel
    <2> DEFINE row == ModelRow(m, name, s)
    <2>2. DOMAIN row = RowFields /\ RowGood(row)
      BY ModelRowGood
    <2>3. registry' = Append(registry, row)
      BY <2>1
    <2> HIDE DEF row
    <2> QED
      BY <2>2, <2>3, GoodRowGrows
  <1>3. ASSUME NEW m \in Models, NEW v \in Vias, SaveModel(m, v) PROVE Grows /\ RowsGood'
    <2> DEFINE k == RowOf(m)
    <2>1. /\ k \in DOMAIN registry /\ DOMAIN registry' = DOMAIN registry
          /\ \A j \in DOMAIN registry : j # k => registry'[j] = registry[j]
          /\ \A f \in {"id"} \cup Graded : registry'[k][f] = registry[k][f]
      BY <1>3, SaveModelWrites DEF Graded
    <2> HIDE DEF k
    <2>2. Grows
      BY <2>1 DEF Grows
    <2>3. /\ registry'[k].name = registry[k].name /\ registry'[k].source = registry[k].source
          /\ registry'[k].scanner = registry[k].scanner /\ registry'[k].weight = registry[k].weight
          /\ registry'[k].edges = registry[k].edges /\ registry'[k].tests = registry[k].tests
      BY <2>1 DEF Graded
    <2>4. RowGood(registry[k]) => RowGood(registry'[k])
      BY <2>3 DEF RowGood, Earned
    <2>5. RowsGood'
      BY <2>1, <2>4 DEF RowsGood
    <2> QED
      BY <2>2, <2>5
  <1>4. CASE ValidateNext
    <2> DEFINE s      == Head(roster.todo)
               ran    == {x \in DOMAIN roster.data : Ran(TestOf(s, roster.data[x]))}
               tests  == [x \in ran |-> TestOf(s, roster.data[x])]
               pooled == AllTrades(Pool(tests))
               row    == EdgeRow(s, "roster", BlendedPromotion(pooled),
                                 ProfitFactor(pooled), RegimeEdges(tests), tests)
    <2>1. registry' = IF ran = {} THEN registry ELSE Append(registry, row)
      BY <1>4 DEF ValidateNext
    <2>2. s \in Scanners
      BY <1>4 DEF ValidateNext, RosterTyped
    <2>3. Tests(tests)
      <3>1. IsFiniteSet(ran)
        BY FS_Subset DEF RosterTyped
      <3>2. \A x \in ran : tests[x] \in [Regimes -> Trades]
        BY <2>2, ResearchAssumption DEF RosterTyped
      <3>3. DOMAIN tests = ran
        OBVIOUS
      <3> HIDE DEF tests, ran
      <3> QED
        BY <3>1, <3>2, <3>3 DEF Tests
    <2> HIDE DEF tests, s, ran
    <2>4. DOMAIN row = RowFields /\ RowGood(row)
      BY <2>2, <2>3, RosterRowGood
    <2> HIDE DEF row
    <2>5. CASE registry' = registry
      BY <2>5 DEF Grows, RowsGood
    <2>6. CASE registry' = Append(registry, row)
      BY <2>4, <2>6, GoodRowGrows
    <2> QED
      BY <2>1, <2>5, <2>6
  <1>5. CASE UNCHANGED registry
    BY <1>5 DEF Grows, RowsGood
  <1>6. \/ \E b \in Backtests, v \in Vias : SaveEdge(b, v)
        \/ \E m \in Models : CreateModel(m)
        \/ \E m \in Models, v \in Vias : SaveModel(m, v)
        \/ ValidateNext
        \/ UNCHANGED registry
    BY DEF Next, BacktestStep, ModelStep, CreateBacktest, Load, Begin, SaveReport, Insufficient,
           RaiseBacktest, LoseDatabase, Acknowledge, Drop, BeginModel, RaiseModel, StartRoster, DropRoster,
           StartEnsemble, ReadRecord, EnsembleSymbol, EndEnsemble, vars
  <1> QED
    BY <1>1, <1>2, <1>3, <1>4, <1>5, <1>6

(* A row that grew is weighed as before, and a voter stays one.            *)
LEMMA VoterStays ==
    ASSUME ResearchInv, Grows, RecordsRead(ensemble.records, registry), NEW regime, NEW s,
           Voter(s, regime, ensemble.records, registry)
    PROVE  Voter(s, regime, ensemble.records, registry')
  <1> DEFINE k == ensemble.records[s]
  <1>1. CASE k = 0
    BY <1>1 DEF Voter
  <1>2. CASE k # 0
    <2>1. k \in DOMAIN registry
      BY <1>2 DEF RecordsRead, Voter
    <2>2. registry'[k].weight = registry[k].weight /\ registry'[k].edges = registry[k].edges
      BY <2>1 DEF Grows, Graded
    <2> QED
      BY <2>2 DEF Voter
  <1> QED
    BY <1>1, <1>2

LEMMA RecordsStay ==
    ASSUME Grows, NEW records, RecordsRead(records, registry)
    PROVE  RecordsRead(records, registry')
  BY DEF Grows, RecordsRead

(* get_latest_edge_record returns a row of the table, or none.             *)
LEMMA LatestIsRow ==
    ASSUME ResearchInv, NEW s
    PROVE  LatestEdgeRecord(s) = 0 \/ LatestEdgeRecord(s) \in DOMAIN registry
  <1> DEFINE rows == {k \in DOMAIN registry : registry[k].name = "walkforward"
                                              /\ registry[k].scanner = s}
  <1>1. LatestEdgeRecord(s) = IF rows = {} THEN 0 ELSE Max(rows)
    BY DEF LatestEdgeRecord, Newest
  <1>2. PICK S : registry \in Seq(S)
    BY DEF ResearchInv, JobTypes, Listed
  <1>3. DOMAIN registry = 1..Len(registry) /\ Len(registry) \in Nat
    BY <1>2, LenProperties
  <1>4. IsFiniteSet(rows) /\ rows \in SUBSET Int /\ rows \subseteq DOMAIN registry
    <2>1. 1 \in Int /\ Len(registry) \in Int
      BY <1>3
    <2>2. IsFiniteSet(1..Len(registry))
      BY <2>1, FS_Interval
    <2>3. rows \in SUBSET (1..Len(registry)) /\ \A k \in 1..Len(registry) : k \in Int
      BY <1>3
    <2> HIDE DEF rows
    <2>4. IsFiniteSet(rows)
      BY <2>2, <2>3, FS_Subset
    <2> QED
      BY <1>3, <2>3, <2>4
  <1> HIDE DEF rows
  <1>5. rows # {} => \E k \in rows : \A j \in rows : k >= j
    <2> SUFFICES ASSUME rows # {} PROVE \E k \in rows : \A j \in rows : k >= j
      OBVIOUS
    <2> DEFINE key == [k \in rows |-> -k]
    <2>1. \A k \in rows : key[k] = -k /\ k \in Int
      BY <1>4
    <2> HIDE DEF key
    <2>2. \A k \in rows : key[k] \in Int
      BY <2>1
    <2>3. PICK k \in rows : \A j \in rows : key[k] < key[j] \/ (key[k] = key[j] /\ k <= j)
      BY <1>4, <2>2, LowestOfFirst
    <2> QED
      BY <2>1, <2>3
  <1>6. rows # {} => Max(rows) \in rows
    BY <1>5 DEF Max
  <1> QED
    BY <1>1, <1>4, <1>6

(* The signal of an ensemble is of its regime and by those who answered.   *)
LEMMA SignalIsHeard ==
    ASSUME NEW answers, NEW weights, NEW regime, NEW sig \in EnsembleSignal(answers, weights, regime)
    PROVE  sig.regime = regime /\ \A s \in sig.by : \E a \in answers : a.id = s
  <1> DEFINE long  == Votes(answers, weights, LONG)
             short == Votes(answers, weights, SHORT)
             side  == SideOf(long > short)
             agree == {a \in answers : a.result.triggered /\ a.result.side = side}
             plans == {BuildSignal(a.id, a.result, 1, regime,
                            Unit + ConsensusScore(long, short), <<>>, FALSE) :
                         a \in {x \in agree : \A y \in agree : Vote(x, weights) >= Vote(y, weights)}}
             signals == {[side |-> side, regime |-> regime, by |-> {a.id : a \in agree},
                          long |-> long, short |-> short,
                          planned |-> p.plan # NoPlan] : p \in plans}
  <1>1. EnsembleSignal(answers, weights, regime) = IF Action(long, short) # "trade" THEN {} ELSE signals
    BY DEF EnsembleSignal
  <1>2. \A s \in {a.id : a \in agree} : \E a \in answers : a.id = s
    OBVIOUS
  <1> HIDE DEF plans, agree, side, long, short
  <1>3. sig \in signals
    BY <1>1
  <1>4. sig.regime = regime /\ sig.by = {a.id : a \in agree}
    BY <1>3
  <1> QED
    BY <1>2, <1>4

-----------------------------------------------------------------------------
LEMMA JobsStayProper ==
    ASSUME ResearchInv, JobsProper, [Next]_vars
    PROVE  JobsProper'
  <1> USE DEF ResearchInv
  <1>1. ASSUME NEW b \in Backtests, CreateBacktest(b) PROVE JobsProper'
    <2>1. PICK s \in Scanners, mode \in Modes, vias \in SUBSET Vias :
            /\ backtest' = [backtest EXCEPT ![b] =
                  [scanner |-> s, mode |-> mode, status |-> "queued", report |-> FALSE]]
            /\ exec' = [exec EXCEPT ![b] = Handed(vias)]
      BY <1>1 DEF CreateBacktest
    <2>2. Proper(backtest'[b]) /\ exec'[b] = Handed(vias)
      BY <2>1, JobsAreDistinct DEF Proper, JobTypes
    <2>3. /\ \A c \in Backtests \ {b} : backtest'[c] = backtest[c]
          /\ \A i \in Jobs \ {b} : exec'[i] = exec[i]
      BY <2>1 DEF JobTypes
    <2> QED
      BY <2>2, <2>3, HandedIsExecution, JobsAreDistinct, ResearchAssumption
      DEF JobsProper, HandedOver
  (* One execution moves, and its row stays or stays proper.               *)
  <1>2. ASSUME NEW j \in Jobs, NEW v \in Vias, exec[j][v].pc # "idle",
               exec'[j][v].tries \in 0..MaxTries,
               \A w \in Vias \ {v} : exec'[j][w] = exec[j][w],
               \A i \in Jobs \ {j} : exec'[i] = exec[i],
               \A c \in Backtests : backtest'[c] = backtest[c]
                  \/ (c = j /\ (Proper(backtest[c]) => Proper(backtest'[c])))
        PROVE  JobsProper'
    <2>1. HandedOver(j)
      BY <1>2 DEF HandedOver
    <2>2. \A b \in Backtests : (backtest'[b] = NoRow /\ ~HandedOver(b)') \/ Proper(backtest'[b])
      BY <1>2, <2>1, JobsAreDistinct DEF JobsProper, HandedOver
    <2>3. \A i \in Jobs, w \in Vias : exec'[i][w].tries \in 0..MaxTries
      BY <1>2 DEF JobsProper
    <2> QED
      BY <2>2, <2>3 DEF JobsProper
  <1>3. ASSUME NEW b \in Backtests, NEW status \in {"running", "done", "error"}, SetStatus(b, status)
        PROVE  \A c \in Backtests : backtest'[c] = backtest[c]
                  \/ (c = b /\ (Proper(backtest[c]) => Proper(backtest'[c])))
    BY <1>3, StatusKeeps DEF Proper, Statuses
  <1>4. ASSUME NEW j \in Jobs, NEW v \in Vias, NEW pc \in Stages, Goto(j, v, pc)
        PROVE  /\ exec'[j][v].tries \in 0..MaxTries
               /\ \A w \in Vias \ {v} : exec'[j][w] = exec[j][w]
               /\ \A i \in Jobs \ {j} : exec'[i] = exec[i]
    BY <1>4, GotoKeeps DEF JobsProper
  <1>5. ASSUME NEW b \in Backtests, NEW v \in Vias, Load(b, v) \/ Begin(b, v) PROVE JobsProper'
    <2>1. exec[b][v].pc # "idle" /\ \E pc, seen : exec' = [exec EXCEPT ![b][v].pc = pc, ![b][v].seen = seen]
      BY <1>5 DEF Load, Begin
    <2>2. PICK pc, seen : exec' = [exec EXCEPT ![b][v].pc = pc, ![b][v].seen = seen]
      BY <2>1
    <2>3. /\ exec'[b][v].tries = exec[b][v].tries
          /\ \A w \in Vias \ {v} : exec'[b][w] = exec[b][w]
          /\ \A i \in Jobs \ {b} : exec'[i] = exec[i]
      BY <2>2, JobsAreDistinct DEF JobTypes, Executions, Attempts
    <2>4. exec'[b][v].tries \in 0..MaxTries
      BY <2>3, JobsAreDistinct DEF JobsProper
    <2>5. \A c \in Backtests : backtest'[c] = backtest[c]
                  \/ (c = b /\ (Proper(backtest[c]) => Proper(backtest'[c])))
      BY <1>3, <1>5 DEF Load, Begin
    <2> QED
      BY <1>2, <2>1, <2>3, <2>4, <2>5, JobsAreDistinct
  <1>6. ASSUME NEW b \in Backtests, NEW v \in Vias, SaveReport(b, v) PROVE JobsProper'
    <2>1. Finish(b, v) /\ exec[b][v].pc # "idle"
      BY <1>6 DEF SaveReport
    <2>2. \A c \in Backtests : backtest'[c] = backtest[c]
                  \/ (c = b /\ (Proper(backtest[c]) => Proper(backtest'[c])))
      BY <1>6 DEF SaveReport, JobTypes, BacktestRows, Proper
    <2> QED
      BY <1>2, <1>4, <2>1, <2>2, JobsAreDistinct DEF Finish, Stages
  <1>7. ASSUME NEW b \in Backtests, NEW v \in Vias, Insufficient(b, v) \/ RaiseBacktest(b, v)
        PROVE  JobsProper'
    <2>1. Finish(b, v) /\ exec[b][v].pc # "idle" /\ SetStatus(b, "error")
      BY <1>7 DEF Insufficient, RaiseBacktest
    <2> QED
      BY <1>2, <1>3, <1>4, <2>1, JobsAreDistinct DEF Finish, Stages
  <1>8. ASSUME NEW j \in Jobs, NEW v \in Vias, NEW pc \in Stages, exec[j][v].pc # "idle",
               UNCHANGED backtest, Goto(j, v, pc)
        PROVE  JobsProper'
    BY <1>2, <1>4, <1>8
  <1>9. ASSUME NEW b \in Backtests, NEW v \in Vias, SaveEdge(b, v) \/ LoseDatabase(b, v)
        PROVE  JobsProper'
    BY <1>8, <1>9, JobsAreDistinct DEF SaveEdge, LoseDatabase, Stages
  <1>10. ASSUME NEW j \in Jobs, NEW v \in Vias, Acknowledge(j, v) PROVE JobsProper'
    BY <1>8, <1>10 DEF Acknowledge, Stages
  <1>11. ASSUME NEW j \in Jobs, NEW v \in Vias, Drop(j, v) PROVE JobsProper'
    <2>1. exec[j][v].tries \in 0..MaxTries
      BY DEF JobsProper
    <2>2. /\ exec[j][v].pc # "idle" /\ UNCHANGED backtest
          /\ exec'[j][v].tries = exec[j][v].tries
                 \/ (exec[j][v].tries < MaxTries /\ exec'[j][v].tries = exec[j][v].tries + 1)
          /\ \A w \in Vias \ {v} : exec'[j][w] = exec[j][w]
          /\ \A i \in Jobs \ {j} : exec'[i] = exec[i]
      BY <1>11, DropGoes
    <2>3. exec'[j][v].tries \in 0..MaxTries
      BY <2>1, <2>2, ResearchAssumption
    <2> QED
      BY <1>2, <2>2, <2>3
  <1>12. ASSUME NEW m \in Models, CreateModel(m) PROVE JobsProper'
    <2>1. PICK vias : exec' = [exec EXCEPT ![m] = Handed(vias)]
      BY <1>12 DEF CreateModel
    <2>2. exec'[m] = Handed(vias) /\ \A i \in Jobs \ {m} : exec'[i] = exec[i]
      BY <2>1, JobsAreDistinct DEF JobTypes
    <2>3. UNCHANGED backtest
      BY <1>12 DEF CreateModel
    <2> QED
      BY <2>2, <2>3, HandedIsExecution, JobsAreDistinct, ResearchAssumption
      DEF JobsProper, HandedOver
  <1>13. ASSUME NEW m \in Models, NEW v \in Vias,
                BeginModel(m, v) \/ SaveModel(m, v) \/ RaiseModel(m, v)
         PROVE  JobsProper'
    <2>1. exec[m][v].pc # "idle" /\ UNCHANGED backtest /\ \E pc \in Stages : Goto(m, v, pc)
      BY <1>13 DEF BeginModel, SaveModel, RaiseModel, Finish, Stages
    <2> QED
      BY <1>8, <2>1, JobsAreDistinct
  <1>14. CASE UNCHANGED <<backtest, exec>>
    BY <1>14 DEF JobsProper, HandedOver
  <1>15. \/ \E b \in Backtests : CreateBacktest(b)
         \/ \E b \in Backtests, v \in Vias : BacktestStep(b, v) \/ LoseDatabase(b, v) \/ Drop(b, v)
         \/ \E m \in Models : CreateModel(m)
         \/ \E m \in Models, v \in Vias : ModelStep(m, v) \/ Drop(m, v)
         \/ UNCHANGED <<backtest, exec>>
    BY DEF Next, StartRoster, ValidateNext, DropRoster, StartEnsemble, ReadRecord,
           EnsembleSymbol, EndEnsemble, vars
  <1>16. ASSUME NEW b \in Backtests, NEW v \in Vias,
                BacktestStep(b, v) \/ LoseDatabase(b, v) \/ Drop(b, v)
         PROVE  JobsProper'
    BY <1>5, <1>6, <1>7, <1>9, <1>10, <1>11, <1>16, JobsAreDistinct DEF BacktestStep
  <1>17. ASSUME NEW m \in Models, NEW v \in Vias, ModelStep(m, v) \/ Drop(m, v)
         PROVE  JobsProper'
    BY <1>10, <1>11, <1>13, <1>17, JobsAreDistinct DEF ModelStep
  <1> QED
    BY <1>1, <1>12, <1>14, <1>15, <1>16, <1>17

(* Jobs touch neither the roster validation nor the ensemble.              *)
LEMMA JobsLeaveAlone ==
    ASSUME \/ \E b \in Backtests : CreateBacktest(b)
           \/ \E b \in Backtests, v \in Vias : BacktestStep(b, v) \/ LoseDatabase(b, v) \/ Drop(b, v)
           \/ \E m \in Models : CreateModel(m)
           \/ \E m \in Models, v \in Vias : ModelStep(m, v) \/ Drop(m, v)
    PROVE  UNCHANGED <<roster, ensemble, last>>
  <1>1. ASSUME NEW b \in Backtests, CreateBacktest(b) PROVE UNCHANGED <<roster, ensemble, last>>
    BY <1>1 DEF CreateBacktest
  <1>2. ASSUME NEW b \in Backtests, NEW v \in Vias,
               BacktestStep(b, v) \/ LoseDatabase(b, v) \/ Drop(b, v)
        PROVE  UNCHANGED <<roster, ensemble, last>>
    BY <1>2 DEF BacktestStep, Load, Begin, SaveEdge, SaveReport, Insufficient, RaiseBacktest,
                LoseDatabase, Acknowledge, Drop
  <1>3. ASSUME NEW m \in Models, CreateModel(m) PROVE UNCHANGED <<roster, ensemble, last>>
    BY <1>3 DEF CreateModel
  <1>4. ASSUME NEW m \in Models, NEW v \in Vias, ModelStep(m, v) \/ Drop(m, v)
        PROVE  UNCHANGED <<roster, ensemble, last>>
    BY <1>4 DEF ModelStep, BeginModel, SaveModel, RaiseModel, Acknowledge, Drop
  <1> QED
    BY <1>1, <1>2, <1>3, <1>4

LEMMA RosterStaysTyped ==
    ASSUME RosterTyped, [Next]_vars
    PROVE  RosterTyped'
  <1>1. CASE StartRoster
    <2>0. PICK covered \in SUBSET Symbols : \E data \in [covered -> Histories] :
             roster' = [todo |-> RosterOrder, data |-> data, runs |-> roster.runs + 1]
      BY <1>1 DEF StartRoster
    <2>1. PICK data \in [covered -> Histories] :
             roster' = [todo |-> RosterOrder, data |-> data, runs |-> roster.runs + 1]
      BY <2>0
    <2>2. IsFiniteSet(covered)
      BY ResearchAssumption, FS_Subset
    <2>3. /\ DOMAIN roster' = {"todo", "data", "runs"} /\ roster'.todo = RosterOrder
          /\ roster'.data = data /\ DOMAIN data = covered
      BY <2>1
    <2> QED
      BY <2>1, <2>2, <2>3, ResearchAssumption DEF RosterTyped
  <1>2. CASE ValidateNext
    <2>1. /\ roster.todo # <<>>
          /\ roster' = [roster EXCEPT !.todo = Tail(@),
                                      !.data = IF Len(roster.todo) = 1 THEN <<>> ELSE @]
      BY <1>2 DEF ValidateNext
    <2>2. /\ DOMAIN roster' = {"todo", "data", "runs"} /\ roster'.todo = Tail(roster.todo)
          /\ roster'.data = <<>> \/ roster'.data = roster.data
      BY <2>1 DEF RosterTyped
    <2>3. Tail(roster.todo) \in Seq(Scanners)
      BY <2>1 DEF RosterTyped
    <2>4. DOMAIN <<>> = {}
      OBVIOUS
    <2> QED
      BY <2>2, <2>3, <2>4, FS_EmptySet DEF RosterTyped
  <1>3. CASE DropRoster
    <2>1. /\ DOMAIN roster' = {"todo", "data", "runs"} /\ roster'.todo = <<>> /\ roster'.data = <<>>
      BY <1>3 DEF DropRoster, RosterTyped
    <2>2. DOMAIN <<>> = {} /\ <<>> \in Seq(Scanners)
      OBVIOUS
    <2> QED
      BY <2>1, <2>2, FS_EmptySet DEF RosterTyped
  <1>4. CASE UNCHANGED roster
    BY <1>4 DEF RosterTyped
  <1>5. StartRoster \/ ValidateNext \/ DropRoster \/ UNCHANGED roster
    BY JobsLeaveAlone DEF Next, StartEnsemble, ReadRecord, EnsembleSymbol, EndEnsemble, vars
  <1> QED
    BY <1>1, <1>2, <1>3, <1>4, <1>5

(* Only an ensemble run touches the ensemble and its last signal.          *)
LEMMA EnsembleStays ==
    ASSUME ResearchInv, GradeInv, Grows, [Next]_vars
    PROVE  EnsembleTyped' /\ VotersHeard'
  <1> USE DEF GradeInv
  <1> DEFINE records == ensemble.records
             Fields == {"status", "todo", "records", "left", "runs"}
  <1>1. CASE StartEnsemble
    <2>1. PICK asked : ensemble' = [status |-> "running", todo |-> asked, records |-> <<>>,
                                    left |-> Universe, runs |-> ensemble.runs + 1]
      BY <1>1 DEF StartEnsemble
    <2>2. DOMAIN ensemble' = Fields /\ ensemble'.status = "running" /\ ensemble'.records = <<>>
      BY <2>1
    <2>3. DOMAIN <<>> = {}
      OBVIOUS
    <2>4. last' = NoLast
      BY <1>1 DEF StartEnsemble
    <2> QED
      BY <2>2, <2>3, <2>4 DEF EnsembleTyped, RecordsRead, VotersHeard
  <1>2. ASSUME NEW s \in Scanners, ReadRecord(s) PROVE EnsembleTyped' /\ VotersHeard'
    <2>1. /\ s \in ensemble.todo /\ UNCHANGED <<registry, last>>
          /\ ensemble' = [ensemble EXCEPT !.todo = @ \ {s}, !.records =
                [r \in DOMAIN records \cup {s} |-> IF r = s THEN LatestEdgeRecord(s) ELSE records[r]]]
      BY <1>2 DEF ReadRecord, EnsembleTyped
    <2>2. /\ DOMAIN ensemble' = Fields /\ ensemble'.status = ensemble.status
          /\ ensemble'.records =
                [r \in DOMAIN records \cup {s} |-> IF r = s THEN LatestEdgeRecord(s) ELSE records[r]]
      BY <2>1 DEF EnsembleTyped
    <2>3. RecordsRead(ensemble'.records, registry)
      BY <2>2, LatestIsRow DEF EnsembleTyped, RecordsRead
    <2>4. last = NoLast
      BY <2>1 DEF VotersHeard
    <2> QED
      BY <2>1, <2>2, <2>3, <2>4 DEF EnsembleTyped, VotersHeard
  <1>3. CASE EnsembleSymbol
    <2>1. PICK regime \in Regimes \cup {"unknown"}, up \in BOOLEAN :
       LET voting  == {s \in DOMAIN ensemble.records : RecordWeight(s, regime) >= EdgeFloor}
           weights == [s \in voting |-> RecordWeight(s, regime)]
       IN  \E heard \in SUBSET voting : \E reply \in [heard -> Replies] :
           LET answers == {[id |-> s, result |-> reply[s].result, score |-> reply[s].score] :
                              s \in heard}
               signals == EnsembleSignal(answers, weights, regime)
           IN  /\ signals # {}
               /\ last' \in signals
               /\ ensemble' = [ensemble EXCEPT !.left = @ - 1,
                     !.status = IF last'.planned /\ ~up THEN "error" ELSE @]
      BY <1>3 DEF EnsembleSymbol
    <2> DEFINE voting  == {s \in DOMAIN records : RecordWeight(s, regime) >= EdgeFloor}
               weights == [s \in voting |-> RecordWeight(s, regime)]
    <2>0. PICK heard \in SUBSET voting : \E reply \in [heard -> Replies] :
             LET answers == {[id |-> s, result |-> reply[s].result, score |-> reply[s].score] :
                               s \in heard}
             IN  /\ last' \in EnsembleSignal(answers, weights, regime)
                 /\ ensemble' = [ensemble EXCEPT !.left = @ - 1,
                     !.status = IF last'.planned /\ ~up THEN "error" ELSE @]
      BY <2>1
    <2>2. PICK reply \in [heard -> Replies] :
             LET answers == {[id |-> s, result |-> reply[s].result, score |-> reply[s].score] :
                               s \in heard}
             IN  /\ last' \in EnsembleSignal(answers, weights, regime)
                 /\ ensemble' = [ensemble EXCEPT !.left = @ - 1,
                     !.status = IF last'.planned /\ ~up THEN "error" ELSE @]
      BY <2>0
    <2> DEFINE answers == {[id |-> s, result |-> reply[s].result, score |-> reply[s].score] :
                              s \in heard}
    <2>3. \A a \in answers : a.id \in voting
      OBVIOUS
    <2>4. last' \in EnsembleSignal(answers, weights, regime)
      BY <2>2
    <2>5. \A s \in voting : Voter(s, regime, records, registry)
      BY DEF RecordWeight, Voter
    <2>6. ensemble.todo = {} /\ UNCHANGED registry
      BY <1>3 DEF EnsembleSymbol
    <2>7. /\ DOMAIN ensemble' = Fields /\ ensemble'.records = records
          /\ ensemble'.todo = ensemble.todo
          /\ ensemble'.status \in {"none", "running", "done", "error"}
      BY <2>2 DEF EnsembleTyped
    <2> HIDE DEF voting, weights, answers
    <2>8. last'.regime = regime /\ \A s \in last'.by : \E a \in answers : a.id = s
      BY <2>4, SignalIsHeard
    <2>9. \A s \in last'.by : Voter(s, last'.regime, records, registry)
      BY <2>3, <2>5, <2>8
    <2> QED
      BY <2>6, <2>7, <2>9 DEF EnsembleTyped, VotersHeard
  <1>4. CASE EndEnsemble
    <2>1. /\ DOMAIN ensemble' = Fields /\ ensemble'.records = records
          /\ ensemble'.todo = ensemble.todo
          /\ ensemble'.status \in {"none", "running", "done", "error"}
      BY <1>4 DEF EndEnsemble, EnsembleTyped
    <2>2. UNCHANGED <<registry, last>>
      BY <1>4 DEF EndEnsemble
    <2> QED
      BY <2>1, <2>2 DEF EnsembleTyped, VotersHeard
  <1>5. CASE UNCHANGED <<ensemble, last>>
    <2>1. EnsembleTyped'
      BY <1>5, RecordsStay DEF EnsembleTyped
    <2>2. VotersHeard'
      BY <1>5, VoterStays DEF EnsembleTyped, VotersHeard
    <2> QED
      BY <2>1, <2>2
  <1>6. \/ StartEnsemble \/ (\E s \in Scanners : ReadRecord(s)) \/ EnsembleSymbol
        \/ EndEnsemble \/ UNCHANGED <<ensemble, last>>
    BY JobsLeaveAlone DEF Next, StartRoster, ValidateNext, DropRoster, vars
  <1> QED
    BY <1>1, <1>2, <1>3, <1>4, <1>5, <1>6

LEMMA GradeIsInductive ==
    /\ Init => ResearchInv /\ GradeInv
    /\ ResearchInv /\ GradeInv /\ [Next]_vars => ResearchInv' /\ GradeInv'
  <1>1. ASSUME ResearchInv, GradeInv, [Next]_vars PROVE GradeInv'
    <2>1. Grows /\ RowsGood'
      BY <1>1, RegistryGrows
    <2>2. JobsProper' /\ RosterTyped'
      BY <1>1, JobsStayProper, RosterStaysTyped DEF GradeInv
    <2>3. EnsembleTyped' /\ VotersHeard'
      BY <1>1, <2>1, EnsembleStays
    <2> QED
      BY <2>1, <2>2, <2>3 DEF GradeInv
  <1> QED
    BY <1>1, ResearchIsInductive, GradeInit

(* Every row, job and record has its shape, and no weight leaves its band. *)
THEOREM ResearchTypeCorrect == Spec => []TypeOK
  <1>1. ASSUME ResearchInv, GradeInv PROVE TypeOK
    <2>1. PICK S : registry \in Seq(S)
      BY <1>1 DEF ResearchInv, JobTypes, Listed
    <2>2. DOMAIN registry = 1..Len(registry) /\ Len(registry) \in Nat
      BY <2>1, LenProperties
    <2>3. \A s \in DOMAIN ensemble.records : ensemble.records[s] \in 0..Len(registry)
      BY <1>1, <2>2 DEF GradeInv, EnsembleTyped, RecordsRead
    <2>4. \A j \in Jobs, v \in Vias : exec[j][v].pc \in Stages
      BY <1>1 DEF ResearchInv, JobTypes, Executions, Attempts
    <2> QED
      BY <1>1, <2>3, <2>4 DEF GradeInv, RowsGood, RowGood, JobsProper, Proper, EnsembleTyped,
                              TypeOK, Stages
  <1> QED
    BY <1>1, GradeIsInductive, PTL DEF Spec

(* Whatever the scanners, the histories and the order of the writers: a    *)
(* weight above neutral stands for enough trades that made money           *)
(* (walkforward._decide, roster.blend_forward_tests, _regime_edges).       *)
THEOREM PromotionsAreEarned == Spec => []PromotionIsEarned
  <1>1. ASSUME GradeInv PROVE PromotionIsEarned
    BY <1>1 DEF GradeInv, RowsGood, RowGood, Earned, PromotionIsEarned
  <1> QED
    BY <1>1, GradeIsInductive, PTL DEF Spec

(* A scanner that lost in a regime, test by test, over thirty trades, has  *)
(* no part in an ensemble's signal of that regime.                         *)
THEOREM RetiredStaysSilent == Spec => []RetiredIsSilent
  <1>1. ASSUME ResearchInv, GradeInv PROVE RetiredIsSilent
    <2> SUFFICES ASSUME last # NoLast, NEW s \in last.by, ensemble.records[s] > 0,
                        registry[ensemble.records[s]].source = "roster",
                        last.regime \in Regimes,
                        Pooled(registry[ensemble.records[s]].tests, last.regime).n >= MinOosTrades,
                        \A x \in DOMAIN registry[ensemble.records[s]].tests :
                           LET t == registry[ensemble.records[s]].tests[x][last.regime]
                           IN  t.n > 0 => ProfitFactor(t) < Unit
                 PROVE  FALSE
      BY DEF RetiredIsSilent
    <2> DEFINE k == ensemble.records[s]
               row == registry[k]
               g == last.regime
               S == row.tests
    <2>1. Voter(s, g, ensemble.records, registry) /\ s \in DOMAIN ensemble.records
      BY <1>1 DEF GradeInv, VotersHeard, Voter
    <2>2. k # 0 /\ k \in DOMAIN registry
      BY <1>1, <2>1 DEF GradeInv, EnsembleTyped, RecordsRead
    <2>3. Tests(S) /\ row.edges = RegimeEdges(S)
      BY <1>1, <2>2 DEF GradeInv, RowsGood, RowGood
    <2>4. /\ g \in Regimes /\ Pooled(S, g).n >= MinOosTrades
          /\ \A x \in DOMAIN S : S[x][g].n > 0 => ProfitFactor(S[x][g]) < Unit
      OBVIOUS
    <2>5. EffectiveWeight(row.weight, row.edges, g) >= EdgeFloor
      BY <2>1, <2>2 DEF Voter
    <2> HIDE DEF row, g, S
    <2>6. g \in DOMAIN RegimeEdges(S) /\ RegimeEdges(S)[g] = Retired
      BY <2>3, <2>4, LosersRetire
    <2> QED
      BY <2>3, <2>5, <2>6 DEF EffectiveWeight, Retired, EdgeFloor
  <1> QED
    BY <1>1, GradeIsInductive, PTL DEF Spec

==============================================================================
