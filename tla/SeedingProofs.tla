--------------------------- MODULE SeedingProofs ---------------------------
(***************************************************************************)
(* Proofs about Seeding, for any tasks and candidates, any number of       *)
(* workers, interrupted commands, expired locks and workers ended by an    *)
(* exception.                                                              *)
(***************************************************************************)
EXTENDS Seeding, FiniteSetTheorems, TLAPS

CommandStep == {"plan", "refused", "root", "task", "candidate", "seeded", "dead"}
RowStatus == {"absent", "seeded", "running"}
ChildStep == {"candidate", "running", "execution"}
BusyStep == ChildStep \cup {"loop", "queue"}

Row == [run : Nat, cand : Cand]

\* What a worker remembers.
ChildRecord == [pc : ChildStep, task : Task, cand : Cand, todo : SUBSET Cand]
QueueRecord == [pc : {"queue"}, task : Task, row : Row, todo : SUBSET Cand]
WorkRecord ==
    {Idle} \cup [pc : {"selected"}, task : Task]
           \cup [pc : {"loop"}, task : Task, todo : SUBSET Cand]
           \cup ChildRecord \cup QueueRecord

ReportFields == {"read", "tasks", "executions", "policy", "candidates"}

TypeOK ==
    /\ cli \in [Task -> CommandStep]
    /\ treeIndex \subseteq Task /\ rootHash \subseteq Task
    /\ expanded \subseteq Task /\ lock \in [Task -> SUBSET Worker]
    /\ kids \in [Task -> SUBSET Cand]
    /\ taskRow \in [Task -> RowStatus]
    /\ candRows \subseteq Cand /\ policyRows \subseteq Cand
    /\ execRows \subseteq Row /\ IsFiniteSet(execRows)
    /\ queued \subseteq Row
    /\ work \in [Worker -> WorkRecord]
    /\ expiries \in Nat

\* A worker handles the candidates of the task it expands, and has written
\* the rows of every call behind it.
WorkerInv ==
    \A w \in Worker :
        /\ work[w].pc \in BusyStep => work[w].todo \subseteq Patches[work[w].task]
        /\ work[w].pc \in ChildStep => work[w].cand \in Patches[work[w].task]
        /\ work[w].pc \in {"running", "execution"} => work[w].cand \in candRows
        /\ work[w].pc = "queue" => work[w].row \in execRows

\* The rows refer to each other as the schema's foreign keys say.
RowsInv ==
    /\ \A t \in Task, c \in candRows : c \in Patches[t] => taskRow[t] # "absent"
    /\ \A row \in execRows : row.cand \in candRows
    /\ queued \subseteq execRows
    /\ policyRows \subseteq candRows

\* The rows are about other candidates than cs.
NoRunOf(rows, cs) == \A row \in rows : row.cand \notin cs

\* Until a lock expires, a root has one worker at a time, who finds and leaves
\* candidates without a run before it, so that each is run once.
OnceInv ==
    /\ \A w \in Worker : work[w].pc \in BusyStep =>
          lock[work[w].task] = {w} /\ NoRunOf(execRows, work[w].todo)
    /\ \A w \in Worker : work[w].pc \in ChildStep =>
          work[w].cand \notin work[w].todo /\ NoRunOf(execRows, {work[w].cand})
    /\ \A t \in Task : (lock[t] = {} /\ t \notin expanded) => NoRunOf(execRows, Patches[t])
    /\ IsFiniteSet(Candidates(execRows))
    /\ Cardinality(execRows) <= Cardinality(Candidates(execRows))

\* The counts that a report has taken so far, against the table that is
\* counted last.
ReportInv ==
    /\ IsFiniteSet(candRows)
    /\ report = [f \in ReportFields |-> report[f]]
    /\ report.read \in 0..4
    /\ report.read \in 2..4 => report.executions \in Nat
    /\ report.read \in 3..4 => report.policy \in Nat
    /\ (report.read \in 2..3 /\ expiries = 0) =>
          report.executions <= Cardinality(candRows)
    /\ report.read = 3 => report.policy <= Cardinality(candRows)
    /\ report.read = 4 =>
          /\ report.policy <= report.candidates
          /\ expiries = 0 => report.executions <= report.candidates

SeedingInv == TypeOK /\ WorkerInv /\ RowsInv

-----------------------------------------------------------------------------
(* The types and the rows                                                  *)

LEMMA SeedingInit == Init => SeedingInv
BY FS_EmptySet DEF Init, SeedingInv, TypeOK, WorkerInv, RowsInv, CommandStep,
   RowStatus, ChildStep, BusyStep, WorkRecord, Idle

\* The command: it writes the task's row, and never takes one away.
LEMMA CommandKeeps ==
    ASSUME SeedingInv, NEW t \in Task, fix_tests(t) \/ Interrupt(t)
    PROVE  SeedingInv'
<1>1. /\ UNCHANGED <<expanded, kids, lock, queued, execRows, policyRows, work,
                     candRows>>
      /\ UNCHANGED taskRow \/ taskRow' = [taskRow EXCEPT ![t] = "seeded"]
      /\ \E s \in CommandStep : cli' = [cli EXCEPT ![t] = s]
      /\ treeIndex' \subseteq treeIndex \cup {t}
      /\ rootHash' \subseteq rootHash \cup {t}
      /\ UNCHANGED expiries
  BY DEF fix_tests, Refuse, IndexTree, WriteRoot, record_task, RecordRoot,
     Interrupt, Command, redisVars, tableVars, boundVars, CommandStep
<1>2. TypeOK'
  BY <1>1 DEF SeedingInv, TypeOK, RowStatus
<1>3. WorkerInv'
  BY <1>1 DEF SeedingInv, WorkerInv
<1>4. RowsInv'
  BY <1>1 DEF SeedingInv, TypeOK, RowsInv
<1>. QED BY <1>2, <1>3, <1>4 DEF SeedingInv

\* What the record of a busy worker holds.
LEMMA BusyRecord ==
    ASSUME TypeOK, NEW w \in Worker
    PROVE  /\ work[w].pc # "idle" => work[w].task \in Task
           /\ work[w].pc \in BusyStep => work[w].todo \in SUBSET Cand
           /\ work[w].pc \in ChildStep => work[w] \in ChildRecord
           /\ work[w].pc = "queue" => work[w] \in QueueRecord
<1>1. /\ work[w] \in WorkRecord /\ Idle.pc = "idle"
      /\ BusyStep = {"candidate", "running", "execution", "loop", "queue"}
  BY DEF TypeOK, Idle, BusyStep, ChildStep
<1>. QED BY <1>1 DEF WorkRecord, ChildRecord, QueueRecord, ChildStep

\* The steps of a worker, one by one.
LEMMA ExpandKeeps ==
    ASSUME SeedingInv, NEW w \in Worker, expand(w)
    PROVE  SeedingInv'
<1>. USE DEF SeedingInv
<1>0. /\ \A t \in Task : Patches[t] \subseteq Cand
      /\ Idle \in WorkRecord /\ Idle.pc \notin BusyStep
      /\ BusyStep = {"candidate", "running", "execution", "loop", "queue"}
  BY DEF Cand, WorkRecord, Idle, BusyStep, ChildStep
<1>1. ASSUME NEW t \in Task, SelectRoot(w, t) PROVE SeedingInv'
  <2>1. [pc |-> "selected", task |-> t] \in WorkRecord
    BY DEF WorkRecord
  <2>2. TypeOK'
    BY <1>1, <2>1 DEF SelectRoot, Go, TypeOK, workerFrame, tableVars
  <2>3. WorkerInv'
    BY <1>1, <1>0 DEF SelectRoot, Go, TypeOK, WorkerInv, tableVars, ChildStep
  <2>4. RowsInv'
    BY <1>1 DEF SelectRoot, RowsInv, tableVars
  <2>. QED BY <2>2, <2>3, <2>4
<1>2. CASE StartExpansion(w)
  <2>. PICK t \in Task : t = work[w].task
    BY <1>2, BusyRecord DEF StartExpansion, Selected
  <2>1. [pc |-> "loop", task |-> t, todo |-> Patches[t]] \in WorkRecord
    BY <1>0 DEF WorkRecord
  <2>2. TypeOK'
    BY <1>2, <2>1 DEF StartExpansion, Go, TypeOK, workerFrame, tableVars
  <2>3. WorkerInv'
    BY <1>2, <1>0 DEF StartExpansion, Go, TypeOK, WorkerInv, tableVars, ChildStep
  <2>4. RowsInv'
    BY <1>2 DEF StartExpansion, RowsInv, tableVars
  <2>. QED BY <2>2, <2>3, <2>4
<1>3. CASE LeaveRoot(w)
  <2>1. TypeOK'
    BY <1>3, <1>0 DEF LeaveRoot, Go, TypeOK, workerFrame, tableVars
  <2>2. WorkerInv'
    BY <1>3, <1>0 DEF LeaveRoot, Go, TypeOK, WorkerInv, tableVars, BusyStep, Idle
  <2>3. RowsInv'
    BY <1>3 DEF LeaveRoot, RowsInv, tableVars
  <2>. QED BY <2>1, <2>2, <2>3
<1>4. CASE CreateChild(w)
  <2>1. PICK c \in work[w].todo :
           /\ kids' = [kids EXCEPT ![work[w].task] = @ \cup {c}]
           /\ Go(w, [pc |-> "candidate", task |-> work[w].task, cand |-> c,
                     todo |-> work[w].todo \ {c}])
    BY <1>4 DEF CreateChild
  <2>2. work[w].task \in Task /\ work[w].todo \subseteq Cand /\ c \in Cand
    BY <1>4, <1>0, <2>1, BusyRecord DEF CreateChild
  <2>3. [pc |-> "candidate", task |-> work[w].task, cand |-> c,
         todo |-> work[w].todo \ {c}] \in WorkRecord
    BY <2>2 DEF WorkRecord, ChildRecord, ChildStep
  <2>4. TypeOK'
    BY <1>4, <2>1, <2>2, <2>3 DEF CreateChild, Go, TypeOK, workerFrame, tableVars
  <2>5. WorkerInv'
    <3>1. c \in Patches[work[w].task] /\ work[w].todo \subseteq Patches[work[w].task]
      BY <1>4, <1>0, <2>1 DEF CreateChild, WorkerInv
    <3>. QED BY <1>4, <1>0, <2>1, <3>1
         DEF CreateChild, Go, TypeOK, WorkerInv, tableVars, ChildStep
  <2>6. RowsInv'
    BY <1>4 DEF CreateChild, RowsInv, tableVars
  <2>. QED BY <2>4, <2>5, <2>6
<1>5. CASE RecordCandidate(w)
  <2>1. /\ work[w].pc = "candidate"
        /\ work[w] \in ChildRecord
        /\ work[w].cand \in Patches[work[w].task]
        /\ taskRow[work[w].task] # "absent"
    BY <1>5, BusyRecord DEF RecordCandidate, TaskReference, WorkerInv, ChildStep
  <2>2. [work[w] EXCEPT !.pc = "running"] \in WorkRecord
    BY <2>1 DEF WorkRecord, ChildRecord, ChildStep
  <2>3. TypeOK'
    BY <1>5, <2>1, <2>2 DEF RecordCandidate, Go, TypeOK, workerFrame, ChildRecord
  <2>4. WorkerInv'
    BY <1>5, <1>0, <2>1 DEF RecordCandidate, Go, TypeOK, WorkerInv, ChildStep,
       ChildRecord
  <2>5. \A t \in Task : work[w].cand \in Patches[t] => t = work[w].task
    BY <2>1, SeedingAssumption DEF ChildRecord
  <2>6. RowsInv'
    BY <1>5, <2>1, <2>5 DEF RecordCandidate, RowsInv
  <2>. QED BY <2>3, <2>4, <2>6
<1>6. CASE CandidateRefused(w)
  <2>1. work[w].task \in Task
    BY <1>6, BusyRecord DEF CandidateRefused
  <2>2. TypeOK'
    BY <1>6, <1>0, <2>1
    DEF CandidateRefused, Release, Go, TypeOK, workerFrame, tableVars
  <2>3. WorkerInv'
    BY <1>6, <1>0 DEF CandidateRefused, Go, TypeOK, WorkerInv, tableVars, BusyStep,
       Idle
  <2>4. RowsInv'
    BY <1>6 DEF CandidateRefused, RowsInv, tableVars
  <2>. QED BY <2>2, <2>3, <2>4
<1>7. CASE MarkRunning(w)
  <2>1. work[w].pc = "running" /\ work[w] \in ChildRecord
    BY <1>7, BusyRecord DEF MarkRunning, ChildStep
  <2>2. [work[w] EXCEPT !.pc = "execution"] \in WorkRecord
    BY <2>1 DEF WorkRecord, ChildRecord, ChildStep
  <2>3. /\ taskRow' \in [Task -> RowStatus]
        /\ \A t \in Task : taskRow[t] # "absent" => taskRow'[t] # "absent"
    BY <1>7, <2>1 DEF MarkRunning, TypeOK, RowStatus
  <2>4. TypeOK'
    BY <1>7, <2>2, <2>3 DEF MarkRunning, Go, TypeOK, workerFrame
  <2>5. WorkerInv'
    BY <1>7, <1>0, <2>1 DEF MarkRunning, Go, TypeOK, WorkerInv, ChildStep, ChildRecord
  <2>6. RowsInv'
    BY <1>7, <2>3 DEF MarkRunning, RowsInv
  <2>. QED BY <2>4, <2>5, <2>6
<1>8. CASE RecordExecution(w)
  <2>1. /\ work[w].pc = "execution" /\ work[w] \in ChildRecord
        /\ work[w].cand \in candRows
    BY <1>8, BusyRecord DEF RecordExecution, WorkerInv, ChildStep
  <2>2. PICK row : row = [run |-> Cardinality(execRows), cand |-> work[w].cand]
    OBVIOUS
  <2>3. row \in Row /\ row.cand = work[w].cand /\ IsFiniteSet(execRows \cup {row})
    <3>1. IsFiniteSet(execRows) /\ work[w].cand \in Cand
      BY <2>1 DEF TypeOK, ChildRecord
    <3>2. Cardinality(execRows) \in Nat /\ IsFiniteSet(execRows \cup {row})
      BY <3>1, FS_CardinalityType, FS_AddElement
    <3>. QED BY <2>2, <3>1, <3>2 DEF Row
  <2>4. [pc |-> "queue", task |-> work[w].task, row |-> row, todo |-> work[w].todo]
           \in WorkRecord
    BY <2>1, <2>3 DEF WorkRecord, QueueRecord, ChildRecord
  <2>5. /\ execRows' = execRows \cup {row}
        /\ Go(w, [pc |-> "queue", task |-> work[w].task, row |-> row,
                  todo |-> work[w].todo])
    BY <1>8, <2>2 DEF RecordExecution
  <2>6. TypeOK'
    BY <1>8, <2>3, <2>4, <2>5 DEF RecordExecution, Go, TypeOK, workerFrame
  <2>7. WorkerInv'
    BY <1>8, <1>0, <2>1, <2>5 DEF RecordExecution, Go, TypeOK, WorkerInv, ChildStep
  <2>8. RowsInv'
    BY <1>8, <2>1, <2>3, <2>5 DEF RecordExecution, RowsInv
  <2>. QED BY <2>6, <2>7, <2>8
<1>9. CASE QueueExecution(w)
  <2>1. /\ work[w].pc = "queue" /\ work[w] \in QueueRecord
        /\ work[w].row \in execRows
    BY <1>9, BusyRecord DEF QueueExecution, WorkerInv
  <2>2. [pc |-> "loop", task |-> work[w].task, todo |-> work[w].todo] \in WorkRecord
    BY <2>1 DEF WorkRecord, QueueRecord
  <2>3. TypeOK'
    BY <1>9, <2>1, <2>2 DEF QueueExecution, Go, TypeOK, workerFrame, tableVars,
       QueueRecord
  <2>4. WorkerInv'
    BY <1>9, <1>0, <2>1 DEF QueueExecution, Go, TypeOK, WorkerInv, ChildStep, tableVars
  <2>5. RowsInv'
    BY <1>9, <2>1 DEF QueueExecution, RowsInv, tableVars
  <2>. QED BY <2>3, <2>4, <2>5
<1>10. CASE FinishExpansion(w)
  <2>1. work[w].task \in Task
    BY <1>10, BusyRecord DEF FinishExpansion
  <2>2. TypeOK'
    BY <1>10, <1>0, <2>1
    DEF FinishExpansion, Release, Go, TypeOK, workerFrame, tableVars
  <2>3. WorkerInv'
    BY <1>10, <1>0 DEF FinishExpansion, Go, TypeOK, WorkerInv, tableVars, BusyStep,
       Idle
  <2>4. RowsInv'
    BY <1>10 DEF FinishExpansion, RowsInv, tableVars
  <2>. QED BY <2>2, <2>3, <2>4
<1>. QED BY <1>1, <1>2, <1>3, <1>4, <1>5, <1>6, <1>7, <1>8, <1>9, <1>10 DEF expand

LEMMA SeedingStep ==
    ASSUME SeedingInv, [Next]_vars
    PROVE  SeedingInv'
<1>1. CASE \E t \in Task : fix_tests(t) \/ Interrupt(t)
  BY <1>1, CommandKeeps
<1>2. CASE \E w \in Worker : expand(w)
  BY <1>2, ExpandKeeps
<1>3. CASE \E c \in Cand : record_policy_decision(c)
  BY <1>3 DEF record_policy_decision, Candidates, SeedingInv, TypeOK, WorkerInv,
     RowsInv, redisVars, boundVars
<1>4. CASE \E t \in Task : LockExpires(t)
  BY <1>4 DEF LockExpires, SeedingInv, TypeOK, WorkerInv, RowsInv, tableVars
<1>5. CASE UNCHANGED <<cli, redisVars, tableVars, work, boundVars>>
  BY <1>5 DEF SeedingInv, TypeOK, WorkerInv, RowsInv, redisVars, tableVars, boundVars
<1>. QED BY <1>1, <1>2, <1>3, <1>4, <1>5
     DEF Next, performance_snapshot, SendReport, vars

\* However early a worker sees a task, and wherever the command that seeds it
\* is interrupted, an entry of the dispatch stream has its candidate, its
\* execution and its task in the ledger (fix_tests of omega_cli.py against
\* expand of forest_worker.py).
THEOREM QueuedRecorded == Spec => []QueuedIsRecorded
<1>1. SeedingInv => QueuedIsRecorded
  <2>. SUFFICES ASSUME SeedingInv, NEW q \in queued
       PROVE  /\ q \in execRows /\ q.cand \in candRows
              /\ taskRow[TaskOf(q.cand)] # "absent"
    BY DEF QueuedIsRecorded
  <2>1. q \in execRows /\ q.cand \in candRows /\ q.cand \in Cand
    BY DEF SeedingInv, RowsInv, TypeOK
  <2>2. \E t \in Task : q.cand \in Patches[t]
    BY <2>1 DEF Cand
  <2>3. TaskOf(q.cand) \in Task /\ q.cand \in Patches[TaskOf(q.cand)]
    BY <2>2 DEF TaskOf
  <2>. QED BY <2>1, <2>3 DEF SeedingInv, RowsInv
<1>. QED BY <1>1, SeedingInit, SeedingStep, PTL DEF Spec

-----------------------------------------------------------------------------
(* Until a lock expires, each candidate is run once                        *)

\* What the steps of others leave as it was.
LEMMA OnceFrame ==
    ASSUME OnceInv,
           UNCHANGED <<work, lock, expanded, execRows>>
    PROVE  OnceInv'
BY DEF OnceInv, NoRunOf, Candidates

\* A worker alone at its root finds none of its candidates run by another.
LEMMA OnceExpand ==
    ASSUME SeedingInv, OnceInv, NEW w \in Worker, expand(w)
    PROVE  OnceInv'
<1>. USE DEF SeedingInv
<1>0. /\ Idle.pc \notin BusyStep
      /\ BusyStep = {"candidate", "running", "execution", "loop", "queue"}
      /\ ChildStep = {"candidate", "running", "execution"}
      /\ work \in [Worker -> WorkRecord]
      /\ lock \in [Task -> SUBSET Worker]
  BY DEF Idle, BusyStep, ChildStep, TypeOK
<1>1. ASSUME \E t \in Task : SelectRoot(w, t) PROVE OnceInv'
  <2>1. /\ \A v \in Worker \ {w} : work'[v] = work[v]
        /\ work'[w].pc = "selected"
        /\ UNCHANGED <<lock, expanded, execRows>>
    BY <1>0, <1>1 DEF SelectRoot, Go, tableVars
  <2>. QED BY <1>0, <2>1 DEF OnceInv, NoRunOf, Candidates
<1>2. CASE StartExpansion(w)
  <2>1. PICK t \in Task : t = work[w].task
    BY <1>2, BusyRecord DEF StartExpansion, Selected
  <2>2. /\ \A v \in Worker \ {w} : work'[v] = work[v]
        /\ work'[w] = [pc |-> "loop", task |-> t, todo |-> Patches[t]]
        /\ lock[t] = {} /\ t \notin expanded
        /\ lock'[t] = {w} /\ \A u \in Task \ {t} : lock'[u] = lock[u]
        /\ UNCHANGED <<expanded, execRows>>
    BY <1>0, <1>2, <2>1 DEF StartExpansion, Go, tableVars
  <2>3. \A v \in Worker : work[v].pc \in BusyStep =>
           work[v].task \in Task \ {t}
    BY <1>0, <2>2, BusyRecord DEF OnceInv
  <2>4. NoRunOf(execRows, Patches[t])
    BY <2>2 DEF OnceInv
  <2>5. \A cs : NoRunOf(execRows, cs) => NoRunOf(execRows', cs)
    BY <2>2 DEF NoRunOf
  <2>6. \A v \in Worker : work'[v].pc \in BusyStep =>
           lock'[work'[v].task] = {v} /\ NoRunOf(execRows', work'[v].todo)
    BY <1>0, <2>2, <2>3, <2>4, <2>5 DEF OnceInv
  <2>7. \A v \in Worker : work'[v].pc \in ChildStep =>
           v # w /\ work'[v].cand \notin work'[v].todo /\ NoRunOf(execRows', {work'[v].cand})
    BY <1>0, <2>2, <2>5 DEF OnceInv
  <2>. QED BY <2>2, <2>5, <2>6, <2>7 DEF OnceInv, Candidates
<1>3. CASE LeaveRoot(w)
  <2>1. /\ \A v \in Worker \ {w} : work'[v] = work[v]
        /\ work'[w].pc \notin BusyStep
        /\ UNCHANGED <<lock, expanded, execRows>>
    BY <1>0, <1>3 DEF LeaveRoot, Go, tableVars
  <2>. QED BY <1>0, <2>1 DEF OnceInv, NoRunOf, Candidates
<1>4. CASE CreateChild(w)
  <2>1. PICK c \in work[w].todo :
           Go(w, [pc |-> "candidate", task |-> work[w].task, cand |-> c,
                  todo |-> work[w].todo \ {c}])
    BY <1>4 DEF CreateChild
  <2>2. /\ \A v \in Worker \ {w} : work'[v] = work[v]
        /\ work'[w] = [pc |-> "candidate", task |-> work[w].task, cand |-> c,
                       todo |-> work[w].todo \ {c}]
        /\ work[w].pc = "loop"
        /\ UNCHANGED <<lock, expanded, execRows>>
    BY <1>0, <1>4, <2>1 DEF CreateChild, Go, tableVars
  <2>3. lock[work[w].task] = {w} /\ NoRunOf(execRows, work[w].todo)
    BY <1>0, <2>2 DEF OnceInv
  <2>. QED BY <1>0, <2>1, <2>2, <2>3 DEF OnceInv, NoRunOf, Candidates
<1>5. CASE RecordCandidate(w) \/ MarkRunning(w)
  <2>1. /\ work[w].pc \in ChildStep /\ work[w] \in ChildRecord
        /\ \A v \in Worker \ {w} : work'[v] = work[v]
        /\ \E q \in {"running", "execution"} : work'[w] = [work[w] EXCEPT !.pc = q]
        /\ UNCHANGED <<lock, expanded, execRows>>
    BY <1>0, <1>5, BusyRecord DEF RecordCandidate, MarkRunning, Go
  <2>2. /\ work'[w].pc \in ChildStep /\ work'[w].task = work[w].task
        /\ work'[w].cand = work[w].cand /\ work'[w].todo = work[w].todo
    BY <1>0, <2>1 DEF ChildRecord
  <2>3. /\ lock[work[w].task] = {w} /\ NoRunOf(execRows, work[w].todo)
        /\ work[w].cand \notin work[w].todo /\ NoRunOf(execRows, {work[w].cand})
    BY <1>0, <2>1 DEF OnceInv
  <2>4. \A v \in Worker : work'[v].pc \in BusyStep =>
           lock'[work'[v].task] = {v} /\ NoRunOf(execRows', work'[v].todo)
    BY <2>1, <2>2, <2>3 DEF OnceInv
  <2>5. \A v \in Worker : work'[v].pc \in ChildStep =>
           /\ work'[v].cand \notin work'[v].todo
           /\ NoRunOf(execRows', {work'[v].cand})
    BY <2>1, <2>2, <2>3 DEF OnceInv
  <2>. QED BY <2>1, <2>4, <2>5 DEF OnceInv
<1>6. CASE CandidateRefused(w) \/ FinishExpansion(w)
  <2>1. PICK t \in Task : t = work[w].task
    BY <1>6, <1>0, BusyRecord DEF CandidateRefused, FinishExpansion
  <2>2. /\ \A v \in Worker \ {w} : work'[v] = work[v]
        /\ work'[w].pc \notin BusyStep
        /\ work[w].pc \in BusyStep
        /\ lock' = [lock EXCEPT ![t] = @ \ {w}]
        /\ expanded \subseteq expanded'
        /\ UNCHANGED execRows
    BY <1>0, <1>6, <2>1 DEF CandidateRefused, FinishExpansion, Release, Go, tableVars
  <2>3. lock[t] = {w}
    BY <2>1, <2>2 DEF OnceInv
  <2>4. lock'[t] = {} /\ \A u \in Task \ {t} : lock'[u] = lock[u]
    BY <1>0, <2>2, <2>3
  <2>5. \A v \in Worker \ {w} : work[v].pc \in BusyStep => work[v].task \in Task \ {t}
    BY <1>0, <2>3, BusyRecord DEF OnceInv
  <2>6. t \in expanded' \/ NoRunOf(execRows, Patches[t])
    <3>1. CASE FinishExpansion(w)
      BY <3>1, <2>1 DEF FinishExpansion
    <3>2. CASE CandidateRefused(w)
      <4>1. taskRow[t] = "absent"
        BY <3>2, <2>1 DEF CandidateRefused, TaskReference
      <4>. QED BY <4>1 DEF RowsInv, NoRunOf
    <3>. QED BY <1>6, <3>1, <3>2
  <2>7. \A cs : NoRunOf(execRows, cs) => NoRunOf(execRows', cs)
    BY <2>2 DEF NoRunOf
  <2>8. \A v \in Worker : work'[v].pc \in BusyStep =>
           lock'[work'[v].task] = {v} /\ NoRunOf(execRows', work'[v].todo)
    BY <2>2, <2>4, <2>5, <2>7 DEF OnceInv
  <2>9. \A v \in Worker : work'[v].pc \in ChildStep =>
           work'[v].cand \notin work'[v].todo /\ NoRunOf(execRows', {work'[v].cand})
    BY <1>0, <2>2, <2>7 DEF OnceInv
  <2>10. \A u \in Task : (lock'[u] = {} /\ u \notin expanded') => NoRunOf(execRows', Patches[u])
    BY <2>2, <2>4, <2>6, <2>7 DEF OnceInv
  <2>. QED BY <2>2, <2>8, <2>9, <2>10 DEF OnceInv, Candidates
<1>7. CASE RecordExecution(w)
  <2>1. /\ work[w].pc = "execution" /\ work[w] \in ChildRecord
        /\ work[w].cand \in Patches[work[w].task] /\ work[w].task \in Task
        /\ lock[work[w].task] = {w}
        /\ work[w].cand \notin work[w].todo /\ NoRunOf(execRows, {work[w].cand})
        /\ NoRunOf(execRows, work[w].todo)
    BY <1>0, <1>7, BusyRecord DEF RecordExecution, WorkerInv, OnceInv, ChildRecord
  <2>2. PICK row : row = [run |-> Cardinality(execRows), cand |-> work[w].cand]
    OBVIOUS
  <2>3. row.cand = work[w].cand
    BY <2>2
  <2>4. /\ execRows' = execRows \cup {row}
        /\ \A v \in Worker \ {w} : work'[v] = work[v]
        /\ work'[w] = [pc |-> "queue", task |-> work[w].task, row |-> row,
                       todo |-> work[w].todo]
        /\ UNCHANGED <<lock, expanded>>
    BY <1>0, <1>7, <2>2 DEF RecordExecution, Go
  <2>5. \A cs : (NoRunOf(execRows, cs) /\ work[w].cand \notin cs) => NoRunOf(execRows', cs)
    BY <2>3, <2>4 DEF NoRunOf
  <2>6. \A u \in Task \ {work[w].task} : work[w].cand \notin Patches[u]
    BY <2>1, SeedingAssumption
  <2>7. ASSUME NEW v \in Worker \ {w}, work[v].pc \in BusyStep
        PROVE  /\ work[v].task \in Task \ {work[w].task}
               /\ work[w].cand \notin work[v].todo
               /\ work[v].pc \in ChildStep => work[w].cand # work[v].cand
    <3>1. work[v].task \in Task /\ lock[work[v].task] = {v}
      BY <1>0, <2>7, BusyRecord DEF OnceInv
    <3>. QED BY <2>1, <2>6, <2>7, <3>1 DEF WorkerInv
  <2>8. \A v \in Worker : work'[v].pc \in BusyStep =>
           lock'[work'[v].task] = {v} /\ NoRunOf(execRows', work'[v].todo)
    <3>1. ASSUME NEW v \in Worker \ {w}, work[v].pc \in BusyStep
          PROVE  lock'[work'[v].task] = {v} /\ NoRunOf(execRows', work'[v].todo)
      BY <3>1, <2>4, <2>5, <2>7 DEF OnceInv
    <3>2. lock'[work'[w].task] = {w} /\ NoRunOf(execRows', work'[w].todo)
      BY <2>1, <2>4, <2>5
    <3>. QED BY <3>1, <3>2, <2>4
  <2>9. \A v \in Worker : work'[v].pc \in ChildStep =>
           work'[v].cand \notin work'[v].todo /\ NoRunOf(execRows', {work'[v].cand})
    <3>1. ASSUME NEW v \in Worker \ {w}, work[v].pc \in ChildStep
          PROVE  work'[v].cand \notin work'[v].todo /\ NoRunOf(execRows', {work'[v].cand})
      <4>1. /\ work[w].cand # work[v].cand /\ work[v].cand \notin work[v].todo
            /\ NoRunOf(execRows, {work[v].cand})
        BY <3>1, <1>0, <2>7 DEF OnceInv
      <4>. QED BY <4>1, <2>4, <2>5
    <3>2. work'[w].pc \notin ChildStep
      BY <1>0, <2>4
    <3>. QED BY <3>1, <3>2, <2>4
  <2>10. \A u \in Task : (lock'[u] = {} /\ u \notin expanded') => NoRunOf(execRows', Patches[u])
    BY <2>1, <2>4, <2>5, <2>6 DEF OnceInv
  <2>11. /\ IsFiniteSet(Candidates(execRows'))
         /\ Cardinality(execRows') <= Cardinality(Candidates(execRows'))
    <3>1. /\ Candidates(execRows') = Candidates(execRows) \cup {work[w].cand}
          /\ work[w].cand \notin Candidates(execRows)
      BY <2>1, <2>3, <2>4 DEF Candidates, NoRunOf
    <3>2. IsFiniteSet(execRows) /\ IsFiniteSet(Candidates(execRows))
      BY DEF OnceInv, TypeOK
    <3>3. Cardinality(execRows) \in Nat /\ Cardinality(Candidates(execRows)) \in Nat
      BY <3>2, FS_CardinalityType
    <3>4. Cardinality(execRows') = IF row \in execRows THEN Cardinality(execRows)
                                   ELSE Cardinality(execRows) + 1
      BY <2>4, <3>2, FS_AddElement
    <3>5. /\ IsFiniteSet(Candidates(execRows'))
          /\ Cardinality(Candidates(execRows')) = Cardinality(Candidates(execRows)) + 1
      BY <3>1, <3>2, FS_AddElement
    <3>. QED BY <3>3, <3>4, <3>5 DEF OnceInv
  <2>. QED BY <2>8, <2>9, <2>10, <2>11 DEF OnceInv, Candidates
<1>8. CASE QueueExecution(w)
  <2>1. /\ \A v \in Worker \ {w} : work'[v] = work[v]
        /\ work'[w] = [pc |-> "loop", task |-> work[w].task, todo |-> work[w].todo]
        /\ work[w].pc = "queue"
        /\ UNCHANGED <<lock, expanded, execRows>>
    BY <1>0, <1>8 DEF QueueExecution, Go, tableVars
  <2>. QED BY <1>0, <2>1 DEF OnceInv, NoRunOf, Candidates
<1>. QED BY <1>1, <1>2, <1>3, <1>4, <1>5, <1>6, <1>7, <1>8 DEF expand

LEMMA OnceStep ==
    ASSUME SeedingInv, expiries = 0 => OnceInv, [Next]_vars, expiries' = 0
    PROVE  expiries = 0 /\ OnceInv'
<1>1. ~(\E t \in Task : LockExpires(t))
  BY DEF LockExpires, SeedingInv, TypeOK
<1>2. expiries = 0
  BY <1>1 DEF Next, vars, boundVars, fix_tests, Refuse, IndexTree, WriteRoot,
     record_task, RecordRoot, Command, Interrupt, expand, SelectRoot,
     StartExpansion, LeaveRoot, CreateChild, RecordCandidate, CandidateRefused,
     MarkRunning, RecordExecution, QueueExecution, FinishExpansion, workerFrame,
     record_policy_decision, performance_snapshot, SendReport
<1>3. CASE \E w \in Worker : expand(w)
  BY <1>2, <1>3, OnceExpand
<1>4. CASE UNCHANGED <<work, lock, expanded, execRows>>
  BY <1>2, <1>4, OnceFrame
<1>. QED BY <1>1, <1>2, <1>3, <1>4
     DEF Next, vars, redisVars, tableVars, fix_tests, Refuse, IndexTree, WriteRoot,
         record_task, RecordRoot, Command, Interrupt, record_policy_decision,
         performance_snapshot, SendReport

-----------------------------------------------------------------------------
(* Reports                                                                 *)

\* A step writes at most one row of a candidate.
LEMMA RowsGrow ==
    ASSUME [Next]_vars, IsFiniteSet(candRows)
    PROVE  /\ candRows \subseteq candRows'
           /\ IsFiniteSet(candRows')
           /\ Cardinality(candRows) \in Nat
           /\ Cardinality(candRows') \in Nat
           /\ Cardinality(candRows) <= Cardinality(candRows')
<1>1. \/ UNCHANGED candRows
      \/ \E w \in Worker : candRows' = candRows \cup {work[w].cand}
  BY DEF Next, vars, tableVars, fix_tests, Refuse, IndexTree, WriteRoot,
     record_task, RecordRoot, Interrupt, LockExpires, expand, SelectRoot,
     StartExpansion, LeaveRoot, CreateChild, RecordCandidate, CandidateRefused,
     MarkRunning, RecordExecution, QueueExecution, FinishExpansion,
     record_policy_decision, performance_snapshot, SendReport
<1>2. candRows \subseteq candRows' /\ IsFiniteSet(candRows')
  BY <1>1, FS_AddElement
<1>. QED BY <1>2, FS_Subset, FS_CardinalityType

LEMMA ReportStep ==
    ASSUME SeedingInv, expiries = 0 => OnceInv, ReportInv, [Next]_vars
    PROVE  ReportInv'
<1>0. /\ IsFiniteSet(candRows)
      /\ Cardinality(candRows) \in Nat
      /\ IsFiniteSet(candRows')
      /\ Cardinality(candRows') \in Nat
      /\ Cardinality(candRows) <= Cardinality(candRows')
  BY RowsGrow DEF ReportInv
<1>5. expiries' = 0 => expiries = 0
  BY OnceStep
<1>1. CASE performance_snapshot
  <2>1. UNCHANGED <<candRows, execRows, policyRows, taskRow, expiries>>
    BY <1>1 DEF performance_snapshot, tableVars, boundVars
  <2>2. /\ Cardinality(execRows) \in Nat
        /\ expiries = 0 => Cardinality(execRows) <= Cardinality(candRows)
        /\ Cardinality(policyRows) \in Nat
        /\ Cardinality(policyRows) <= Cardinality(candRows)
    <3>1. Candidates(execRows) \subseteq candRows /\ policyRows \subseteq candRows
      BY DEF SeedingInv, RowsInv, Candidates
    <3>2. /\ Cardinality(policyRows) \in Nat
          /\ Cardinality(policyRows) <= Cardinality(candRows)
          /\ Cardinality(Candidates(execRows)) \in Nat
          /\ Cardinality(Candidates(execRows)) <= Cardinality(candRows)
      BY <3>1, <1>0, FS_Subset, FS_CardinalityType
    <3>3. Cardinality(execRows) \in Nat
      BY FS_CardinalityType DEF SeedingInv, TypeOK
    <3>. QED BY <1>0, <3>2, <3>3 DEF OnceInv
  <2>3. /\ report = [f \in ReportFields |-> report[f]]
        /\ report.read \in 0..3
    BY <1>1 DEF performance_snapshot, ReportInv, SnapshotOrder
  <2>4. ASSUME NEW part \in ReportFields \ {"read"}, SnapshotOrder[report.read + 1] = part
        PROVE  report' = [f \in ReportFields |-> IF f = part THEN Count[part] ELSE
                            IF f = "read" THEN report.read + 1 ELSE report[f]]
    BY <2>4, <1>1, <2>3 DEF performance_snapshot, ReportFields
  <2>5. CASE report.read = 0
    <3>1. SnapshotOrder[report.read + 1] = "tasks"
      BY <2>5 DEF SnapshotOrder
    <3>2. report' = [f \in ReportFields |-> IF f = "tasks" THEN Count["tasks"] ELSE
                      IF f = "read" THEN 1 ELSE report[f]]
      BY <2>4, <3>1, <2>5 DEF ReportFields
    <3>3. report'.read = 1 /\ report'.executions = report.executions
          /\ report'.policy = report.policy
          /\ report'.candidates = report.candidates
          /\ report' = [f \in ReportFields |-> report'[f]]
      BY <3>2 DEF ReportFields, Count
    <3>. QED BY <1>0, <2>1, <2>2, <2>5, <3>3 DEF ReportInv
  <2>6. CASE report.read = 1
    <3>1. SnapshotOrder[report.read + 1] = "executions"
      BY <2>6 DEF SnapshotOrder
    <3>2. report' = [f \in ReportFields |-> IF f = "executions" THEN Count["executions"] ELSE
                      IF f = "read" THEN 2 ELSE report[f]]
      BY <2>4, <3>1, <2>6 DEF ReportFields
    <3>3. report'.read = 2 /\ report'.executions = Cardinality(execRows)
          /\ report'.policy = report.policy
          /\ report'.candidates = report.candidates
          /\ report' = [f \in ReportFields |-> report'[f]]
      BY <3>2 DEF ReportFields, Count
    <3>. QED BY <1>0, <2>1, <2>2, <2>6, <3>3 DEF ReportInv
  <2>7. CASE report.read = 2
    <3>1. SnapshotOrder[report.read + 1] = "policy"
      BY <2>7 DEF SnapshotOrder
    <3>2. report' = [f \in ReportFields |-> IF f = "policy" THEN Count["policy"] ELSE
                      IF f = "read" THEN 3 ELSE report[f]]
      BY <2>4, <3>1, <2>7 DEF ReportFields
    <3>3. report'.read = 3 /\ report'.executions = report.executions
          /\ report'.policy = Cardinality(policyRows)
          /\ report'.candidates = report.candidates
          /\ report' = [f \in ReportFields |-> report'[f]]
      BY <3>2 DEF ReportFields, Count
    <3>. QED BY <1>0, <2>1, <2>2, <2>7, <3>3 DEF ReportInv
  <2>8. CASE report.read = 3
    <3>1. SnapshotOrder[report.read + 1] = "candidates"
      BY <2>8 DEF SnapshotOrder
    <3>2. report' = [f \in ReportFields |-> IF f = "candidates" THEN Count["candidates"] ELSE
                      IF f = "read" THEN 4 ELSE report[f]]
      BY <2>4, <3>1, <2>8 DEF ReportFields
    <3>3. report'.read = 4 /\ report'.executions = report.executions
          /\ report'.policy = report.policy
          /\ report'.candidates = Cardinality(candRows)
          /\ report' = [f \in ReportFields |-> report'[f]]
      BY <3>2 DEF ReportFields, Count
    <3>. QED BY <1>0, <2>1, <2>2, <2>8, <3>3 DEF ReportInv
  <2>. QED BY <2>3, <2>5, <2>6, <2>7, <2>8
<1>2. CASE SendReport
  BY <1>0, <1>2 DEF SendReport, ReportInv, NoReport, ReportFields
<1>3. CASE UNCHANGED report
  BY <1>0, <1>3, <1>5 DEF ReportInv
<1>4. performance_snapshot \/ SendReport \/ UNCHANGED report
  BY DEF Next, vars, fix_tests, Refuse, IndexTree, WriteRoot, record_task,
     RecordRoot, Command, Interrupt, LockExpires, expand, SelectRoot,
     StartExpansion, LeaveRoot, CreateChild, RecordCandidate, CandidateRefused,
     MarkRunning, RecordExecution, QueueExecution, FinishExpansion, workerFrame,
     record_policy_decision
<1>. QED BY <1>1, <1>2, <1>3, <1>4

\* A report counts the tables one SELECT after the other while rows are
\* written: because performance_snapshot counts the candidates last, it never
\* shows more policy decisions than candidates, nor more executions until a
\* lock expires, although an execution is a row of its own for each run.
THEOREM ReportsAddUp == Spec => []ReportAddsUp
<1>. DEFINE Inv == SeedingInv /\ (expiries = 0 => OnceInv) /\ ReportInv
<1>1. Init => ReportInv
  BY FS_EmptySet DEF Init, ReportInv, NoReport, ReportFields
<1>2. Init => OnceInv
  <2>. SUFFICES ASSUME Init PROVE OnceInv
    OBVIOUS
  <2>1. execRows = {} /\ Candidates(execRows) = {} /\ IsFiniteSet({})
    BY FS_EmptySet DEF Init, Candidates
  <2>2. Cardinality(execRows) <= Cardinality(Candidates(execRows))
    BY <2>1, FS_EmptySet
  <2>. QED BY <2>1, <2>2 DEF Init, OnceInv, NoRunOf, Idle, BusyStep, ChildStep
<1>3. Inv /\ [Next]_vars => Inv'
  BY SeedingStep, OnceStep, ReportStep
<1>4. Inv => ReportAddsUp
  BY DEF ReportInv, ReportAddsUp, SnapshotOrder
<1>. HIDE DEF Inv
<1>. QED
  <2>1. Init => Inv
    BY <1>1, <1>2, SeedingInit DEF Inv
  <2>. QED BY <1>3, <1>4, <2>1, PTL DEF Spec
=============================================================================
