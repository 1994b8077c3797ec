------------------------------ MODULE Seeding ------------------------------
(***************************************************************************)
(* fix_tests of control_plane/omega_cli.py puts a task first where workers *)
(* find it (Redis) and then into the ledger (Postgres), whose tables are   *)
(* tied by foreign keys (SCHEMA_SQL of metadata_store.py).  Workers run    *)
(* meanwhile and expand the root as soon as they see it; the command may   *)
(* be interrupted between any two steps.  Reports (performance_snapshot)   *)
(* count the tables one after the other.                                   *)
(*                                                                         *)
(* Of the search only the expansion of the root is followed: once the root *)
(* has a child, selection never returns the root again.  ForestWorker has  *)
(* the loop in full; there, a release that deletes the lock of another     *)
(* worker is a step of its own, here it is one more way to expire.         *)
(***************************************************************************)
EXTENDS Naturals, FiniteSets, Sequences

CONSTANTS Task,         \* tasks, each seeded by one run of the command
          Solved,       \* tasks whose tests do not fail
          Patches,      \* per task, the candidates found at its root
          Worker,
          MaxDeaths,    \* bound on interrupted commands
          MaxExpiries,  \* bound on locks that expire during an expansion
          MaxRaises     \* bound on workers ended by an exception

Cand == UNION {Patches[t] : t \in Task}
TaskOf(c) == CHOOSE t \in Task : c \in Patches[t]

ASSUME SeedingAssumption ==
    \A t, u \in Task : t # u => Patches[t] \cap Patches[u] = {}

VARIABLES cli,          \* per task, how far its command has come
          treeIndex,    \* the set omega:tree:index
          rootHash,     \* tasks whose root hash is written
          expanded,     \* roots marked expanded
          kids,         \* per task, the children set of its root
          lock,         \* per task, the worker whose lock its root has, if any
          taskRow,      \* rows of tasks: their status, or "absent"
          candRows,     \* rows of candidates, but for the roots
          execRows,     \* rows of executions: run_id and candidate
          policyRows,   \* rows of policy_decisions, by their candidates
          queued,       \* entries of the dispatch stream: run_id and candidate
          work,         \* per worker, what it is doing
          report,       \* the report being made
          deaths, expiries, raises

redisVars == <<treeIndex, rootHash, expanded, kids, lock, queued>>
tableVars == <<taskRow, candRows, execRows, policyRows>>
boundVars == <<deaths, expiries, raises>>
vars == <<cli, redisVars, tableVars, work, report, boundVars>>

Idle == [pc |-> "idle"]
NoReport == [read |-> 0, tasks |-> 0, executions |-> 0, policy |-> 0,
             candidates |-> 0]

Init ==
    /\ cli = [t \in Task |-> "plan"]
    /\ treeIndex = {} /\ rootHash = {} /\ expanded = {}
    /\ kids = [t \in Task |-> {}]
    /\ lock = [t \in Task |-> {}]
    /\ taskRow = [t \in Task |-> "absent"]
    /\ candRows = {} /\ execRows = {} /\ policyRows = {}
    /\ queued = {}
    /\ work = [w \in Worker |-> Idle]
    /\ report = NoReport
    /\ deaths = 0 /\ expiries = 0 /\ raises = 0

-----------------------------------------------------------------------------
(* The command line                                                        *)

Command(t, from, to) ==
    /\ cli[t] = from
    /\ cli' = [cli EXCEPT ![t] = to]
    /\ UNCHANGED <<expanded, kids, lock, queued, execRows, policyRows, work,
                   report, boundVars>>

\* "No failing tests detected. Refusing to seed a solved task."
Refuse(t) ==
    /\ t \in Solved
    /\ Command(t, "plan", "refused")
    /\ UNCHANGED <<treeIndex, rootHash, taskRow, candRows>>

IndexTree(t) ==
    /\ t \notin Solved
    /\ Command(t, "plan", "root")
    /\ treeIndex' = treeIndex \cup {t}
    /\ UNCHANGED <<rootHash, taskRow, candRows>>

\* A command that leaves the root's hash out.
SkipRoot(t) ==
    /\ Command(t, "root", "task")
    /\ UNCHANGED <<treeIndex, rootHash, taskRow, candRows>>

WriteRoot(t) ==
    /\ Command(t, "root", "task")
    /\ rootHash' = rootHash \cup {t}
    /\ UNCHANGED <<treeIndex, taskRow, candRows>>

\* An upsert: it would overwrite the status of an existing row.
record_task(t) ==
    /\ Command(t, "task", "candidate")
    /\ taskRow' = [taskRow EXCEPT ![t] = "seeded"]
    /\ UNCHANGED <<treeIndex, rootHash, candRows>>

\* The root's own row, which no other table refers to.
RecordRoot(t) ==
    /\ Command(t, "candidate", "seeded")
    /\ UNCHANGED <<treeIndex, rootHash, taskRow, candRows>>

fix_tests(t) ==
    \/ Refuse(t) \/ IndexTree(t) \/ WriteRoot(t) \/ record_task(t)
    \/ RecordRoot(t)

\* The command is interrupted.
Interrupt(t) ==
    /\ cli[t] \in {"root", "task", "candidate"}
    /\ deaths < MaxDeaths
    /\ deaths' = deaths + 1
    /\ cli' = [cli EXCEPT ![t] = "dead"]
    /\ UNCHANGED <<redisVars, tableVars, work, report, expiries, raises>>

-----------------------------------------------------------------------------
(* A worker that expands a root                                            *)

Go(w, to) == work' = [work EXCEPT ![w] = to]

workerFrame == <<cli, treeIndex, rootHash, report, deaths, expiries>>

\* Selection returns the root while it has no children.
SelectRoot(w, t) ==
    /\ work[w] = Idle
    /\ t \in treeIndex
    /\ kids[t] = {}
    /\ Go(w, [pc |-> "selected", task |-> t])
    /\ UNCHANGED <<workerFrame, tableVars, expanded, kids, lock, queued, raises>>

Selected(w) == work[w].pc = "selected"

\* SET NX of the lock, if it is free, and expand's first look at the root.
StartExpansion(w) ==
    /\ Selected(w)
    /\ LET t == work[w].task
       IN /\ lock[t] = {}
          /\ t \in rootHash \ expanded
          /\ lock' = [lock EXCEPT ![t] = {w}]
          /\ Go(w, [pc |-> "loop", task |-> t, todo |-> Patches[t]])
    /\ UNCHANGED <<workerFrame, tableVars, expanded, kids, queued, raises>>

\* The lock is taken, or the root has no hash yet or is expanded meanwhile.
LeaveRoot(w) ==
    /\ Selected(w)
    /\ lock[work[w].task] # {} \/ work[w].task \notin rootHash \ expanded
    /\ Go(w, Idle)
    /\ UNCHANGED <<workerFrame, tableVars, expanded, kids, lock, queued, raises>>

\* The lock lives ten seconds, however long the expansion takes.
LockExpires(t) ==
    /\ lock[t] # {}
    /\ expiries < MaxExpiries
    /\ expiries' = expiries + 1
    /\ lock' = [lock EXCEPT ![t] = {}]
    /\ UNCHANGED <<cli, treeIndex, rootHash, expanded, kids, queued, tableVars,
                   work, report, deaths, raises>>

\* The finally clause deletes the lock if it is the worker's own.
Release(w) == lock' = [lock EXCEPT ![work[w].task] = @ \ {w}]

\* The pipeline with the child's hash and the children set.
CreateChild(w) ==
    /\ work[w].pc = "loop"
    /\ \E c \in work[w].todo :
          /\ kids' = [kids EXCEPT ![work[w].task] = @ \cup {c}]
          /\ Go(w, [pc |-> "candidate", task |-> work[w].task, cand |-> c,
                    todo |-> work[w].todo \ {c}])
    /\ UNCHANGED <<workerFrame, tableVars, expanded, lock, queued, raises>>

\* A schema whose tables do not refer to each other.
NoReference(t) == TRUE

\* candidates.task_id REFERENCES tasks(task_id)
TaskReference(t) == taskRow[t] # "absent"

\* record_candidate: an insert that the foreign key refuses raises, and ends
\* the worker after it has given its lock back; a new one starts.
RecordCandidate(w) ==
    /\ work[w].pc = "candidate"
    /\ TaskReference(work[w].task)
    /\ candRows' = candRows \cup {work[w].cand}
    /\ Go(w, [work[w] EXCEPT !.pc = "running"])
    /\ UNCHANGED <<workerFrame, taskRow, execRows, policyRows, expanded, kids,
                   lock, queued, raises>>

CandidateRefused(w) ==
    /\ work[w].pc = "candidate"
    /\ ~TaskReference(work[w].task)
    /\ raises < MaxRaises
    /\ raises' = raises + 1
    /\ Release(w)
    /\ Go(w, Idle)
    /\ UNCHANGED <<workerFrame, tableVars, expanded, kids, queued>>

\* update_task_status: an UPDATE, which does nothing to a row that is absent.
MarkRunning(w) ==
    /\ work[w].pc = "running"
    /\ taskRow' = [taskRow EXCEPT ![work[w].task] =
                     IF @ = "absent" THEN @ ELSE "running"]
    /\ Go(w, [work[w] EXCEPT !.pc = "execution"])
    /\ UNCHANGED <<workerFrame, candRows, execRows, policyRows, expanded, kids,
                   lock, queued, raises>>

\* record_execution_queued: a row of its own for each run, as the run_id is
\* new; its references are to the task and the candidate.
RecordExecution(w) ==
    /\ work[w].pc = "execution"
    /\ LET row == [run |-> Cardinality(execRows), cand |-> work[w].cand]
       IN /\ execRows' = execRows \cup {row}
          /\ Go(w, [pc |-> "queue", task |-> work[w].task, row |-> row,
                    todo |-> work[w].todo])
    /\ UNCHANGED <<workerFrame, taskRow, candRows, policyRows, expanded, kids,
                   lock, queued, raises>>

QueueExecution(w) ==
    /\ work[w].pc = "queue"
    /\ queued' = queued \cup {work[w].row}
    /\ Go(w, [pc |-> "loop", task |-> work[w].task, todo |-> work[w].todo])
    /\ UNCHANGED <<workerFrame, tableVars, expanded, kids, lock, raises>>

\* The root is marked and its lock given back.
FinishExpansion(w) ==
    /\ work[w].pc = "loop"
    /\ work[w].todo = {}
    /\ expanded' = expanded \cup {work[w].task}
    /\ Release(w)
    /\ Go(w, Idle)
    /\ UNCHANGED <<workerFrame, tableVars, kids, queued, raises>>

expand(w) ==
    \/ \E t \in Task : SelectRoot(w, t)
    \/ StartExpansion(w) \/ LeaveRoot(w)
    \/ CreateChild(w) \/ RecordCandidate(w) \/ CandidateRefused(w)
    \/ MarkRunning(w) \/ RecordExecution(w) \/ QueueExecution(w)
    \/ FinishExpansion(w)

-----------------------------------------------------------------------------
(* The policy gate and reports                                             *)

\* The candidates that were sent on their way.
Candidates(rows) == {row.cand : row \in rows}

\* Of all the pipeline behind the dispatch stream, the row that the policy
\* gate writes for an executed candidate.
record_policy_decision(c) ==
    /\ c \in Candidates(queued) \ policyRows
    /\ policyRows' = policyRows \cup {c}
    /\ UNCHANGED <<cli, redisVars, taskRow, candRows, execRows, work, report,
                   boundVars>>

\* A report that counts the candidates before their decisions.
CandidatesFirst == <<"tasks", "candidates", "executions", "policy">>

\* performance_snapshot: one SELECT after the other, each of its own snapshot.
SnapshotOrder == <<"tasks", "executions", "policy", "candidates">>

Count == [tasks      |-> Cardinality({t \in Task : taskRow[t] # "absent"}),
          executions |-> Cardinality(execRows),
          policy     |-> Cardinality(policyRows),
          candidates |-> Cardinality(candRows)]

performance_snapshot ==
    /\ report.read < Len(SnapshotOrder)
    /\ LET part == SnapshotOrder[report.read + 1]
       IN report' = [report EXCEPT !.read = @ + 1, ![part] = Count[part]]
    /\ UNCHANGED <<cli, redisVars, tableVars, work, boundVars>>

SendReport ==
    /\ report.read = Len(SnapshotOrder)
    /\ report' = NoReport
    /\ UNCHANGED <<cli, redisVars, tableVars, work, boundVars>>

Next ==
    \/ \E t \in Task : fix_tests(t) \/ Interrupt(t) \/ LockExpires(t)
    \/ \E w \in Worker : expand(w)
    \/ \E c \in Cand : record_policy_decision(c)
    \/ performance_snapshot
    \/ SendReport

Spec == Init /\ [][Next]_vars

\* A command that is not interrupted goes on, and workers loop for ever, over
\* all tasks of the index in turn.
FairSpec ==
    /\ Spec
    /\ \A t \in Task : WF_vars(fix_tests(t))
    /\ \A w \in Worker : /\ WF_vars(expand(w))
                         /\ \A t \in Task : SF_vars(SelectRoot(w, t))

-----------------------------------------------------------------------------
\* An entry of the dispatch stream can be followed back: its execution, its
\* candidate and its task have rows, so that no status of the daemons behind
\* the stream is an update of nothing.  However early a worker sees a task,
\* whichever locks expire and wherever the command is interrupted.
QueuedIsRecorded ==
    \A q \in queued : /\ q \in execRows
                      /\ q.cand \in candRows
                      /\ taskRow[TaskOf(q.cand)] # "absent"

\* Each count of a report is taken at another moment.  A report never shows
\* more policy decisions than candidates, nor more executions as long as no
\* lock has expired: two workers that expand one root after an expiry run its
\* candidates twice, and each run has a row.
ReportAddsUp ==
    report.read = Len(SnapshotOrder) =>
        /\ report.policy <= report.candidates
        /\ expiries = 0 => report.executions <= report.candidates

\* A task that was seeded without a worker running into the missing row gets
\* all of its first candidates queued.  (After such a refusal it may not: the
\* child is linked already, so the root is selected no more, and the search
\* goes on below a child that is never executed itself.)
QuietSeedIsSearched ==
    \A t \in Task :
        cli[t] = "seeded" ~>
            (Patches[t] \subseteq Candidates(queued) \/ raises > 0)
=============================================================================
