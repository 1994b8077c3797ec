---------------------------- MODULE ForestWorker ----------------------------
(***************************************************************************)
(* control_plane/forest_worker.py: workers that search the tree of one     *)
(* task.  A worker walks down the tree to a node, takes the node's lock (a *)
(* key with a time to live), expands the node under the task's budget and  *)
(* queues an execution of every child.  Redis commands of different        *)
(* workers interleave freely, a lock may expire under its owner, and a     *)
(* worker may die anywhere.                                                *)
(***************************************************************************)
EXTENDS Fabric, Planning

CONSTANTS Worker,
          NoWorker,      \* the lock key does not exist
          Task,          \* the task that the workers search
          Depth,         \* the depth field of each node
          Patches,       \* per node, what the patcher finds, in source order
          Equivalent,    \* candidates that the SMT oracle prunes
          MaxExpiries,   \* bound on lock expiries
          MaxFailures    \* bound on deaths and exceptions of workers

VARIABLES budget,      \* counter generated_capsules of the task
          exhausted,   \* is the task's budget_exhausted key set
          shown,       \* field generated_capsules of the root's hash
          kids,        \* the children set of each node
          lock,        \* the lock key of each node
          wpc,         \* per worker, where it is
          at,          \* per worker, the node it has walked to
          todo,        \* per worker, candidates still to be considered
          current,     \* per worker, the candidate being dispatched
          ticket,      \* per worker, the value its INCR returned
          made,        \* per worker, did this expansion generate a child
          answered,    \* entries of the dispatch stream with a result
          granted,     \* history: reservations that succeeded
          stranded,    \* history: increments whose DECR was lost
          expiries,    \* locks that expired so far
          deaths,      \* workers that died so far
          raises       \* expansions that raised so far

redisVars  == <<budget, exhausted, shown, kids, lock>>
localVars  == <<wpc, at, todo, current, ticket, made>>
recordVars == <<answered, granted, stranded, expiries, deaths, raises>>
vars == <<ledgerVars, fabricVars, redisVars, localVars, recordVars>>

RootNode == RootOf[Task]

WorkerLabel == {"idle", "select", "lock", "check", "plan", "spent", "seal",
                "loop", "refused", "exhaust", "granted", "child", "queue",
                "finish", "release", "unlock"}

\* Where a worker is inside expand.
ExpandLabel == {"check", "plan", "spent", "seal", "loop", "refused", "exhaust",
                "granted", "child", "queue", "finish"}

\* Where a worker is between taking the lock of its node and giving it back.
Expanding(w) == wpc[w] \notin {"idle", "select", "lock"}

ASSUME ForestAssumption ==
    /\ Worker \subseteq Proc
    /\ IsFiniteSet(Worker)
    /\ NoWorker \notin Worker
    /\ Task \in Tree
    /\ Run = 1..MaxCapsules
    /\ Depth \in [Node -> Nat]
    /\ Patches \in [Node -> Seq(Cand)]
    /\ Equivalent \subseteq Cand
    /\ Cand # {}

\* child_id is a hash of the code and of the node it was made from, so two
\* nodes have no candidate in common.
ASSUME ParentIsFixed ==
    \A m, n \in Node : \A i \in DOMAIN Patches[m], k \in DOMAIN Patches[n] :
        Patches[m][i] = Patches[n][k] => m = n

Init ==
    /\ LedgerInit
    /\ FabricInit
    /\ budget = 0
    /\ exhausted = FALSE
    /\ shown = 0
    /\ kids = [n \in Node |-> {}]
    /\ lock = [n \in Node |-> NoWorker]
    /\ wpc = [w \in Worker |-> "idle"]
    /\ at = [w \in Worker |-> RootNode]
    /\ todo = [w \in Worker |-> {}]
    /\ current = [w \in Worker |-> CHOOSE c \in Cand : TRUE]
    /\ ticket = [w \in Worker |-> 0]
    /\ made = [w \in Worker |-> FALSE]
    /\ answered = {}
    /\ granted = 0
    /\ stranded = 0
    /\ expiries = 0
    /\ deaths = 0
    /\ raises = 0

-----------------------------------------------------------------------------
(* One iteration of run: selection and the lock                            *)

Step(w, from, to) ==
    /\ wpc[w] = from
    /\ LedgerIdle(w)
    /\ wpc' = [wpc EXCEPT ![w] = to]

\* A task that is done or out of budget is skipped.
StartSelection(w) ==
    /\ Step(w, "idle", "select")
    /\ Task \notin doneKey
    /\ ~exhausted
    /\ at' = [at EXCEPT ![w] = RootNode]
    /\ UNCHANGED <<todo, current, ticket, made, ledgerVars, fabricVars,
                   redisVars, recordVars>>

\* One round of distributed_select.  The children are looked at in the order
\* of their hashes, and the UCB scores are real numbers that the model does
\* not keep: which child is next is left open.
Unvisited(n) == {c \in kids[n] : node[c].visits = 0}

SelectLeaf(w) ==
    /\ kids[at[w]] = {}
    /\ Step(w, "select", "lock")
    /\ UNCHANGED at

SelectUnvisited(w) ==
    /\ Step(w, "select", "lock")
    /\ \E c \in Unvisited(at[w]) : at' = [at EXCEPT ![w] = c]

Descend(w) ==
    /\ Unvisited(at[w]) = {}
    /\ Step(w, "select", "select")
    /\ \E c \in kids[at[w]] : at' = [at EXCEPT ![w] = c]

distributed_select(w) ==
    /\ SelectLeaf(w) \/ SelectUnvisited(w) \/ Descend(w)
    /\ UNCHANGED <<todo, current, ticket, made, ledgerVars, fabricVars,
                   redisVars, recordVars>>

\* A lock taken without NX.
TakeLockBlindly(w) ==
    /\ Step(w, "lock", "check")
    /\ lock' = [lock EXCEPT ![at[w]] = w]
    /\ UNCHANGED <<at, todo, current, ticket, made, budget, exhausted, shown,
                   kids, ledgerVars, fabricVars, recordVars>>

\* SET lock_key worker_id NX EX 10.
TakeLock(w) ==
    /\ \/ /\ lock[at[w]] = NoWorker
          /\ Step(w, "lock", "check")
          /\ lock' = [lock EXCEPT ![at[w]] = w]
       \/ /\ lock[at[w]] # NoWorker
          /\ Step(w, "lock", "idle")
          /\ UNCHANGED lock
    /\ UNCHANGED <<at, todo, current, ticket, made, budget, exhausted, shown,
                   kids, ledgerVars, fabricVars, recordVars>>

\* The finally clause: GET lock_key, and only then DEL lock_key.
CheckLock(w) ==
    /\ \/ lock[at[w]] = w /\ Step(w, "release", "unlock")
       \/ lock[at[w]] # w /\ Step(w, "release", "idle")
    /\ UNCHANGED <<at, todo, current, ticket, made, ledgerVars, fabricVars,
                   redisVars, recordVars>>

DeleteLock(w) ==
    /\ Step(w, "unlock", "idle")
    /\ lock' = [lock EXCEPT ![at[w]] = NoWorker]
    /\ UNCHANGED <<at, todo, current, ticket, made, budget, exhausted, shown,
                   kids, ledgerVars, fabricVars, recordVars>>

-----------------------------------------------------------------------------
(* expand                                                                  *)

\* The variables of expand that only its candidate loop changes.
loopVars == <<todo, current, ticket, made>>

\* The check of is_terminal without the one of expanded.
SettledIfTerminal(n) == ~node[n].exists \/ node[n].terminal

Settled(n) == ~node[n].exists \/ node[n].terminal \/ node[n].expanded

\* The flags written when nothing more is to be done below a node.
Seal(n) == node' = [node EXCEPT ![n].terminal = TRUE, ![n].expanded = TRUE]

CheckNode(w) ==
    /\ \/ /\ Settled(at[w])
          /\ Step(w, "check", "release")
          /\ UNCHANGED node
       \/ /\ ~Settled(at[w])
          /\ Depth[at[w]] >= MaxDepth
          /\ Step(w, "check", "release")
          /\ Seal(at[w])
       \/ /\ ~Settled(at[w])
          /\ Depth[at[w]] < MaxDepth
          /\ Step(w, "check", "plan")
          /\ UNCHANGED node
    /\ UNCHANGED <<at, loopVars, doneKey, dispatchStream, ledgerVars,
                   redisVars, recordVars>>

\* GET of the budget counter and the expansion plan made from it.  The
\* patcher stops after max_candidates patches and returns them as a set.
PlanExpansion(w) ==
    LET n == at[w]
        k == max_candidates(Depth[n], budget)
    IN /\ \/ k = 0 /\ Step(w, "plan", "spent") /\ UNCHANGED todo
          \/ /\ k > 0
             /\ Step(w, "plan", "loop")
             /\ todo' = [todo EXCEPT ![w] =
                    {Patches[n][i] : i \in {j \in DOMAIN Patches[n] : j <= k}}]
       /\ made' = [made EXCEPT ![w] = FALSE]
       /\ UNCHANGED <<at, current, ticket, ledgerVars, fabricVars, redisVars,
                      recordVars>>

\* SET budget_exhausted and the task's status, in expand and in
\* _reserve_candidate_budget.
SetExhausted(w) ==
    /\ Step(w, "spent", "seal") \/ Step(w, "exhaust", "finish")
    /\ exhausted' = TRUE
    /\ MakeCalls(w, update_task_status(Task, "budget_exhausted"))
    /\ UNCHANGED <<at, loopVars, budget, shown, kids, lock, fabricVars,
                   recordVars>>

SealSpent(w) ==
    /\ Step(w, "seal", "release")
    /\ Seal(at[w])
    /\ UNCHANGED <<at, loopVars, doneKey, dispatchStream, ledgerVars,
                   redisVars, recordVars>>

\* The head of the candidate loop: the oracle drops the candidate, or
\* _reserve_candidate_budget increments the counter.
PruneCandidate(w) ==
    /\ Step(w, "loop", "loop")
    /\ \E c \in todo[w] \cap Equivalent : todo' = [todo EXCEPT ![w] = @ \ {c}]
    /\ UNCHANGED <<at, current, ticket, made, ledgerVars, fabricVars,
                   redisVars, recordVars>>

\* A reservation that allows one capsule too many.
ReserveOneTooMany(w) ==
    /\ \/ budget > MaxCapsules /\ Step(w, "loop", "refused")
          /\ UNCHANGED granted
       \/ budget <= MaxCapsules /\ Step(w, "loop", "granted")
          /\ granted' = granted + 1
    /\ \E c \in todo[w] \ Equivalent :
          /\ todo' = [todo EXCEPT ![w] = @ \ {c}]
          /\ current' = [current EXCEPT ![w] = c]
    /\ budget' = budget + 1
    /\ ticket' = [ticket EXCEPT ![w] = budget + 1]
    /\ UNCHANGED <<at, made, exhausted, shown, kids, lock, answered, stranded,
                   expiries, deaths, raises, ledgerVars, fabricVars>>

ReserveBudget(w) ==
    /\ \/ budget + 1 > MaxCapsules /\ Step(w, "loop", "refused")
          /\ UNCHANGED granted
       \/ budget + 1 <= MaxCapsules /\ Step(w, "loop", "granted")
          /\ granted' = granted + 1
    /\ \E c \in todo[w] \ Equivalent :
          /\ todo' = [todo EXCEPT ![w] = @ \ {c}]
          /\ current' = [current EXCEPT ![w] = c]
    /\ budget' = budget + 1
    /\ ticket' = [ticket EXCEPT ![w] = budget + 1]
    /\ UNCHANGED <<at, made, exhausted, shown, kids, lock, answered, stranded,
                   expiries, deaths, raises, ledgerVars, fabricVars>>

\* A refusal that forgets the DECR.
KeepReservation(w) ==
    /\ Step(w, "refused", "exhaust")
    /\ UNCHANGED <<at, loopVars, redisVars, ledgerVars, fabricVars, recordVars>>

UndoReservation(w) ==
    /\ Step(w, "refused", "exhaust")
    /\ budget' = budget - 1
    /\ UNCHANGED <<at, loopVars, exhausted, shown, kids, lock, ledgerVars,
                   fabricVars, recordVars>>

\* HSET root generated_capsules, with a value that may be out of date.
ShowGenerated(w) ==
    /\ Step(w, "granted", "child")
    /\ shown' = ticket[w]
    /\ UNCHANGED <<at, loopVars, budget, exhausted, kids, lock, ledgerVars,
                   fabricVars, recordVars>>

\* One pipeline: the child's hash, new or not, and its parent's children set;
\* then the ledger calls up to the XADD of _queue_execution.  The model names
\* a run, whose id is a fresh UUID, by its reservation.
CreateChild(w) ==
    /\ Step(w, "child", "queue")
    /\ node' = [node EXCEPT ![current[w]] = FreshHash]
    /\ kids' = [kids EXCEPT ![at[w]] = @ \cup {current[w]}]
    /\ made' = [made EXCEPT ![w] = TRUE]
    /\ MakeCalls(w, record_candidate(current[w], "generated")
                    \o update_task_status(Task, "running")
                    \o record_execution_queued(ticket[w])
                    \o update_candidate_status(current[w], "queued"))
    /\ UNCHANGED <<at, todo, current, ticket, budget, exhausted, shown, lock,
                   doneKey, dispatchStream, recordVars>>

QueueExecution(w) ==
    /\ Step(w, "queue", "loop")
    /\ dispatchStream' = Append(dispatchStream,
                                [run |-> ticket[w], cand |-> current[w]])
    /\ UNCHANGED <<at, loopVars, node, doneKey, ledgerVars, redisVars,
                   recordVars>>

EndLoop(w) ==
    /\ Step(w, "loop", "finish")
    /\ todo[w] = {}
    /\ UNCHANGED <<at, loopVars, ledgerVars, fabricVars, redisVars, recordVars>>

\* An expansion that generated nothing and leaves its node as it was.
FinishIfGenerated(w) ==
    /\ Step(w, "finish", "release")
    /\ node' = [node EXCEPT ![at[w]].expanded = @ \/ made[w]]
    /\ UNCHANGED <<at, loopVars, doneKey, dispatchStream, ledgerVars,
                   redisVars, recordVars>>

FinishExpansion(w) ==
    /\ Step(w, "finish", "release")
    /\ node' = [node EXCEPT ![at[w]].expanded = TRUE,
                            ![at[w]].terminal = @ \/ ~made[w]]
    /\ UNCHANGED <<at, loopVars, doneKey, dispatchStream, ledgerVars,
                   redisVars, recordVars>>

expand(w) ==
    \/ CheckNode(w) \/ PlanExpansion(w) \/ SetExhausted(w) \/ SealSpent(w)
    \/ PruneCandidate(w) \/ ReserveBudget(w) \/ UndoReservation(w)
    \/ ShowGenerated(w) \/ CreateChild(w) \/ QueueExecution(w) \/ EndLoop(w)
    \/ FinishExpansion(w)

run(w) ==
    \/ StartSelection(w) \/ distributed_select(w) \/ TakeLock(w)
    \/ expand(w) \/ CheckLock(w) \/ DeleteLock(w)

LedgerAction(w) ==
    /\ LedgerStep(w)
    /\ UNCHANGED <<fabricVars, redisVars, localVars, recordVars>>

-----------------------------------------------------------------------------
(* The environment                                                         *)

\* Global memory applies a result of an execution that was queued.
ResultArrives(i, passed) ==
    /\ i \in DOMAIN dispatchStream \ answered
    /\ answered' = answered \cup {i}
    /\ LET c == dispatchStream[i].cand IN
       /\ node' = [n \in Node |-> [node[n] EXCEPT
                      !.visits = IF n \in Path[c] THEN @ + 1 ELSE @,
                      !.terminal = @ \/ (passed /\ n = c)]]
       /\ doneKey' = IF passed THEN doneKey \cup {TreeOf[c]} ELSE doneKey
    /\ UNCHANGED <<dispatchStream, ledgerVars, redisVars, localVars, granted,
                   stranded, expiries, deaths, raises>>

\* Ten seconds pass: the lock goes away, whatever its owner is doing.
LockExpires(n) ==
    /\ lock[n] # NoWorker
    /\ expiries < MaxExpiries
    /\ expiries' = expiries + 1
    /\ lock' = [lock EXCEPT ![n] = NoWorker]
    /\ UNCHANGED <<budget, exhausted, shown, kids, answered, granted, stranded,
                   deaths, raises, localVars, ledgerVars, fabricVars>>

\* A worker leaves expand halfway.  Its last ledger calls are not made, and
\* a refused increment is not undone.
Abandon(w, to) ==
    /\ stranded' = IF wpc[w] = "refused" THEN stranded + 1 ELSE stranded
    /\ wpc' = [wpc EXCEPT ![w] = to]
    /\ MakeCalls(w, <<>>)
    /\ UNCHANGED <<at, loopVars, redisVars, fabricVars, answered, granted,
                   expiries>>

\* The process dies and is started again; its lock stays until it expires.
WorkerDies(w) ==
    /\ wpc[w] # "idle"
    /\ deaths + raises < MaxFailures
    /\ deaths' = deaths + 1
    /\ Abandon(w, "idle")
    /\ UNCHANGED raises

\* Something in expand raises (a ledger call, a Redis command, the patcher):
\* the finally clause gives the lock back, and then the exception ends the
\* worker, which is started again.
ExpandRaises(w) ==
    /\ wpc[w] \in ExpandLabel
    /\ deaths + raises < MaxFailures
    /\ raises' = raises + 1
    /\ Abandon(w, "release")
    /\ UNCHANGED deaths

Next ==
    \/ \E w \in Worker :
          run(w) \/ LedgerAction(w) \/ WorkerDies(w) \/ ExpandRaises(w)
    \/ \E i \in DOMAIN dispatchStream, passed \in BOOLEAN :
          ResultArrives(i, passed)
    \/ \E n \in Node : LockExpires(n)

Spec == Init /\ [][Next]_vars

\* A worker's loop runs on its own process and Postgres answers it.
FairSpec ==
    /\ Spec
    /\ \A w \in Worker : WF_vars(run(w)) /\ WF_vars(LedgerAction(w))

-----------------------------------------------------------------------------
WorkerTypeOK ==
    /\ budget \in Nat
    /\ exhausted \in BOOLEAN
    /\ shown \in Nat
    /\ kids \in [Node -> SUBSET Cand]
    /\ lock \in [Node -> Worker \cup {NoWorker}]
    /\ wpc \in [Worker -> WorkerLabel]
    /\ at \in [Worker -> Node]
    /\ todo \in [Worker -> SUBSET Cand]
    /\ current \in [Worker -> Cand]
    /\ ticket \in [Worker -> Nat]
    /\ made \in [Worker -> BOOLEAN]
    /\ answered \in SUBSET Nat
    /\ granted \in Nat
    /\ stranded \in Nat
    /\ expiries \in Nat
    /\ deaths \in Nat
    /\ raises \in Nat

TypeOK == LedgerTypeOK /\ FabricTypeOK /\ WorkerTypeOK

-----------------------------------------------------------------------------
(* The budget                                                              *)

\* README.md: max_capsules is the "Enforced total candidate budget per task".
\* However INCR and DECR of the workers interleave, whoever dies and whatever
\* node is expanded twice, no more executions are queued than that.
BudgetIsEnforced == Len(dispatchStream) <= MaxCapsules

Refusing == {w \in Worker : wpc[w] = "refused"}

\* The counter is the number of reservations granted, plus the refused
\* increments that are not undone yet or whose worker died before the DECR.
CounterIsExact == budget = granted + Cardinality(Refusing) + stranded

\* Workers that hold a reservation they have not used yet.
Holding == {w \in Worker : wpc[w] \in {"granted", "child", "queue"}}

\* The search stops for lack of budget only when all of it was granted: a
\* transient increment of a refused worker never exhausts it early.
ExhaustedMeansSpent == exhausted => granted = MaxCapsules

\* What makes the three inductive: nobody was ever refused, nor found the
\* budget spent, before all of it was granted; and the executions queued,
\* with the reservations in hand, are among the granted ones.
BudgetInv ==
    /\ CounterIsExact
    /\ granted <= MaxCapsules
    /\ \/ Refusing # {}
       \/ stranded > 0
       \/ exhausted
       \/ \E w \in Worker : wpc[w] \in {"spent", "exhaust"}
       => granted = MaxCapsules
    /\ \A w \in Holding : ticket[w] \in Run
    /\ Len(dispatchStream) + Cardinality(Holding) <= granted

-----------------------------------------------------------------------------
(* The lock                                                                *)

\* Workers that expand a node whose lock they do not have any more.
Unprotected == {w \in Worker : Expanding(w) /\ lock[at[w]] # w}

\* At most one worker for each lock that expired expands a node without having
\* its lock, so none while no lock has expired: a release that comes late, and
\* deletes the lock which another worker took between its GET and its DEL,
\* takes the place of the worker that releases and does not do further harm.
LockExcludes == Cardinality(Unprotected) <= expiries

\* The same candidate is queued for execution a second time only after a
\* lock expired, or an expansion that raised gave its lock back.  A worker
\* that merely died repeats nothing before its lock has expired.
NoCandidateTwice ==
    (\E i, j \in DOMAIN dispatchStream :
        i # j /\ dispatchStream[i].cand = dispatchStream[j].cand)
    => expiries > 0 \/ raises > 0

-----------------------------------------------------------------------------
(* The end of the search                                                   *)

\* Without deaths, expiries and exceptions the work on the tree ends.  A node
\* that a worker has locked ends up expanded or terminal: the worker does not
\* walk away from it.  And although selection keeps coming back to nodes that
\* wait for a result or are terminal, from some point on every expansion
\* returns at its first check.  (It does not follow that the task gets a
\* terminal status: a terminal leaf may be selected for ever.)
SearchComesToRest ==
    /\ \A n \in Node :
          lock[n] # NoWorker ~> node[n].expanded \/ node[n].terminal
    /\ <>[](\A w \in Worker : wpc[w] \notin ExpandLabel \ {"check"})
=============================================================================
