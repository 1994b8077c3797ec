# A TLA+ model of Kernel Omega

Kernel Omega repairs a failing test automatically: it searches a tree of
candidate patches, runs the tests of each candidate in an isolated executor,
and commits a candidate that passed and satisfies a policy. This directory
holds TLA+ modules for the control plane (`control_plane/`), the Firecracker
hypervisor, the verification funnel and the audit script, TLC configurations that check them on
small instances, and TLAPS proofs of the results that should hold for every
number of workers, trees and budgets.

Paths below are relative to the repository. `PROJECT.json` maps every
definition to the lines it models and lists the runs, mutants, hazards and
theorems.

## 1. The system

### Parts, their state, and how they interact

| part | source | state it owns | operations |
|---|---|---|---|
| command line | `omega_cli.py` | none | `fix_tests` localizes the fault, makes a plan, writes the root hash, `TREE_INDEX` and the ledger row of a new task |
| forest worker (several) | `forest_worker.py` | nothing durable | select a node, lock it, expand it, queue executions |
| localization | `coverage_analysis.py`, `fault_localization.py` | none | coverage matrix, ranking of lines |
| planning | `planning.py` | the plan stored in the root hash | strategy, lines, how many candidates a node may get |
| patcher, SMT oracle | `tree_sitter_engine.py`, `smt_oracle.py` | none | candidates of a node, pruning of equivalent ones |
| dispatcher | `dispatcher.py` | consumer `dispatch_group` | send each capsule to an executor core, or answer for it |
| simulator executor | `simulator_executor.py` | signing key, jobs | run the funnel, sign and publish the result |
| hypervisor | `omega_hypervisor/src/main.rs` | signing key, permits, VM directories and processes | the same in a micro-VM |
| guest agent, funnel | `guest_agent/` | none | run the checks and tests of one capsule |
| global memory | `global_memory.py` | consumer `memory_group` | record results, backpropagate, declare a tree done |
| policy gate | `policy_gate.py`, `signatures.py` | consumer `policy_group`, trusted key | decide on a result, reserve the tree for a winner |
| merger | `merger.py` | consumer `merger_group`, git work tree | commit the winner |
| ledger | `metadata_store.py` | Postgres tables | guarded status updates, reports |
| Redis fabric | `redis_keys.py`, `runtime.py`, `contracts.py` | hashes, keys, counters, streams | - |
| telemetry, dashboard | `telemetry_api.py`, `dashboard/` | none | put a payload together from Redis and Postgres |
| audit | `scripts/run_optimization_audit.py` | child processes | start everything, have fixtures repaired, report, stop everything |
| artifact store, settings, shell scripts | `cas_client.py`, `settings.py`, `scripts/` | - | bundles, configuration, start and stop |

Everything is shared through Redis and Postgres. Workers, dispatcher, global
memory, gate and merger are separate processes without any other
synchronisation:

    workers --dispatch stream--> dispatcher --TCP--> executor --results stream--+--> global memory --> done key, visits
                                       \---- own failing result ----------------+--> policy gate --accepted stream--> merger --> git

Shared state that two or more of them write: the node hashes (workers and global
memory), the budget counter and the `budget_exhausted` key (workers), the node
locks (workers), the `inflight` counter (dispatcher and executor), the accepted
key of a tree (gate and merger), and the status columns (everybody).

### What is hard

* Each Redis command is atomic, sequences of them are not. Budget reservation
  is INCR, test, DECR; lock release is GET, DEL; the accepted key is SET NX,
  GET in the gate and GET, SET NX, GET, ..., DEL in the merger.
* The guards of the status columns read in one transaction and write in another.
* A consumer queues its acknowledgements and its outgoing entries in a pipeline
  that is executed after the batch; reservations and ledger writes take effect
  immediately. No daemon ever re-reads its pending entries, so a crash loses
  the batch: delivery is at most once.
* A lock lives for ten seconds. An expansion that takes longer, or one that
  raises, is repeated by another worker, and the same candidate is then executed
  twice.
* Executors make a new signing key when they start. The gate keeps the one it
  loaded.
* `apply_patch` may raise after its commit, and it checks its branches out in
  the work tree that developers edit and stage in and that new tasks are read
  from. Its `git commit` names no path, and a snapshot leaves files out.
* Global memory decides with Redis values that its own batch, still in the
  pipeline, has made out of date. Reports read one key or table after the other.
* A task is visible to workers before it has a row that candidates may refer to.
* The patcher finds an operator by its text, the oracle pairs comparisons by
  their positions in two different texts. Columns of the syntax tree count
  bytes, slices of a line count characters.
* Two executions of one candidate share a VM directory: each wipes it, binds
  sockets in it and removes it under the other. A Firecracker process whose
  restore failed is never killed, a spawn that fails panics on the core's only
  pool thread, and the error of a removal is dropped.
* The audit script waits with deadlines around calls that have none.

`PROJECT.json` lists the hazards, each at its line, with the properties that
watch it.

### What makes each part correct

* Worker: never more executions than `max_capsules`; the budget is not declared
  exhausted while some of it is left; at most one worker expands a node, and a
  lost lock costs no more than one further one; a locked node is settled.
* Dispatcher and executor: one result per run; the inflight counter is exact;
  every request is answered.
* Hypervisor: VMs stay within the limit of a core, nothing is left on the host, a
  verdict comes from a VM that ran nothing else, candidates do not disturb each
  other, every capsule is answered.
* Funnel: success means that all four commands exited with 0.
* Localization and planning: the lines a node may be patched on are the most
  suspicious ones; patcher: single operator swaps, all that fit; oracle: prunes
  only what is equivalent.
* Global memory and telemetry: a result counts in every figure or in none, and
  a payload does not contradict itself.
* Seeding: what is queued can be followed back to its rows.
* Audit: it ends if its calls return, and leaves no process behind.
* Ledger: an outcome or a merge is recorded only if it happened; terminal
  statuses are terminal.
* Gate and merger: only verified, policy-compliant code is committed; a tree is
  reserved for one candidate at a time and the reservation ends only by the
  holder's own failed merge; a reservation is not left behind. The repository
  is left as it was found, and what is committed is what was tested.
* All together: a tree that is declared done gets its fix merged.

## 2. The modules

    Ledger <- Fabric <- Streams <- Executor <- Dispatcher ----+
                 ^         ^------ GlobalMemory --------------+-- Pipeline <- MCPipeline
                 |         ^------ PolicyGate <- Merger ------+
                 |                                 ^--- Acceptance <- MCAcceptance
                 |                                 ~~~ INSTANCE Reservation
    Planning <- ForestWorker <- MCForestWorker
    Hypervisor <- MCHypervisor      WorkTree <- MCWorkTree
    Statistics <- MCStatistics      Seeding <- MCSeeding
    Funnel, Localization, Patcher, Audit <- Programs <- MCPrograms

    LedgerProofs <- ForestWorkerProofs (EXTENDS ForestWorker)
         ^--------- AcceptanceProofs (Acceptance) <- PipelineProofs (Pipeline)
    HypervisorProofs (Hypervisor)    WorkTreeProofs (WorkTree)    SeedingProofs (Seeding)
    ProgramsProofs (Programs, Statistics)

* **Ledger** - the status columns. A process has a list of ledger calls to
  finish before its handler goes on. An `update_*_status` call is two steps:
  SELECT with the guard (`FetchStatus`), then UPDATE (`WriteStatus`).
  `record_candidate` is an upsert without a guard. No process reads the ledger
  except in those guards, so an instance may follow only the tables that its
  properties mention (`Observed`); calls on the others are no steps.
* **Fabric** - what Redis holds for the search and the pipeline alike. A
  candidate's id is the hash of its code and its parent, so a candidate stands
  for its code, and its parent and tree are constants.
* **Streams** - the three streams and the consumer loop that four daemons share.
  `LoseBatch` is what a crash does to a consumer.
* **Planning** - `expansion_plan`'s arithmetic.
* **ForestWorker** - `run`, `distributed_select`, `expand` and
  `_reserve_candidate_budget`, one action per Redis command or pipeline that
  another process can observe. The UCB score is a real number, so the model
  lets the walk go down to any visited child; what the patcher finds and what
  the SMT oracle prunes are the constants `Patches` and `Equivalent`. The
  environment lets results arrive, locks expire, expansions raise (the finally
  clause then releases the lock) and workers die (it does not).
* **Dispatcher**, **Executor**, **GlobalMemory**, **PolicyGate**, **Merger** -
  the daemons. The executor is either the simulator or the hypervisor
  (`Hardware`); tests may have any verdict. A pack keeps what the gate looks
  at: outcome, isolation, digest and the epoch of the signing key, 0 for the
  dispatcher's unsigned packs.
* **Acceptance** - gate and merger fed with results directly, so that repeated
  executions and several failures fit in an instance.
* **Pipeline** - all daemons with a reduced worker (the tail of `expand`).
* **Hypervisor** - one core of the hypervisor with its VMs. The label of a job is
  the `await` it has reached; file system operations, socket connections and
  API calls are steps. A directory holds the sockets that are bound in it, so a
  connection goes to whichever process bound the name last. A process keeps
  its working directory: once that is removed, its relative paths (`rootfs.ext4`
  and `vsock.sock` in `scripts/build_golden_snapshot.sh`) cannot be opened
  (`home`). The 3 s and 2 s deadlines may pass at any time. Blocking work (the
  clone, the spawn, the removal) is done by the core's pool, whose placement
  (`main.rs:494-512`) is the default, one thread. So the panic of
  `spawn().unwrap()` is not local: it ends that thread, after which every job
  that still needs the pool waits (`pool` is stuck), or it unwinds the core's
  executor with all of its tasks (`pool` is down); which of the two depends on
  the library, and both are in the model. A removal may fail half way
  (`Remnants`), which nobody notices. Firecracker's own behaviour is external. One point of it is an assumption: the hypervisor
  connects to `vsock.sock_52`, and the model takes this for a path that
  Firecracker listens on. Executor is the control plane's view of the same code.
* **Funnel** - the four commands of `funnel.py` in their order, any of which may
  fail or be stopped, with outputs that hold any counts.
* **Localization** - `build_coverage_report` one test at a time, with or without
  a coverage report, the Ochiai ranking (scores are compared by their squares,
  in integers), `build_task_plan` and the target lines of an expansion.
* **Patcher** - one expansion: the walk of the patcher over the comparisons of a
  program with its limit and its fallback, and the oracle. Since both work on
  text, an operand has a width and may contain operators, and a string may have
  more bytes than characters (`extra`). A comparison behind such a string is
  looked for too far to the right (`Shift`): the candidate is then the program
  itself, one that does not parse, or `Garbled`, a text of which nothing is
  known.
* **Audit** - the script and the life of its child processes, which may fail to
  start, exit, hang or be slow. A wait has one deadline, which may pass at any
  time; a call without a timeout (`Untimed`) may never return (`hung`).
* **Programs** - these four sequential programs side by side. They share no state
  and only one of them is begun in a behaviour.
* **WorkTree** - `apply_patch` one git command at a time, on branches, index and
  work tree, between developers who save, stage and commit and tasks that are
  seeded from the same tree. A file's content is the set of changes made to it.
  `_snapshot_repo_files` looks at a file's place, kind, size and encoding, and
  so at the file and its content: `Taken` gives, per file, the contents with
  which it is in a snapshot (none, for a file in an ignored directory). Merger
  has the rest of the merger and takes `apply_patch` as a step with three
  outcomes.
* **Statistics** - the rewards and figures of global memory, read directly and
  written at the end of a batch, and a dashboard request that reads one key
  after the other. GlobalMemory has the part of the same loop that other
  daemons depend on.
* **Seeding** - `fix_tests` against workers, with the foreign keys of the tables,
  and `performance_snapshot` counting the tables meanwhile. Executions are rows
  of runs, candidates are upserted: when the lock of the root expires and two
  workers expand it, a candidate has one row among the candidates and two
  among the executions.
* **Reservation** - the abstract specification of the accepted key: a tree is
  reserved for one candidate, only the holder is committed, and a reservation is
  given up, never taken over. Gate and merger together implement it
  (`ImplementsReservation`).

Definitions with names like `ReserveOneTooMany`, `TakeLockBlindly` or
`ExecuteAcksOnly` stand next to the action they vary. They are not part of any
specification: each is a plausible bug, and the property listed with it in
`PROJECT.json` fails when it replaces its neighbour.

## 3. The runs

| run | instance | shows |
|---|---|---|
| `forest_safety` | 2 workers, root with three possible children (one pruned by the oracle), one grandchild, budget 2, one lock expiry, one death or exception | the budget is enforced and its counter exact, exhaustion is never declared early, no more workers expand without their lock than locks expired, a candidate is repeated only after an expiry or an exception |
| `forest_liveness` | 2 workers, root with three possible children, budget 3, no failures, tables `tasks` and `executions` followed | a locked node ends up expanded or terminal, and the work on the tree comes to an end although budget is left |
| `acceptance_repeated` | 1 tree, 2 candidates, 3 runs for either, 2 failures, tables `tasks` and `candidates` followed | only vouched code is committed, at most one clean winner, no orphaned reservation, the reservation protocol and its refinement; the ledger says merged only after a commit |
| `pipeline_safety` | 2 runs for 2 candidates, one of which the policy rejects, 1 failure, table `executions` followed | one result per run, exact inflight counter, a recorded outcome is real |
| `pipeline_liveness` | 2 runs, no failures, fairness | every request is answered; done leads to a merge |
| `hypervisor_safety` | 1 core, 2 permits, 2 runs of one candidate and 1 of another, 1 error | VMs within the limit, directories reclaimed, verdicts from fresh VMs, other candidates undisturbed |
| `hypervisor_liveness` | the same, no errors, deadlines at any time | every capsule that was read is answered, unless a spawn panics |
| `worktree_merges` | 2 files, one of them too large for a snapshot once it was edited, 2 candidates, 2 edits that may be staged at any time, 1 failing command, death or commit of developers | the base branch is never moved, the repository is left as it was found, what is committed was tested but for what developers staged and what snapshots leave out, developers' work is not lost |
| `statistics` | a child and a grandchild, 3 results of three kinds, batches of 2, lists of 2, 1 restart, 3 hashes written | figures and lists agree, payloads are consistent, best reward and depth never fall |
| `seeding` | 1 task with a candidate and 1 without failing test, 2 workers, 1 kill, 2 lock expiries, 1 exception, fairness | what is queued is recorded, reports add up, a task seeded in peace gets its first candidates queued |
| `programs` | funnel: two counts of 0 or 1 per output; localization: 3 tests, 4 lines; patcher: programs of up to three comparisons, some with text that is not ASCII, width up to 3; audit: 3 daemons, 2 fixtures, 2 exits, any call may hang | the verdict follows the exit codes; the plan targets the most suspicious lines; swaps are exact in regular programs, pruning is sound; the audit ends unless a call never returns, and leaves no child behind |
| `candidate_merged_terminal` | violation | see findings |

**Bounds.** Two workers are enough for every race on the lock and the counter,
since a step involves one worker and the shared state; a budget of two is below
the three possible capsules, so refusals, transient increments and exhaustion
all happen. Two candidates of one tree compete for the accepted key; a third
run makes a repeated execution meet its rival. Trees do not share keys, so one
tree is enough. On a core, two runs of a candidate meet in every order in their
directory while a third run waits for a permit or works elsewhere; cores share
nothing, and a candidate always goes to the same one. Three tests and four
lines give every strategy and windows shorter and longer than the ranking; the
programs of the patcher have nested comparisons, strings, chains and
comparisons spread over lines, on one line and on two. Z3 decides over all
integers; terms differ by constants of at most 2, so the interval from -3 to 3
has a counterexample if there is one. Batches hold two entries (50 or 10 in the code) so that batches
of one and of several entries both occur. `MaxCrashes`, `MaxExpiries` and
`MaxFailures` bound failures; the counters they bound are not otherwise read by
the system. Symmetry is used only in runs without liveness properties and only
over workers, runs or edits that the instance treats alike. In the work tree,
one incident is enough for each exception a property makes; two edits give
every order of a saved, a staged and a committed change of the two files
against the commands of a merge.

Deadlock checking is off: a search that is done, out of budget or bounded
simply stops, and an idle daemon blocks in XREADGROUP.

**Fairness.** Each daemon is an endless loop on a process of its own, so each
has weak fairness on its steps and on its ledger calls; the executor has it per
run, since each capsule has its own thread or task. Workers have it on their
loop; for seeding, so has the command, unless it is killed, and a worker's loop
comes to every task of the index again and again. The audit script
runs on unless it is in a call that never returns, and its deadlines pass;
nothing is assumed of its children. `AuditEnds` therefore names its two
exceptions: a call of `Untimed` that hangs (`subprocess.run` for docker and the
command line, the ping of Redis, the statements sent to Postgres), and a
simulator that runs and prints nothing, where `readline` waits past the 20
seconds. What has a deadline of its own ends. A core of the hypervisor polls all its tasks, so each has it too, and so
does each VM: every command of the funnel has a timeout. No fairness is assumed
of `Accept`, since a task that panicked may keep its permit, and no job is
promised an answer once the core has lost its pool. Nothing is assumed about failures, about what a worker chooses, or about a
verdict.

## 4. Findings

`tests/unit/test_metadata_store.py` has a `test_candidate_status_merged_is_terminal`.
`record_candidate`, however, is an upsert that sets the status without a guard.
When the expansion of a node is repeated, after its lock expired or an exception,
a candidate that is already merged goes back to `generated`
(`candidate_merged_terminal`).

Other behaviours that the model shows, and that the properties make room for:

* The guards of `update_task_status` and `update_candidate_status` read in one
  autocommitted connection and write in another. Global memory passes the guard
  for `verified`, gate and merger record `merged`, and then the UPDATE sets
  `verified`. `LedgerMergedIsCommitted` is what remains: merged is never wrong.
* The dispatcher marks an execution as started after it has sent the capsule, so
  the row of an execution that finished quickly may stay `running`.
* A merge of a repeated execution that fails deletes the accepted key of a
  candidate that is already merged, after which another candidate of the tree can
  be accepted too (the exception that `OneCleanWinner` makes).
* A VM whose restore failed runs on without a permit (the exception of
  `VmsWithinLimit`). When another run of its candidate removes the directory
  just before the spawn, the spawn panics, and this stops the core: capsules of
  other candidates that still need the pool go unanswered too (the exception of
  `EveryCapsuleIsAnswered`).
* A directory whose removal failed stays, with what is left of it (the exception
  of `DirectoryIsReclaimed`), and the next run of the candidate works in it.
* A lock that expires between the GET and the DEL of its release may be another
  worker's by then, which loses it. `LockExcludes` shows that this does not
  spread: one expiry costs one exclusion.
* Two expansions of one node give a candidate two executions, so that a report
  may show more executions than candidates (the exception of `ReportAddsUp`).
* A completely searched tree with budget left: selection ends at a terminal leaf
  for ever, `expand` returns at once, and no terminal status is written.
* A git command that fails after the checkout leaves the repair branch checked
  out; later merges and tasks start from it (the exception of `RestsOnBase`).
* Work that a developer had staged in another file is committed to the repair
  branch, untested, and the checkout of the base branch takes it out of the
  work tree; it can be found on the repair branch (`OtherEditsSurvive`,
  `CommittedTreeWasTested`).
* `segment.find` takes the first occurrence of the operator's text:
  `(a <= b) < c` becomes `(a <== b) < c`, and the SyntaxError of the oracle then
  ends the expansion. And `col_offset` counts bytes: behind text that is not
  ASCII the operator is written to the right of where it should be.
  `SwapsAreExact` is about programs where neither happens (`Regular`).
* A swap between `<` and `<=` changes the length of the comparison, so the oracle
  pairs nothing and never prunes it. What it prunes is equivalent
  (`OracleIsSound`).
* Of two results in a batch that beat the best reward, the later one stays even
  if it is the smaller.
* A worker that meets a task without a row raises after the child was linked. The
  root then has a child and is not expanded again (the exception of
  `QuietSeedIsSearched`).
* A daemon that cannot be started or exits at once makes the audit end with the
  simulator and the earlier daemons still running, and an error of the
  simulator's log leaves the simulator (the exceptions of `NoChildLeftBehind`).
* A silent simulator, a hanging docker command or a hanging seed stops the audit
  for good (the exceptions of `AuditEnds`).

## 5. The proofs

Every theorem holds for every value of the constants that satisfies the `ASSUME`s
of the modules: any set of candidates, jobs, files or tasks, any number of
failures, any batch size. The assumptions are typings of the constants, names
that differ from each other, and these:

* `Worker` is finite (budget counting); `Run = 1..MaxCapsules` names a run by
  its reservation;
* `ParentIsFixed`: two nodes have no candidate in common, because `child_id` is
  the SHA-256 of the code followed by the parent's id (`forest_worker.py:168`);
* `MaxVms` is at least 1;
* a candidate of Statistics is generated after its parent, so that the walk along
  the `parent` fields of `global_memory.py:74` comes to the root;
* a text of the patcher has at most two comparisons on a line, with operands,
  nesting and constants as in `Text`; the number of lines is open, and `Broken`
  and `Garbled` are no such texts;
* no two tasks of Seeding have a candidate in common.

All proofs have the same shape: an inductive invariant, one case per action, and
a last temporal step. Each invariant was an invariant of the TLC instance of its
component before it was proved.

**LedgerProofs** has the types of the ledger's operations and steps, for every
module that calls them.

**ForestWorkerProofs.** `TypeCorrect` proves `TypeOK` together with `BudgetInv`;
`BudgetEnforced`, `CounterExact` and `ExhaustedIsSpent` follow. That the stream is
no longer than the budget does not follow from the previous step alone: the
counter exceeds the grants by the refused increments that are still to be undone,
and by those whose worker died, so a worker that sees the counter full has to
know that the grants are full too. `BudgetInv` says that the counter is exact,
that nobody is being refused, has been stranded or has found the budget spent
unless all of it was granted, and that requests queued and reservations in hand
are among the grants. `OneMoves` counts workers by label, so that a step changes a
cardinality by at most one. Type correctness needs `BudgetInv` in turn: the DECR
stays in the naturals because the refused worker's own increment is in the counter.

`LockExclusion` is inductive given the types: a step takes nobody's lock, or an
expiry one (`NobodyLoses`, `OneLoses`), and a late DEL takes one worker's lock
while the worker that deletes it, which had lost its own, leaves the set.
`CandidatesAreQueuedOnce` needs it
and `OnceInv`: as long as no lock expired and nothing was raised, a worker in the
candidate loop has only candidates of its own node before it, none of which
exists (`LoopInv`), and a node with children is marked, or is locked with nobody
expanding it but a worker in that loop (`NodeInv`). The second part is what
deaths need: the lock of a worker that died in the loop stays.

**AcceptanceProofs, PipelineProofs.** Gate and merger are proved once, in
AcceptanceProofs, for any system that runs them: `GateMergerInv` has the
positions of the consumers in their streams, what a held candidate says about
the accepted key (`ReservationInv`), the pack behind every entry of the pipe, the
accepted stream and the log of commits (`ProvenanceInv`), where the acceptance of
a reserved candidate is (`OrphanInv`), and the commit behind every ledger call
that says merged, made or half made (`LedgerInv`, since the guard reads in one
transaction and the write comes in another). The other actions of
`AcceptanceSpec` and of the pipeline preserve it. From it follow
`MergesAreVerified`, `OneCleanWinner`, `NoOrphanReservation`,
`LedgerMergedIsCommitted` and the refinement of Reservation, for Acceptance and
for the whole pipeline, and the action property `ReservationEndsByItsOwnRelease`.
PipelineProofs adds, for the path to the results stream, that a run is in one place
at a time (`RunInv`), that the counter matches the jobs (`CountInv`, by the
cardinality of the job set) and that whoever is about to record an outcome has the
pack for it (`OutcomeInv`): `AtMostOneResult`, `InflightCounts`, `OutcomesAreReal`.

**HypervisorProofs.** `VmsAreLimited` follows from `PermitInv`, the permits and the
tasks that hold one add up to the limit, and `VmInv`, a VM that is not abandoned
belongs to such a task. `DirectoriesAreReclaimed` is inductive with the types, the
history of failed removals and the fact that a task which the core took with it
counts as panicked.
`VerdictsAreFresh` needs `GuestInv`: whoever waits at a VM that still runs has no
answer, because a VM that has served anybody is gone. `StrangersAreHarmless` is
about histories, so `SoloInv` describes every stage of an undisturbed job; a step
of another job preserves it since all sockets that a job can reach lead to VMs of
its own candidate (`PeerInv`, `StrangerStep`), and a step of the job itself
reaches the next stage or puts it among the troubled (`OwnStep`).

**WorkTreeProofs.** `BaseNeverMoved` needs `BranchInv`, which also holds after
failures: the initial commit goes to a branch that has none, and a candidate's
commit is made with its repair branch checked out. The other three rest on
`QuietInv`, which holds while nothing was disturbed and relates HEAD, index, work
tree and the repair branches at each git command of `apply_patch`: outside of the
patched file the index differs from the base branch only where developers staged
(`StagedInv`), so only there does a checkout change the work tree, and the commit
has the content by then. `Taken` is arbitrary: `CleanInv` says of a task seeded
from a clean tree that a file is missing in its snapshot only if its committed
content is not taken.

**SeedingProofs.** `QueuedRecorded`: a worker that gets past the foreign keys has
the rows in the tables (`WorkerInv`, `RowsInv`). `ReportsAddUp` holds because the
report counts candidates last and rows are never deleted (`ReportInv`), and, for
the executions, because a candidate has one run as long as no lock expired
(`OnceInv`).

**ProgramsProofs** has the sequential programs and the figures. What a loop or a
recursive function computes is proved by induction over sets of naturals:
`LeastNat` gives the least counterexample and `Induction` the principle, for a
set that each proof names. `RecursionDefines` shows that a recursive function over
an initial segment of the naturals exists and satisfies its equation, and is used
for the walk along the parents, for `Total`, and for sums over finite sets.

* `FunnelVerdict` needs `FunnelInv`: what ran so far, and with which exit codes,
  at each stage.
* `PatcherSwaps` needs `WalkInv`: in a regular program the candidates are the
  swaps of what the walk has come to, and the fallback starts from none.
* `OracleNeverMisjudges` needs `OracleInv`: a candidate that parses, and was
  written where its comparison is, differs from
  the program in one outer comparison, in its parentheses or in the rest of it
  (`OneChange`). If what is in the parentheses is changed at a shared place, its
  width is the same, so the whole comparison is at a shared place too (`Places`,
  `SameWidth`), and begins one column earlier. The first changed pair is therefore
  the outer one (`OracleFindsOuter`), and everything else is equal.
* `AuditLeavesNoChild` needs `AuditInv`: which children may run at each point of
  the script, and which of them have a handle in the `finally` clauses.
* `FiguresAgree`, `PayloadsConsistent` and `FiguresNeverFall` share `FiguresInv`. A
  queued write of the best reward or of the depth exceeds the field as it still is
  when the pipeline is executed (`DecidedInv`); every walk reaches the root
  (`WalkReachesRoot`), so a batch adds its length to the root's visits and its sum to
  the value (`TotalConcat`); the trimmed list of recent runs remains the end of the
  history (`RecentStaysEnd`); and the parts that a request has read are bounded by
  what is read later (`RequestInv`).
* `FocusIsRanking` and `CulpritComesFirst` need `LocalizationInv`: a row of the
  matrix counts the tests that executed its line. The ranking is a stable sort,
  which exists and descends (`RankingExists`, `RankingDescends`); scores are compared
  with integers, and no other suspect has the score of a culprit
  (`CulpritIsMoreSuspicious`).

Model-checked only are the liveness properties, since the prover has no rules for
fairness: `SearchComesToRest`,
`EveryRequestIsAnswered`, `DoneLeadsToMerge`, `EveryCapsuleIsAnswered`,
`QuietSeedIsSearched` and `AuditEnds`. All invariants and action properties of the
passing runs are theorems.

`TypeOK` of Pipeline and of Hypervisor are proved (`PipelineTypes`,
`HypervisorTypes`) and not repeated in the runs.

## 6. Not modelled

UCB scores (real numbers that only order the search); JSON metadata and averages
of the ledger; the sliding window for evaluations per second, heartbeats, the
HTTP server and the page of the dashboard; the bytes of the guest protocol;
artifacts, which nothing reads back; settings, which are merged in sequence once
at start and are the constants here (five of them, `max_diff_lines`,
`max_touched_files`, `max_wall_seconds`, `deny_edit_tests` and
`deny_disable_asserts`, are read by no other code); the shell scripts; figures
and wording of the audit's report. Developers who switch branches
themselves; programs whose line ends `splitlines` and the parser count
differently; text that is not ASCII outside of strings. `legacy_task_plan` serves roots that were written
without a plan, which `fix_tests` no longer does.

## 7. Plan

1. Search (done): Planning, ForestWorker, proofs of budget and lock.
2. Delivery (done): Ledger, Streams, the daemons, Acceptance, Pipeline,
   Reservation.
3. Hypervisor and funnel (done).
4. WorkTree, Statistics, Seeding, Localization, Patcher, Audit (done).
5. Proofs about gate, merger and pipeline, hypervisor, work tree, seeding and
   repeated candidates (done).
6. Proofs about the sequential programs and the figures: Funnel, Localization,
   Patcher, Audit, Statistics (done).

Left: the liveness properties for arbitrary constants, with a prover that has the
rules for fairness.
