----------------------------- MODULE Statistics -----------------------------
(***************************************************************************)
(* The figures that the search and the dashboard run on.  Global memory    *)
(* (control_plane/global_memory.py) computes a reward for each result of a *)
(* batch and queues its Redis writes in one MULTI/EXEC pipeline, while it  *)
(* goes on reading Redis directly: a read does not see what the same batch *)
(* has queued.  Meanwhile a worker writes hashes of children, and requests *)
(* of the dashboard (control_plane/telemetry_api.py) read one key after    *)
(* the other.  Rewards are in hundredths.                                  *)
(***************************************************************************)
EXTENDS Integers, FiniteSets, SequencesExt

CONSTANTS Cand,         \* candidates of the one tree
          Root,         \* its root node
          Parent,       \* the parent field of each candidate
          Outcome,      \* what an execution may report
          RootFailed,   \* failing tests that the command line counted
          BatchMax,     \* count of xreadgroup
          RecentMax,    \* length that recent runs are trimmed to
          LiveRuns,     \* how many of them the dashboard shows
          MaxResults,   \* bound on results
          MaxCreated,   \* bound on hashes written by the worker
          MaxRestarts   \* bound on restarts of global memory

Node == Cand \cup {Root}

ASSUME StatisticsAssumption ==
    /\ IsFiniteSet(Cand) /\ Root \notin Cand
    /\ Parent \in [Cand -> Node]
    \* a candidate is generated after its parent
    /\ \E rank \in [Node -> 0..Cardinality(Cand)] :
          \A c \in Cand : rank[Parent[c]] < rank[c]
    /\ Outcome \subseteq [passed : Nat, failed : Nat, runtime : Nat]
    /\ RootFailed \in Nat /\ BatchMax \in Nat \ {0} /\ RecentMax \in Nat \ {0}
    /\ LiveRuns \in Nat

VARIABLES results,      \* the results stream
          delivered,    \* entries read by memory_group
          batch,        \* entries read and not handled yet
          pipe,         \* writes queued by the batch, one record per result
          hash,         \* per node, the fields that change
          best,         \* field best_reward of the root
          depthSeen,    \* field max_depth_seen of the root
          totalEvals,   \* omega:stats:total_evals
          recent,       \* the list of recent runs, latest first
          expanding,    \* the node that the worker has read, or NoNode
          created,      \* hashes written so far
          request,      \* the dashboard request being answered
          applied,      \* history: rewards in the order they took effect
          restarts

NoNode == <<>>
NoRequest == [read |-> 0, runs |-> 0, forest |-> 0, metrics |-> 0]

memoryVars == <<results, delivered, batch, pipe, restarts>>
shownVars == <<best, depthSeen, totalEvals, recent, applied>>
figuresVars == <<memoryVars, shownVars, hash, expanding, created, request>>

Absent == [exists |-> FALSE, visits |-> 0, value |-> 0, failed |-> 0]
Fresh(tests_failed) ==
    [exists |-> TRUE, visits |-> 0, value |-> 0, failed |-> tests_failed]

FiguresInit ==
    /\ results = <<>> /\ delivered = 0 /\ batch = <<>> /\ pipe = <<>>
    /\ hash = [n \in Node |-> IF n = Root THEN Fresh(RootFailed) ELSE Absent]
    /\ best = 0 /\ depthSeen = 0 /\ totalEvals = 0 /\ recent = <<>>
    /\ expanding = NoNode /\ created = 0
    /\ request = NoRequest
    /\ applied = <<>> /\ restarts = 0

\* The node and its ancestors, in the order of the walk along parent.
Walk[n \in Node] == IF n = Root THEN <<n>> ELSE <<n>> \o Walk[Parent[n]]

\* A walk that ends when the next node has no parent.
WalkBelowRoot(n) == SelectSeq(Walk[n], LAMBDA m : m # Root)

Ancestors(n) == Walk[n]

Depth(n) == Len(Walk[n]) - 1

-----------------------------------------------------------------------------
(* The worker and the executor                                             *)

\* expand reads the node and, later, writes hashes of children that inherit
\* its tests_failed of then.  A child may be generated again.
ReadNode(n) ==
    /\ hash[n].exists
    /\ expanding' = <<n, hash[n].failed>>
    /\ UNCHANGED <<memoryVars, shownVars, hash, created, request>>

CreateChild(c) ==
    /\ expanding # NoNode
    /\ expanding[1] = Parent[c]
    /\ created < MaxCreated
    /\ created' = created + 1
    /\ hash' = [hash EXCEPT ![c] = Fresh(expanding[2])]
    /\ UNCHANGED <<memoryVars, shownVars, expanding, request>>

\* A result of a candidate that was generated; more than one, if it was
\* generated twice.
Publish(c, o) ==
    /\ hash[c].exists
    /\ Len(results) < MaxResults
    /\ results' = Append(results, [cand |-> c, out |-> o])
    /\ UNCHANGED <<delivered, batch, pipe, restarts, shownVars, hash, expanding,
                   created, request>>

-----------------------------------------------------------------------------
(* Global memory                                                           *)

Pos(i) == IF i > 0 THEN i ELSE 0

compute_reward(out, parentFailed) ==
    10000 * out.passed - 20000 * out.failed - out.runtime
    + 50000 * Pos(parentFailed - out.failed)

Least(i, j) == IF i < j THEN i ELSE j

XReadGroup ==
    /\ batch = <<>> /\ pipe = <<>>
    /\ delivered < Len(results)
    /\ delivered' = Least(delivered + BatchMax, Len(results))
    /\ batch' = SubSeq(results, delivered + 1, delivered')
    /\ UNCHANGED <<results, pipe, restarts, shownVars, hash, expanding, created,
                   request>>

\* Writes of best_reward that do not ask for the current one.
RaisesAlways(reward) == TRUE

\* Are best_reward and max_depth_seen to be written?  Redis is asked, which
\* does not have the writes that the batch has queued so far.
Raises(reward) == reward > best
Deepens(c) == Depth(c) > depthSeen

\* The handler, up to the writes that it queues.
Handle ==
    /\ batch # <<>>
    /\ batch' = Tail(batch)
    /\ LET c == Head(batch).cand
           reward == compute_reward(Head(batch).out, hash[Parent[c]].failed)
       IN pipe' = Append(pipe, [cand |-> c, failed |-> Head(batch).out.failed,
                                reward |-> reward, raises |-> Raises(reward),
                                deepens |-> Deepens(c)])
    /\ UNCHANGED <<results, delivered, restarts, shownVars, hash, expanding,
                   created, request>>

\* Which of the results of the batch write a field, and what.
Below(n) == {i \in DOMAIN pipe : Contains(Ancestors(pipe[i].cand), n)}
Reports(n) == {i \in DOMAIN pipe : pipe[i].cand = n}
BestWrites == {i \in DOMAIN pipe : pipe[i].raises}
DepthWrites == {i \in DOMAIN pipe : pipe[i].deepens}

Rewards == [i \in DOMAIN pipe |-> pipe[i].reward]
Failures == [i \in DOMAIN pipe |-> pipe[i].failed]
Depths == [i \in DOMAIN pipe |-> Depth(pipe[i].cand)]

\* Of the writes to one field, the last one stays ...
LastWrite(writes, values, old) ==
    IF writes = {} THEN old ELSE values[Max(writes)]

\* ... and increments add up.
Total(s) ==
    LET sum[i \in 0..Len(s)] == IF i = 0 THEN 0 ELSE sum[i - 1] + s[i]
    IN sum[Len(s)]

Increments(n) ==
    [i \in DOMAIN pipe |-> IF i \in Below(n) THEN pipe[i].reward ELSE 0]

Trim(s) == SubSeq(s, 1, Least(Len(s), RecentMax))

\* EXEC.  Each result is pushed on the list of recent runs, which is trimmed
\* after each push: what the last trim leaves.
ExecutePipe ==
    /\ batch = <<>> /\ pipe # <<>>
    /\ pipe' = <<>>
    /\ hash' = [n \in Node |->
         [exists |-> hash[n].exists,
          visits |-> hash[n].visits + Cardinality(Below(n)),
          value  |-> hash[n].value + Total(Increments(n)),
          failed |-> LastWrite(Reports(n), Failures, hash[n].failed)]]
    /\ best' = LastWrite(BestWrites, Rewards, best)
    /\ depthSeen' = LastWrite(DepthWrites, Depths, depthSeen)
    /\ totalEvals' = totalEvals + Len(pipe)
    /\ recent' = Trim(Reverse(Rewards) \o recent)
    /\ applied' = applied \o Rewards
    /\ UNCHANGED <<results, delivered, batch, restarts, expanding, created,
                   request>>

\* The process dies: what it read is not delivered again.
Restart ==
    /\ batch # <<>> \/ pipe # <<>>
    /\ restarts < MaxRestarts
    /\ restarts' = restarts + 1
    /\ batch' = <<>> /\ pipe' = <<>>
    /\ UNCHANGED <<results, delivered, shownVars, hash, expanding, created,
                   request>>

-----------------------------------------------------------------------------
(* dashboard_payload, one Redis command after the other                    *)

\* A payload that starts with the counters.
MetricsFirst == <<"metrics", "forest", "runs">>

PayloadOrder == <<"runs", "forest", "metrics">>

Figure == [runs    |-> Least(Len(recent), LiveRuns),
           forest  |-> best,
           metrics |-> totalEvals]

StartPayload ==
    /\ request.read \in {0, Len(PayloadOrder)}
    /\ LET part == PayloadOrder[1]
       IN request' = [NoRequest EXCEPT !.read = 1, ![part] = Figure[part]]
    /\ UNCHANGED <<memoryVars, shownVars, hash, expanding, created>>

ReadOn ==
    /\ request.read \in 1..Len(PayloadOrder) - 1
    /\ LET part == PayloadOrder[request.read + 1]
       IN request' = [request EXCEPT !.read = @ + 1, ![part] = Figure[part]]
    /\ UNCHANGED <<memoryVars, shownVars, hash, expanding, created>>

FiguresNext ==
    \/ \E n \in Node : ReadNode(n)
    \/ \E c \in Cand : CreateChild(c)
    \/ \E c \in Cand, o \in Outcome : Publish(c, o)
    \/ XReadGroup \/ Handle \/ ExecutePipe \/ Restart
    \/ StartPayload \/ ReadOn

FiguresSpec == FiguresInit /\ [][FiguresNext]_figuresVars

-----------------------------------------------------------------------------
\* Whatever batch a restart of global memory loses, and however often a hash
\* of a child is written again, the figures of the root, omega:stats:total_evals
\* and the results that took effect agree: a batch counts everywhere or
\* nowhere, no regenerated child takes visits away from its root, and the
\* list of recent runs is the end of the history, latest first.
CountersAgree ==
    /\ totalEvals = Len(applied)
    /\ hash[Root].visits = Len(applied)
    /\ hash[Root].value = Total(applied)
    /\ recent = SubSeq(Reverse(applied), 1, Least(Len(applied), RecentMax))

\* Although a handler decides with figures that its own batch has made out of
\* date, best_reward and max_depth_seen never fall.
ShownFiguresNeverFall == [][best' >= best /\ depthSeen' >= depthSeen]_figuresVars

\* A payload of the dashboard is put together from several reads.  It never
\* lists a run, or a reward, that its total does not count.
PayloadIsConsistent ==
    request.read = Len(PayloadOrder) =>
        /\ request.runs <= request.metrics
        /\ request.forest > 0 => request.metrics > 0
=============================================================================
