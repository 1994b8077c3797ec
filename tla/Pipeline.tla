------------------------------ MODULE Pipeline ------------------------------
(***************************************************************************)
(* The delivery pipeline: requests enter the dispatch stream, are executed,*)
(* and their results flow through global memory and the policy gate to the *)
(* merger.  The search is reduced to the tail of ForestWorker.expand, which*)
(* writes a child's hash and queues an execution of it.  The same child    *)
(* may be queued again: when the lock of a node expires during its         *)
(* expansion, a second worker generates the same candidates once more.     *)
(***************************************************************************)
EXTENDS Dispatcher, GlobalMemory, Merger

CONSTANTS MayQueue      \* per run, the candidates that it may execute

VARIABLES preparing     \* the worker's request that is not queued yet

NoRequest == <<>>

vars == <<ledgerVars, fabricVars, streamVars, daemonVars, failureVars,
          executorVars, memoryPipe, acceptedKey, gateVars, mergerVars, preparing>>

ASSUME PipelineAssumption ==
    /\ Proc = Daemon \cup {"worker"}
    /\ MayQueue \in [Run -> SUBSET Cand]

Init ==
    /\ LedgerInit
    /\ FabricInit
    /\ StreamsInit
    /\ ExecutorInit
    /\ GateInit
    /\ MergerInit
    /\ memoryPipe = <<>>
    /\ preparing = NoRequest

workerFrame == <<streamVars, daemonVars, failureVars, executorVars,
                 memoryPipe, acceptedKey, gateVars, mergerVars, doneKey>>

\* A fresh run id, the child's hash, and the ledger calls up to _queue_execution's XADD.
PrepareCapsule(r, c) ==
    /\ preparing = NoRequest
    /\ LedgerIdle("worker")
    /\ \A q \in Entry(dispatchStream) : q.run # r
    /\ c \in MayQueue[r]
    /\ preparing' = <<[run |-> r, cand |-> c]>>
    /\ node' = [node EXCEPT ![c] = FreshHash]
    /\ MakeCalls("worker", record_candidate(c, "generated")
                           \o update_task_status(TreeOf[c], "running")
                           \o record_execution_queued(r)
                           \o update_candidate_status(c, "queued"))
    /\ UNCHANGED <<dispatchStream, workerFrame>>

QueueCapsule ==
    /\ preparing # NoRequest
    /\ LedgerIdle("worker")
    /\ dispatchStream' = dispatchStream \o preparing
    /\ preparing' = NoRequest
    /\ UNCHANGED <<node, ledgerVars, workerFrame>>

Worker == (\E r \in Run, c \in Cand : PrepareCapsule(r, c)) \/ QueueCapsule

\* A worker or a daemon makes the next step of its ledger calls.
LedgerAction(p) ==
    /\ LedgerStep(p)
    /\ UNCHANGED <<fabricVars, streamVars, daemonVars, failureVars, executorVars,
                   memoryPipe, acceptedKey, gateVars, mergerVars, preparing>>

outsideDispatcher == <<memoryPipe, acceptedKey, gateVars, mergerVars, preparing>>
outsideMemory     == <<executorVars, acceptedKey, gateVars, mergerVars, preparing>>
outsideGate       == <<executorVars, memoryPipe, mergerVars, preparing>>
outsideMerger     == <<executorVars, memoryPipe, preparing>>

DispatcherAction ==
    (DispatcherHandler \/ DispatcherLoop) /\ UNCHANGED outsideDispatcher
ExecutorAction ==
    /\ \E j \in jobs : PublishResult(j) \/ DecrInflight(j)
    /\ UNCHANGED outsideDispatcher
MemoryAction == (MemoryHandler \/ MemoryLoop) /\ UNCHANGED outsideMemory
GateAction   == (GateHandler \/ GateLoop) /\ UNCHANGED outsideGate
MergerAction == (MergerHandler \/ MergerLoop) /\ UNCHANGED outsideMerger

Failure ==
    \/ (\E j \in jobs : AbortJob(j)) /\ UNCHANGED outsideDispatcher
    \/ RestartExecutor /\ UNCHANGED outsideDispatcher
    \/ RestartDispatcher /\ UNCHANGED outsideDispatcher
    \/ RestartMemory /\ UNCHANGED outsideMemory
    \/ RestartGate /\ UNCHANGED outsideGate
    \/ RestartMerger /\ UNCHANGED outsideMerger

Next ==
    \/ Worker
    \/ \E p \in Proc : LedgerAction(p)
    \/ DispatcherAction
    \/ ExecutorAction
    \/ MemoryAction
    \/ GateAction
    \/ MergerAction
    \/ Failure

Spec == Init /\ [][Next]_vars

\* Every daemon loops for ever and Postgres answers: no process stops for good
\* between two of its steps.  Nothing is assumed of the worker's choices.
Fairness ==
    /\ WF_vars(QueueCapsule)
    /\ \A p \in Proc : WF_vars(LedgerAction(p))
    /\ WF_vars(DispatcherAction)
    /\ \A r \in Run : WF_vars(\E j \in jobs :
           /\ j.run = r
           /\ PublishResult(j) \/ DecrInflight(j)
           /\ UNCHANGED outsideDispatcher)
    /\ WF_vars(MemoryAction)
    /\ WF_vars(GateAction)
    /\ WF_vars(MergerAction)

FairSpec == Spec /\ Fairness

-----------------------------------------------------------------------------
TypeOK ==
    /\ LedgerTypeOK
    /\ FabricTypeOK
    /\ StreamsTypeOK
    /\ ExecutorTypeOK
    /\ GateTypeOK
    /\ MergerTypeOK
    /\ memoryPipe \in Seq(Pack)
    /\ preparing \in {NoRequest} \cup {<<q>> : q \in Request}

-----------------------------------------------------------------------------
(* Safety                                                                  *)

\* Dispatch is at most once: the dispatcher's own failure pack and the
\* executor's pack exclude each other, and a batch lost in a crash is not
\* sent again, so no run has two results.
OneResultPerRun ==
    \A i, j \in DOMAIN resultsStream :
        resultsStream[i].run = resultsStream[j].run => i = j

\* omega:stats:inflight counts exactly the capsules that the dispatcher is
\* sending or the executor holds, plus what failures left behind.
InflightIsExact ==
    inflight = leaked + Cardinality(jobs)
               + (IF pc["dispatcher"] \in {"send", "failed"} THEN 1 ELSE 0)

\* executions.status reports an outcome only for an execution that had it: a
\* "succeeded" has a passing pack in the results stream, a "failed" a failing
\* one, or the dispatcher is about to publish it, or died before it did.
ExecutionOutcomeIsReal ==
    \A r \in Run :
        /\ execStatus[r] = "succeeded" =>
              \E p \in Entry(resultsStream) : p.run = r /\ p.passed
        /\ execStatus[r] = "failed" =>
              \/ \E p \in Entry(resultsStream) : p.run = r /\ ~p.passed
              \/ pc["dispatcher"] = "report" /\ Req.run = r
              \/ crashes > 0 /\ \A p \in Entry(resultsStream) : p.run # r

-----------------------------------------------------------------------------
(* Liveness, for behaviours without failures (MaxCrashes = 0).             *)

\* Every queued request is answered by a result, and both groups of the
\* results stream deal with it.
EveryRequestIsAnswered ==
    \A r \in Run :
        (\E q \in Entry(dispatchStream) : q.run = r) ~>
            (\E i \in DOMAIN resultsStream :
                /\ resultsStream[i].run = r
                /\ i \in acked["memory"] \cap acked["gate"])

\* A tree that global memory declares done, so that its search stops, gets
\* its fix merged, provided that the gate's policy cannot turn it down.
DoneLeadsToMerge ==
    \A t \in Tree : (t \in doneKey) ~> (\E c \in clean : TreeOf[c] = t)

-----------------------------------------------------------------------------
(* What the tests of metadata_store.py say of the status columns.          *)

\* test_candidate_status_merged_is_terminal
CandidateMergedIsTerminal ==
    [][\A c \in Cand : candStatus[c] = "merged" => candStatus'[c] = "merged"]_vars
=============================================================================
