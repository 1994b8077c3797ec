--------------------------- MODULE PipelineProofs ---------------------------
(***************************************************************************)
(* The delivery pipeline as a whole: a run has at most one result, the     *)
(* inflight counter is exact, and the ledger reports no outcome that an    *)
(* execution did not have, whatever crashes.  The invariants of gate and   *)
(* merger (AcceptanceProofs) hold in it too.                               *)
(***************************************************************************)
EXTENDS Pipeline, AcceptanceProofs, FiniteSetTheorems

-----------------------------------------------------------------------------
(* The invariant                                                           *)

\* The dispatcher is done with the request of run r, one way or the other.
Done(r) == \E i \in 1..handled["dispatcher"] : dispatchStream[i].run = r

\* A run id is queued once, and a job or a result exists only for a request
\* that the dispatcher is done with: a request it still has to deal with has
\* neither.
QueueInv ==
    /\ \A i, j \in DOMAIN dispatchStream :
          dispatchStream[i].run = dispatchStream[j].run => i = j
    /\ preparing # NoRequest =>
          \A q \in Entry(dispatchStream) : q.run # preparing[1].run

RunInv ==
    /\ \A j \in jobs : Done(j.run)
    /\ \A p \in Entry(resultsStream) : Done(p.run)
    /\ \A j, k \in jobs : j.run = k.run => j = k
    /\ \A j \in jobs : ~j.published =>
          \A p \in Entry(resultsStream) : p.run # j.run
    /\ OneResultPerRun

CountInv == IsFiniteSet(jobs) /\ InflightIsExact

\* A failure took the last trace of the run.
Lost(r) ==
    /\ crashes > 0
    /\ Done(r)
    /\ \A p \in Entry(resultsStream) : p.run # r
    /\ \A j \in jobs : j.run # r

\* Status s of the execution of run r is no invention.
Real(r, s) ==
    /\ s = "succeeded" => \E p \in Entry(resultsStream) : p.run = r /\ p.passed
    /\ s = "failed" =>
          \/ \E p \in Entry(resultsStream) : p.run = r /\ ~p.passed
          \/ pc["dispatcher"] = "report" /\ Req.run = r
          \/ Lost(r)

\* Nor is that of a ledger call under way.
OutcomeInv ==
    /\ \A p \in Proc : \A call \in Entry(calls[p]) :
          call.table = "executions" => Real(call.id, call.status)
    /\ \A r \in Run : Real(r, execStatus[r])

RestTypeOK ==
    /\ ExecutorTypeOK
    /\ memoryPipe \in Seq(Pack)
    /\ preparing \in {NoRequest} \cup {<<q>> : q \in Request}

PipelineInv ==
    /\ GateMergerInv
    /\ RestTypeOK
    /\ QueueInv
    /\ RunInv
    /\ CountInv
    /\ OutcomeInv

-----------------------------------------------------------------------------
(* Gate and merger, in a step of another process                           *)

LEMMA Processes == Daemon \subseteq Proc /\ "worker" \in Proc
BY PipelineAssumption

\* The entries that dispatcher and memory have in hand.
LEMMA InHandOthers ==
    ASSUME BaseTypeOK, PositionInv
    PROVE  /\ handled["dispatcher"] < delivered["dispatcher"] =>
                 /\ Current("dispatcher") \in 1..Len(dispatchStream)
                 /\ Req \in Request
                 /\ Req.run \in Run /\ Req.cand \in Cand
           /\ handled["memory"] < delivered["memory"] =>
                 /\ MemoryPack \in Pack
                 /\ MemoryPack \in Entry(resultsStream)
                 /\ MemoryPack.run \in Run /\ MemoryPack.cand \in Cand
                 /\ MemoryPack.passed \in BOOLEAN
                 /\ TreeOf[MemoryPack.cand] \in Tree
<1>1. /\ dispatchStream \in Seq(Request) /\ resultsStream \in Seq(Pack)
      /\ handled["dispatcher"] \in Nat /\ delivered["dispatcher"] \in Nat
      /\ handled["memory"] \in Nat /\ delivered["memory"] \in Nat
      /\ delivered["dispatcher"] <= Len(dispatchStream)
      /\ delivered["memory"] <= Len(resultsStream)
  BY DEF BaseTypeOK, StreamsTypeOK, FabricTypeOK, PositionInv, Daemon, Entries
<1>2. ASSUME handled["dispatcher"] < delivered["dispatcher"]
      PROVE  /\ Current("dispatcher") \in 1..Len(dispatchStream)
             /\ Req \in Request
             /\ Req.run \in Run /\ Req.cand \in Cand
  <2>1. Current("dispatcher") \in 1..Len(dispatchStream)
    BY <1>1, <1>2 DEF Current
  <2>2. Req \in Request
    BY <1>1, <2>1 DEF Req
  <2>. QED BY <2>1, <2>2 DEF Request
<1>3. ASSUME handled["memory"] < delivered["memory"]
      PROVE  /\ MemoryPack \in Pack
             /\ MemoryPack \in Entry(resultsStream)
             /\ MemoryPack.run \in Run /\ MemoryPack.cand \in Cand
             /\ MemoryPack.passed \in BOOLEAN
             /\ TreeOf[MemoryPack.cand] \in Tree
  <2>1. Current("memory") \in 1..Len(resultsStream)
    BY <1>1, <1>3 DEF Current
  <2>2. MemoryPack \in Pack /\ MemoryPack \in Entry(resultsStream)
    BY <1>1, <2>1 DEF MemoryPack, Entry
  <2>. QED BY <2>1, <2>2, FabricAssumption DEF Pack
<1>. QED BY <1>2, <1>3

\* Daemon d, or no daemon, makes a step of its loop.
Loops(d) ==
    \/ XReadGroup(d)
    \/ ExecutePipe(d)
    \/ handled[d] < delivered[d] /\ FinishEntry(d)
    \/ handled[d] < delivered[d] /\ \E l \in Label : Goto(d, l)
    \/ LoseBatch(d)
    \/ UNCHANGED daemonVars

\* Nobody but the merger says "merged" in the ledger.
CallsNoMerge ==
    \/ UNCHANGED ledgerVars
    \/ \E p \in Proc, cs \in Seq(Call) :
          MakeCalls(p, cs) /\ \A x \in Entry(cs) : x.status # "merged"

\* All that worker, dispatcher, executor and memory do to what gate and
\* merger work with.
Elsewhere(d) ==
    /\ Loops(d)
    /\ CallsNoMerge
    /\ \/ UNCHANGED dispatchStream
       \/ \E q \in Seq(Request) : dispatchStream' = dispatchStream \o q
    /\ \/ UNCHANGED resultsStream
       \/ \E p \in Pack : resultsStream' = Append(resultsStream, p)
    /\ node' \in [Node -> NodeHash]
    /\ doneKey' \in SUBSET Tree
    /\ execKey' \in {execKey, execKey + 1}
    /\ UNCHANGED crashes \/ Fails
    /\ UNCHANGED <<acceptedStream, acceptedKey, gateVars, mergerVars>>

LEMMA ElsewhereStep ==
    ASSUME GateMergerInv, NEW d \in {"dispatcher", "memory"}, Elsewhere(d)
    PROVE  GateMergerInv'
<1>. USE DEF Elsewhere
<1>0. /\ LedgerTypeOK /\ FabricTypeOK /\ StreamsTypeOK /\ PositionInv
      /\ BaseTypeOK /\ LedgerInv /\ d \in Daemon
      /\ pc \in [Daemon -> Label]
      /\ handled \in [Daemon -> Nat]
      /\ delivered \in [Daemon -> Nat]
      /\ crashes \in Nat /\ {"gate", "merger"} \subseteq Daemon
  <2>1. d \in Daemon /\ {"gate", "merger"} \subseteq Daemon
    BY DEF Daemon
  <2>2. MaxCrashes \in Nat
    BY StreamsAssumption
  <2>. QED BY <2>1, <2>2 DEF GateMergerInv, BaseTypeOK, StreamsTypeOK
<1>1. LedgerTypeOK' /\ StreamsTypeOK' /\ PositionInv'
      /\ dispatchStream' \in Seq(Request)
  <2>1. UNCHANGED ledgerVars \/ \E p \in Proc, cs \in Seq(Call) : MakeCalls(p, cs)
    BY DEF CallsNoMerge
  <2>. QED BY <1>0, <2>1, CommonStep DEF Loops
<1>2. BaseTypeOK'
  BY <1>0, <1>1 DEF BaseTypeOK, FabricTypeOK, GateTypeOK, MergerTypeOK, gateVars,
     mergerVars
<1>3. OutsideBoth
  <2>1. \A x \in {"gate", "merger"} : /\ pc'[x] = pc[x]
                                      /\ handled'[x] = handled[x]
                                      /\ delivered'[x] = delivered[x]
    BY <1>0 DEF Loops, XReadGroup, ExecutePipe, FinishEntry, Goto, LoseBatch,
       daemonVars
  <2>2. crashes' = 0 => crashes = 0
    BY <1>0 DEF Fails
  <2>. QED BY <2>1, <2>2 DEF OutsideBoth
<1>4. LedgerInv'
  <2>1. UNCHANGED commits
    BY DEF mergerVars
  <2>2. \/ UNCHANGED ledgerVars
        \/ \E p \in Proc, cs \in Seq(Call) :
              MakeCalls(p, cs) /\ \A x \in Entry(cs) : Backed(x)'
    BY DEF CallsNoMerge, Backed
  <2>. QED BY <1>0, <2>1, <2>2, LedgerInvKept
<1>. QED BY <1>1, <1>2, <1>3, <1>4, GateMergerElse

\* A process makes the next step of its ledger calls.
LEMMA LedgerActionGateMerger ==
    ASSUME GateMergerInv, NEW p \in Proc, LedgerAction(p)
    PROVE  GateMergerInv'
<1>1. /\ LedgerStep(p)
      /\ UNCHANGED <<fabricVars, streamVars, daemonVars, failureVars, acceptedKey,
                     gateVars, mergerVars>>
  BY DEF LedgerAction
<1>2. LedgerTypeOK'
  BY <1>1, LedgerStepType DEF GateMergerInv, BaseTypeOK
<1>3. BaseTypeOK' /\ PositionInv'
  BY <1>1, <1>2 DEF GateMergerInv, BaseTypeOK, FabricTypeOK, StreamsTypeOK, GateTypeOK,
     MergerTypeOK, PositionInv, Entries, fabricVars, streamVars, daemonVars,
     failureVars, gateVars, mergerVars
<1>4. OutsideBoth
  BY <1>1 DEF OutsideBoth, streamVars, daemonVars, failureVars
<1>5. LedgerInv'
  BY <1>1, LedgerInvStep DEF GateMergerInv, BaseTypeOK, mergerVars
<1>. QED BY <1>3, <1>4, <1>5, GateMergerElse

-----------------------------------------------------------------------------
(* The ledger calls of worker, dispatcher and memory                       *)

LEMMA ExecEntries ==
    ASSUME NEW r \in Run
    PROVE  /\ \A x \in Entry(record_execution_queued(r)) :
                 x.table = "executions" /\ x.id = r /\ x.status = "queued"
           /\ \A x \in Entry(mark_execution_started(r)) :
                 x.table = "executions" /\ x.id = r /\ x.status = "running"
           /\ \A b \in BOOLEAN : \A x \in Entry(complete_execution(r, b)) :
                 /\ x.table = "executions" /\ x.id = r
                 /\ x.status = IF b THEN "succeeded" ELSE "failed"
<1>1. \A st \in {"queued", "running", "succeeded", "failed"}, ph \in {"update", "upsert"} :
         [table |-> "executions", id |-> r, status |-> st, phase |-> ph] \in Call
  BY DEF Call, ExecCall, ExecStatus
<1>2. \A x \in Entry(record_execution_queued(r)) :
         x = [table |-> "executions", id |-> r, status |-> "queued",
              phase |-> "upsert"]
  BY <1>1, MadeEntry DEF record_execution_queued
<1>3. \A x \in Entry(mark_execution_started(r)) :
         x = [table |-> "executions", id |-> r, status |-> "running",
              phase |-> "update"]
  BY <1>1, MadeEntry DEF mark_execution_started
<1>4. ASSUME NEW b \in BOOLEAN, NEW x \in Entry(complete_execution(r, b))
      PROVE  x = [table |-> "executions", id |-> r,
                  status |-> IF b THEN "succeeded" ELSE "failed",
                  phase |-> "update"]
  BY <1>1, MadeEntry DEF complete_execution
<1>. QED BY <1>2, <1>3, <1>4

\* Two lists of calls, one after the other.
LEMMA TwoCalls ==
    ASSUME NEW u \in Seq(Call), NEW v \in Seq(Call)
    PROVE  u \o v \in Seq(Call) /\ \A x \in Entry(u \o v) : x \in Entry(u) \cup Entry(v)
BY EntryConcat

\* A call that reports neither a merge nor the outcome of an execution.
Innocent(x) ==
    /\ x.status # "merged"
    /\ x.table = "executions" => x.status \notin {"succeeded", "failed"}

LEMMA WorkerCalls ==
    ASSUME NEW r \in Run, NEW c \in Cand
    PROVE  \E cs \in Seq(Call) :
              /\ cs = record_candidate(c, "generated")
                      \o update_task_status(TreeOf[c], "running")
                      \o record_execution_queued(r)
                      \o update_candidate_status(c, "queued")
              /\ \A x \in Entry(cs) : Innocent(x)
<1>. DEFINE a1 == record_candidate(c, "generated")
            a2 == update_task_status(TreeOf[c], "running")
            a3 == record_execution_queued(r)
            a4 == update_candidate_status(c, "queued")
<1>0. TreeOf[c] \in Tree
  BY FabricAssumption
<1>1. a1 \in Seq(Call) /\ a2 \in Seq(Call) /\ a3 \in Seq(Call) /\ a4 \in Seq(Call)
  BY <1>0, CallTypes DEF CandStatus, TaskStatus
<1>2. \A x \in Entry(a1) \cup Entry(a2) \cup Entry(a3) \cup Entry(a4) : Innocent(x)
  BY <1>0, CallEntries, ExecEntries DEF CandStatus, TaskStatus, Innocent
<1>. HIDE DEF a1, a2, a3, a4
<1>3. /\ a1 \o a2 \in Seq(Call)
      /\ \A x \in Entry(a1 \o a2) : x \in Entry(a1) \cup Entry(a2)
  BY <1>1, TwoCalls
<1>4. /\ a1 \o a2 \o a3 \in Seq(Call)
      /\ \A x \in Entry(a1 \o a2 \o a3) : x \in Entry(a1 \o a2) \cup Entry(a3)
  BY <1>1, <1>3, TwoCalls
<1>5. /\ a1 \o a2 \o a3 \o a4 \in Seq(Call)
      /\ \A x \in Entry(a1 \o a2 \o a3 \o a4) : x \in Entry(a1 \o a2 \o a3) \cup Entry(a4)
  BY <1>1, <1>4, TwoCalls
<1>6. \A x \in Entry(a1 \o a2 \o a3 \o a4) : Innocent(x)
  BY <1>2, <1>3, <1>4, <1>5
<1>. QED BY <1>5, <1>6 DEF a1, a2, a3, a4

LEMMA SendCalls ==
    ASSUME NEW r \in Run, NEW c \in Cand
    PROVE  \E cs \in Seq(Call) :
              /\ cs = mark_execution_started(r) \o update_candidate_status(c, "running")
              /\ \A x \in Entry(cs) : Innocent(x)
<1>. DEFINE a1 == mark_execution_started(r)
            a2 == update_candidate_status(c, "running")
<1>1. a1 \in Seq(Call) /\ a2 \in Seq(Call)
  BY CallTypes DEF CandStatus
<1>2. \A x \in Entry(a1) \cup Entry(a2) : Innocent(x)
  BY CallEntries, ExecEntries DEF CandStatus, Innocent
<1>. HIDE DEF a1, a2
<1>3. a1 \o a2 \in Seq(Call) /\ \A x \in Entry(a1 \o a2) : Innocent(x)
  BY <1>1, <1>2, TwoCalls
<1>. QED BY <1>3 DEF a1, a2

\* The dispatcher's failure path: it reports the failure of this run.
LEMMA UndoCalls ==
    ASSUME NEW r \in Run, NEW c \in Cand
    PROVE  \E cs \in Seq(Call) :
              /\ cs = update_candidate_status(c, "dispatch_failed")
                      \o complete_execution(r, FALSE)
              /\ \A x \in Entry(cs) :
                    /\ x.status # "merged"
                    /\ x.table = "executions" => x.id = r /\ x.status = "failed"
<1>. DEFINE a1 == update_candidate_status(c, "dispatch_failed")
            a2 == complete_execution(r, FALSE)
            OK(x) == /\ x.status # "merged"
                     /\ x.table = "executions" => x.id = r /\ x.status = "failed"
<1>1. a1 \in Seq(Call) /\ a2 \in Seq(Call)
  BY CallTypes DEF CandStatus
<1>2. \A x \in Entry(a1) \cup Entry(a2) : OK(x)
  <2>1. \A x \in Entry(a1) : OK(x)
    BY CallEntries DEF CandStatus
  <2>2. \A x \in Entry(a2) : x.table = "executions" /\ x.id = r /\ x.status = "failed"
    <3>1. FALSE \in BOOLEAN
      OBVIOUS
    <3>. QED BY <3>1, ExecEntries
  <2>. QED BY <2>1, <2>2
<1>. HIDE DEF a1, a2
<1>3. a1 \o a2 \in Seq(Call) /\ \A x \in Entry(a1 \o a2) : OK(x)
  BY <1>1, <1>2, TwoCalls
<1>. QED BY <1>3 DEF a1, a2

LEMMA ApplyCalls ==
    ASSUME NEW c \in Cand
    PROVE  /\ <<>> \in Seq(Call)
           /\ \A x \in Entry(<<>>) : Innocent(x)
           /\ update_candidate_status(c, "failed") \in Seq(Call)
           /\ \A x \in Entry(update_candidate_status(c, "failed")) : Innocent(x)
           /\ update_candidate_status(c, "verified")
                 \o update_task_status(TreeOf[c], "verified") \in Seq(Call)
           /\ \A x \in Entry(update_candidate_status(c, "verified")
                             \o update_task_status(TreeOf[c], "verified")) : Innocent(x)
<1>. DEFINE a1 == update_candidate_status(c, "verified")
            a2 == update_task_status(TreeOf[c], "verified")
            a3 == update_candidate_status(c, "failed")
<1>0. TreeOf[c] \in Tree
  BY FabricAssumption
<1>1. a1 \in Seq(Call) /\ a2 \in Seq(Call) /\ a3 \in Seq(Call)
  BY <1>0, CallTypes DEF CandStatus, TaskStatus
<1>2. \A x \in Entry(a1) \cup Entry(a2) \cup Entry(a3) : Innocent(x)
  BY <1>0, CallEntries DEF CandStatus, TaskStatus, Innocent
<1>3. <<>> \in Seq(Call) /\ \A x \in Entry(<<>>) : Innocent(x)
  BY EntryOne
<1>. HIDE DEF a1, a2
<1>4. a1 \o a2 \in Seq(Call) /\ \A x \in Entry(a1 \o a2) : Innocent(x)
  BY <1>1, <1>2, TwoCalls
<1>. QED BY <1>1, <1>2, <1>3, <1>4 DEF a1, a2

-----------------------------------------------------------------------------
(* Types, and the invariant of gate and merger, in every step              *)

\* A step that makes no calls, or only ones that report no merge.
LEMMA QuietCalls ==
    ASSUME NEW p \in Proc, NEW cs \in Seq(Call), MakeCalls(p, cs),
           \A x \in Entry(cs) : x.status # "merged"
    PROVE  CallsNoMerge
BY DEF CallsNoMerge

LEMMA WorkerBase ==
    ASSUME GateMergerInv, RestTypeOK, Worker
    PROVE  GateMergerInv' /\ RestTypeOK'
<1>. USE DEF RestTypeOK
<1>0. FabricTypeOK /\ ExecutorTypeOK /\ memoryPipe \in Seq(Pack)
  BY DEF GateMergerInv, BaseTypeOK
<1>1. ASSUME NEW r \in Run, NEW c \in Cand, PrepareCapsule(r, c)
      PROVE  GateMergerInv' /\ RestTypeOK'
  <2>1. CallsNoMerge
    <3>1. PICK cs \in Seq(Call) :
             /\ cs = record_candidate(c, "generated")
                     \o update_task_status(TreeOf[c], "running")
                     \o record_execution_queued(r)
                     \o update_candidate_status(c, "queued")
             /\ \A x \in Entry(cs) : Innocent(x)
      BY WorkerCalls
    <3>2. MakeCalls("worker", cs)
      BY <1>1, <3>1 DEF PrepareCapsule
    <3>. QED BY <3>1, <3>2, QuietCalls, Processes DEF Innocent
  <2>2. node' \in [Node -> NodeHash]
    <3>1. FreshHash \in NodeHash
      BY DEF FreshHash, NoHash, NodeHash
    <3>. QED BY <1>0, <1>1, <3>1 DEF PrepareCapsule, FabricTypeOK
  <2>3. Elsewhere("memory")
    BY <1>0, <1>1, <2>1, <2>2 DEF Elsewhere, Loops, PrepareCapsule, workerFrame,
       streamVars, failureVars, FabricTypeOK
  <2>4. [run |-> r, cand |-> c] \in Request
    BY DEF Request
  <2>5. RestTypeOK'
    BY <1>0, <1>1, <2>4 DEF PrepareCapsule, workerFrame, executorVars, ExecutorTypeOK
  <2>. QED BY <2>3, <2>5, ElsewhereStep
<1>2. CASE QueueCapsule
  <2>1. preparing \in Seq(Request)
    BY <1>2 DEF QueueCapsule
  <2>2. Elsewhere("memory")
    BY <1>0, <1>2, <2>1 DEF Elsewhere, Loops, QueueCapsule, workerFrame,
       streamVars, failureVars, FabricTypeOK, CallsNoMerge
  <2>3. RestTypeOK'
    BY <1>0, <1>2 DEF QueueCapsule, workerFrame, executorVars, ExecutorTypeOK
  <2>. QED BY <2>2, <2>3, ElsewhereStep
<1>. QED BY <1>1, <1>2 DEF Worker

LEMMA DispatcherBase ==
    ASSUME GateMergerInv, RestTypeOK,
           DispatcherAction \/ (RestartDispatcher /\ UNCHANGED outsideDispatcher)
    PROVE  GateMergerInv' /\ RestTypeOK'
<1>. USE DEF outsideDispatcher
<1>0. /\ FabricTypeOK /\ ExecutorTypeOK /\ memoryPipe \in Seq(Pack)
      /\ node \in [Node -> NodeHash] /\ doneKey \in SUBSET Tree
      /\ BaseTypeOK /\ PositionInv /\ "dispatcher" \in Proc
      /\ pc["dispatcher"] \in {"send", "failed", "report"} =>
            handled["dispatcher"] < delivered["dispatcher"]
      /\ UNCHANGED <<memoryPipe, acceptedKey, gateVars, mergerVars, preparing>>
  BY Processes DEF GateMergerInv, BaseTypeOK, FabricTypeOK, PositionInv, Daemon,
     RestTypeOK, DispatcherAction
<1>1. CASE IncrInflight
  <2>1. Elsewhere("dispatcher")
    BY <1>0, <1>1 DEF Elsewhere, Loops, IncrInflight, Handling, CallsNoMerge,
       dispatcherFrame, fabricVars, failureVars, Label
  <2>2. RestTypeOK'
    BY <1>0, <1>1 DEF IncrInflight, RestTypeOK, ExecutorTypeOK
  <2>. QED BY <2>1, <2>2, ElsewhereStep
<1>2. CASE SendCapsule
  <2>0. Req.run \in Run /\ Req.cand \in Cand
    BY <1>0, <1>2, InHandOthers DEF SendCapsule
  <2>1. CallsNoMerge
    <3>1. PICK cs \in Seq(Call) :
             /\ cs = mark_execution_started(Req.run)
                     \o update_candidate_status(Req.cand, "running")
             /\ \A x \in Entry(cs) : Innocent(x)
      BY <2>0, SendCalls
    <3>2. MakeCalls("dispatcher", cs)
      BY <1>2, <3>1 DEF SendCapsule
    <3>. QED BY <1>0, <3>1, <3>2, QuietCalls DEF Innocent
  <2>2. Elsewhere("dispatcher")
    BY <1>0, <1>2, <2>1 DEF Elsewhere, Loops, SendCapsule, dispatcherFrame,
       fabricVars, failureVars
  <2>3. [run |-> Req.run, cand |-> Req.cand, published |-> FALSE] \in Job
    BY <2>0 DEF Job
  <2>4. RestTypeOK'
    BY <1>0, <1>2, <2>3 DEF SendCapsule, Receive, RestTypeOK, ExecutorTypeOK
  <2>. QED BY <2>2, <2>4, ElsewhereStep
<1>3. CASE SendFails
  <2>1. Elsewhere("dispatcher")
    BY <1>0, <1>3 DEF Elsewhere, Loops, SendFails, CallsNoMerge, dispatcherFrame,
       fabricVars, failureVars, Label
  <2>2. RestTypeOK'
    BY <1>0, <1>3 DEF SendFails, executorVars, RestTypeOK, ExecutorTypeOK
  <2>. QED BY <2>1, <2>2, ElsewhereStep
<1>4. CASE UndoInflight
  <2>0. Req.run \in Run /\ Req.cand \in Cand
    BY <1>0, <1>4, InHandOthers DEF UndoInflight
  <2>1. CallsNoMerge
    <3>1. PICK cs \in Seq(Call) :
             /\ cs = update_candidate_status(Req.cand, "dispatch_failed")
                     \o complete_execution(Req.run, FALSE)
             /\ \A x \in Entry(cs) : x.status # "merged"
      BY <2>0, UndoCalls
    <3>2. MakeCalls("dispatcher", cs)
      BY <1>4, <3>1 DEF UndoInflight
    <3>. QED BY <1>0, <3>1, <3>2, QuietCalls
  <2>2. Elsewhere("dispatcher")
    BY <1>0, <1>4, <2>1 DEF Elsewhere, Loops, UndoInflight, dispatcherFrame,
       fabricVars, failureVars, Label
  <2>3. RestTypeOK'
    BY <1>0, <1>4 DEF UndoInflight, RestTypeOK, ExecutorTypeOK
  <2>. QED BY <2>2, <2>3, ElsewhereStep
<1>5. CASE ReportFailure
  <2>0. Req.run \in Run /\ Req.cand \in Cand
    BY <1>0, <1>5, InHandOthers DEF ReportFailure
  <2>1. [run |-> Req.run, cand |-> Req.cand, passed |-> FALSE,
         isolated |-> FALSE, digest |-> Req.cand, key |-> 0] \in Pack
    BY <2>0 DEF Pack
  <2>2. Elsewhere("dispatcher")
    BY <1>0, <1>5, <2>1 DEF Elsewhere, Loops, ReportFailure, CallsNoMerge,
       dispatcherFrame, fabricVars, failureVars
  <2>3. RestTypeOK'
    BY <1>0, <1>5 DEF ReportFailure, executorVars, RestTypeOK, ExecutorTypeOK
  <2>. QED BY <2>2, <2>3, ElsewhereStep
<1>6. CASE DispatcherLoop
  <2>1. Elsewhere("dispatcher")
    BY <1>0, <1>6 DEF Elsewhere, Loops, DispatcherLoop, CallsNoMerge,
       dispatcherFrame, fabricVars, failureVars
  <2>2. RestTypeOK'
    BY <1>0, <1>6 DEF DispatcherLoop, executorVars, RestTypeOK, ExecutorTypeOK
  <2>. QED BY <2>1, <2>2, ElsewhereStep
<1>7. CASE RestartDispatcher
  <2>0. <<>> \in Seq(Call) /\ Entry(<<>>) = {}
    BY EntryOne
  <2>1. CallsNoMerge
    <3>1. MakeCalls("dispatcher", <<>>)
      BY <1>7 DEF RestartDispatcher, LoseBatch, MakeCalls
    <3>. QED BY <1>0, <2>0, <3>1, QuietCalls
  <2>2. Elsewhere("dispatcher")
    BY <1>0, <1>7, <2>1 DEF Elsewhere, Loops, RestartDispatcher, LoseBatch,
       fabricVars, streamVars
  <2>3. RestTypeOK'
    BY <1>0, <1>7 DEF RestartDispatcher, RestTypeOK, ExecutorTypeOK
  <2>. QED BY <2>2, <2>3, ElsewhereStep
<1>. QED BY <1>1, <1>2, <1>3, <1>4, <1>5, <1>6, <1>7
     DEF DispatcherAction, DispatcherHandler

\* What the executor does, its failures included.
ExecutorStep ==
    \/ \E j \in jobs : PublishResult(j) \/ DecrInflight(j) \/ AbortJob(j)
    \/ RestartExecutor

LEMMA ExecutorBase ==
    ASSUME GateMergerInv, RestTypeOK, IsFiniteSet(jobs), ExecutorStep,
           UNCHANGED outsideDispatcher
    PROVE  GateMergerInv' /\ RestTypeOK'
<1>. USE DEF outsideDispatcher
<1>0. /\ FabricTypeOK /\ ExecutorTypeOK /\ memoryPipe \in Seq(Pack)
      /\ node \in [Node -> NodeHash] /\ doneKey \in SUBSET Tree
      /\ execKey \in Nat
  BY DEF GateMergerInv, BaseTypeOK, FabricTypeOK, StreamsTypeOK, RestTypeOK
<1>1. ASSUME NEW j \in jobs, PublishResult(j)
      PROVE  GateMergerInv' /\ RestTypeOK'
  <2>1. PICK passed \in BOOLEAN :
           resultsStream' = Append(resultsStream,
              [run |-> j.run, cand |-> j.cand, passed |-> passed,
               isolated |-> Hardware, digest |-> j.cand, key |-> execKey])
    BY <1>1 DEF PublishResult
  <2>2. j \in Job
    BY <1>0 DEF ExecutorTypeOK
  <2>3. [run |-> j.run, cand |-> j.cand, passed |-> passed,
         isolated |-> Hardware, digest |-> j.cand, key |-> execKey] \in Pack
    BY <1>0, <2>2, StreamsAssumption DEF Job, Pack
  <2>4. Elsewhere("dispatcher")
    <3>1. \E p \in Pack : resultsStream' = Append(resultsStream, p)
      BY <2>1, <2>3
    <3>. QED BY <1>0, <1>1, <3>1 DEF Elsewhere, Loops, PublishResult, CallsNoMerge,
             fabricVars, failureVars
  <2>5. [j EXCEPT !.published = TRUE] \in Job
    BY <2>2 DEF Job
  <2>6. RestTypeOK'
    BY <1>0, <1>1, <2>5 DEF PublishResult, RestTypeOK, ExecutorTypeOK
  <2>. QED BY <2>4, <2>6, ElsewhereStep
<1>2. ASSUME NEW j \in jobs, DecrInflight(j) \/ AbortJob(j)
      PROVE  GateMergerInv' /\ RestTypeOK'
  <2>1. Elsewhere("dispatcher")
    BY <1>0, <1>2 DEF Elsewhere, Loops, DecrInflight, AbortJob, CallsNoMerge,
       fabricVars, failureVars, streamVars
  <2>2. RestTypeOK'
    BY <1>0, <1>2 DEF DecrInflight, AbortJob, RestTypeOK, ExecutorTypeOK
  <2>. QED BY <2>1, <2>2, ElsewhereStep
<1>3. CASE RestartExecutor
  <2>1. Elsewhere("dispatcher")
    BY <1>0, <1>3 DEF Elsewhere, Loops, RestartExecutor, CallsNoMerge,
       fabricVars, streamVars
  <2>2. Cardinality(jobs) \in Nat
    BY FS_CardinalityType
  <2>3. RestTypeOK'
    BY <1>0, <1>3, <2>2 DEF RestartExecutor, RestTypeOK, ExecutorTypeOK
  <2>. QED BY <2>1, <2>3, ElsewhereStep
<1>. QED BY <1>1, <1>2, <1>3 DEF ExecutorStep

MemoryStep == MemoryHandler \/ MemoryLoop \/ RestartMemory

LEMMA MemoryBase ==
    ASSUME GateMergerInv, RestTypeOK, MemoryStep, UNCHANGED outsideMemory
    PROVE  GateMergerInv' /\ RestTypeOK'
<1>. USE DEF outsideMemory
<1>0. /\ FabricTypeOK /\ ExecutorTypeOK /\ memoryPipe \in Seq(Pack)
      /\ node \in [Node -> NodeHash] /\ doneKey \in SUBSET Tree
      /\ BaseTypeOK /\ PositionInv /\ "memory" \in Proc
      /\ pc["memory"] = "apply" => handled["memory"] < delivered["memory"]
  BY Processes DEF GateMergerInv, BaseTypeOK, FabricTypeOK, PositionInv, Daemon,
     RestTypeOK
<1>1. CASE CompleteExecution
  <2>0. MemoryPack.run \in Run /\ MemoryPack.passed \in BOOLEAN
    BY <1>0, <1>1, InHandOthers DEF CompleteExecution, Handling
  <2>. DEFINE cs == complete_execution(MemoryPack.run, MemoryPack.passed)
  <2>1. cs \in Seq(Call) /\ \A x \in Entry(cs) : x.status # "merged"
    BY <2>0, CallTypes, ExecEntries
  <2>2. MakeCalls("memory", cs)
    BY <1>1 DEF CompleteExecution
  <2>. HIDE DEF cs
  <2>3. CallsNoMerge
    BY <1>0, <2>1, <2>2, QuietCalls
  <2>4. Elsewhere("memory")
    BY <1>0, <1>1, <2>3 DEF Elsewhere, Loops, CompleteExecution, Handling,
       memoryFrame, streamVars, failureVars, Label
  <2>5. RestTypeOK'
    BY <1>0, <1>1 DEF CompleteExecution, RestTypeOK, ExecutorTypeOK, executorVars
  <2>. QED BY <2>4, <2>5, ElsewhereStep
<1>2. CASE ApplyResult
  <2>0. MemoryPack \in Pack /\ MemoryPack.cand \in Cand
    BY <1>0, <1>2, InHandOthers DEF ApplyResult
  <2>1. CallsNoMerge
    <3>. DEFINE wins  == update_candidate_status(MemoryPack.cand, "verified")
                         \o update_task_status(TreeOf[MemoryPack.cand], "verified")
                loses == update_candidate_status(MemoryPack.cand, "failed")
    <3>1. /\ \A cs \in {<<>>, wins, loses} : cs \in Seq(Call)
          /\ \A cs \in {<<>>, wins, loses} : \A x \in Entry(cs) : x.status # "merged"
      BY <2>0, ApplyCalls DEF Innocent
    <3>2. \E cs \in {<<>>, wins, loses} : MakeCalls("memory", cs)
      BY <1>2 DEF ApplyResult
    <3>. HIDE DEF wins, loses
    <3>. QED BY <1>0, <3>1, <3>2, QuietCalls
  <2>2. Elsewhere("memory")
    BY <1>0, <1>2, <2>1 DEF Elsewhere, Loops, ApplyResult, memoryFrame,
       streamVars, failureVars
  <2>3. RestTypeOK'
    BY <1>0, <1>2, <2>0 DEF ApplyResult, RestTypeOK, ExecutorTypeOK, executorVars
  <2>. QED BY <2>2, <2>3, ElsewhereStep
<1>3. CASE ExecuteMemoryPipe
  <2>1. PassedInPipe \subseteq Cand
    <3>1. \A i \in DOMAIN memoryPipe : memoryPipe[i].cand \in Cand
      <4>1. \A i \in DOMAIN memoryPipe : memoryPipe[i] \in Pack
        BY <1>0
      <4>. QED BY <4>1 DEF Pack
    <3>. QED BY <3>1 DEF PassedInPipe
  <2>2. doneKey' \in SUBSET Tree
    BY <1>0, <1>3, <2>1, FabricAssumption DEF ExecuteMemoryPipe
  <2>3. \A n \in Node : BackpropVisits(n) \in Nat
    <3>. SUFFICES ASSUME NEW n \in Node
         PROVE  BackpropVisits(n) \in Nat
      OBVIOUS
    <3>1. IsFiniteSet(1..Len(memoryPipe))
      BY <1>0, FS_Interval
    <3>2. {i \in DOMAIN memoryPipe : n \in Path[memoryPipe[i].cand]}
             \subseteq 1..Len(memoryPipe)
      BY <1>0
    <3>3. IsFiniteSet({i \in DOMAIN memoryPipe : n \in Path[memoryPipe[i].cand]})
      BY <3>1, <3>2, FS_Subset
    <3>. QED BY <3>3, FS_CardinalityType DEF BackpropVisits
  <2>4. node' \in [Node -> NodeHash]
    <3>1. \A h \in NodeHash, v \in Nat, b \in BOOLEAN :
             [h EXCEPT !.visits = @ + v, !.terminal = b] \in NodeHash
      <4>. SUFFICES ASSUME NEW h \in NodeHash, NEW v \in Nat, NEW b \in BOOLEAN
           PROVE  [h EXCEPT !.visits = @ + v, !.terminal = b] \in NodeHash
        OBVIOUS
      <4>1. h.visits + v \in Nat
        BY DEF NodeHash
      <4>2. \A w \in Nat : [h EXCEPT !.visits = w] \in NodeHash
        BY DEF NodeHash
      <4>3. \A g \in NodeHash : [g EXCEPT !.terminal = b] \in NodeHash
        BY DEF NodeHash
      <4>. QED BY <4>1, <4>2, <4>3
    <3>2. \A n \in Node : (node[n].terminal \/ n \in PassedInPipe) \in BOOLEAN
      OBVIOUS
    <3>3. \A n \in Node : node[n] \in NodeHash
      BY <1>0
    <3>4. \A n \in Node :
             [node[n] EXCEPT !.visits = @ + BackpropVisits(n),
                             !.terminal = @ \/ n \in PassedInPipe] \in NodeHash
      BY <2>3, <3>1, <3>2, <3>3
    <3>. QED BY <1>3, <3>4 DEF ExecuteMemoryPipe
  <2>5. Elsewhere("memory")
    BY <1>0, <1>3, <2>2, <2>4 DEF Elsewhere, Loops, ExecuteMemoryPipe, memoryFrame,
       streamVars, failureVars, CallsNoMerge
  <2>6. RestTypeOK'
    <3>1. memoryPipe' = <<>> /\ UNCHANGED <<executorVars, preparing>>
      BY <1>3 DEF ExecuteMemoryPipe
    <3>. QED BY <1>0, <3>1 DEF RestTypeOK, ExecutorTypeOK, executorVars
  <2>. QED BY <2>5, <2>6, ElsewhereStep
<1>4. CASE ReadMemoryBatch
  <2>1. Elsewhere("memory")
    BY <1>0, <1>4 DEF Elsewhere, Loops, ReadMemoryBatch, memoryFrame,
       streamVars, failureVars, CallsNoMerge
  <2>2. RestTypeOK'
    BY <1>0, <1>4 DEF ReadMemoryBatch, RestTypeOK, ExecutorTypeOK, executorVars
  <2>. QED BY <2>1, <2>2, ElsewhereStep
<1>5. CASE RestartMemory
  <2>0. <<>> \in Seq(Call) /\ Entry(<<>>) = {}
    BY EntryOne
  <2>1. CallsNoMerge
    <3>1. MakeCalls("memory", <<>>)
      BY <1>5 DEF RestartMemory, LoseBatch, MakeCalls
    <3>. QED BY <1>0, <2>0, <3>1, QuietCalls
  <2>2. Elsewhere("memory")
    BY <1>0, <1>5, <2>1 DEF Elsewhere, Loops, RestartMemory, LoseBatch,
       fabricVars, streamVars
  <2>3. RestTypeOK'
    BY <1>0, <1>5 DEF RestartMemory, RestTypeOK, ExecutorTypeOK, executorVars
  <2>. QED BY <2>2, <2>3, ElsewhereStep
<1>. QED BY <1>1, <1>2, <1>3, <1>4, <1>5 DEF MemoryStep, MemoryHandler, MemoryLoop

-----------------------------------------------------------------------------
(* One request, one job, one result per run                                *)

\* The dispatcher keeps its place, or moves on; the stream of requests is
\* left alone, or grows.
LEMMA DoneStays ==
    ASSUME BaseTypeOK, PositionInv,
           handled'["dispatcher"] \in Nat,
           handled["dispatcher"] <= handled'["dispatcher"],
           \/ UNCHANGED dispatchStream
           \/ \E q \in Seq(Request) : dispatchStream' = dispatchStream \o q
    PROVE  \A r : Done(r) => Done(r)'
<1>1. /\ dispatchStream \in Seq(Request)
      /\ handled["dispatcher"] \in Nat
      /\ delivered["dispatcher"] \in Nat
      /\ handled["dispatcher"] <= delivered["dispatcher"]
      /\ delivered["dispatcher"] <= Len(dispatchStream)
  BY DEF BaseTypeOK, FabricTypeOK, StreamsTypeOK, PositionInv, Daemon, Entries
<1>2. \A i \in 1..Len(dispatchStream) : dispatchStream'[i] = dispatchStream[i]
  <2>1. CASE UNCHANGED dispatchStream
    BY <2>1
  <2>2. ASSUME NEW q \in Seq(Request), dispatchStream' = dispatchStream \o q
        PROVE  \A i \in 1..Len(dispatchStream) : dispatchStream'[i] = dispatchStream[i]
    BY <1>1, <2>2
  <2>. QED BY <2>1, <2>2
<1>3. \A i \in 1..handled["dispatcher"] :
         i \in 1..Len(dispatchStream) /\ i \in 1..handled'["dispatcher"]
  BY <1>1
<1>. QED BY <1>2, <1>3 DEF Done

\* The request in hand is not done with, and is once its entry is finished.
LEMMA InHandIsNotDone ==
    ASSUME BaseTypeOK, PositionInv, QueueInv,
           handled["dispatcher"] < delivered["dispatcher"]
    PROVE  /\ ~Done(Req.run)
           /\ /\ UNCHANGED dispatchStream
              /\ handled'["dispatcher"] \in {handled["dispatcher"] + 1,
                                            delivered["dispatcher"]}
              => \A r : r = Req.run => Done(r)'
<1>1. /\ dispatchStream \in Seq(Request)
      /\ handled["dispatcher"] \in Nat
      /\ delivered["dispatcher"] \in Nat
      /\ delivered["dispatcher"] <= Len(dispatchStream)
  BY DEF BaseTypeOK, FabricTypeOK, StreamsTypeOK, PositionInv, Daemon, Entries
<1>2. DOMAIN dispatchStream = 1..Len(dispatchStream)
  BY <1>1
<1>3. Current("dispatcher") \in DOMAIN dispatchStream
  BY <1>1, <1>2 DEF Current
<1>4. \A i \in 1..handled["dispatcher"] :
         i \in DOMAIN dispatchStream /\ i # Current("dispatcher")
  BY <1>1, <1>2 DEF Current
<1>5. ~Done(Req.run)
  BY <1>3, <1>4 DEF QueueInv, Done, Req
<1>6. \A h \in {handled["dispatcher"] + 1, delivered["dispatcher"]} :
         Current("dispatcher") \in 1..h
  BY <1>1 DEF Current
<1>7. ASSUME UNCHANGED dispatchStream,
             handled'["dispatcher"] \in {handled["dispatcher"] + 1, delivered["dispatcher"]}
      PROVE  \A r : r = Req.run => Done(r)'
  BY <1>6, <1>7 DEF Done, Req
<1>. QED BY <1>5, <1>7

LEMMA OneMore ==
    ASSUME NEW s \in Seq(Pack), NEW x \in Pack,
           \A i, j \in DOMAIN s : s[i].run = s[j].run => i = j,
           \A p \in Entry(s) : p.run # x.run
    PROVE  LET u == Append(s, x)
           IN  \A i, j \in DOMAIN u : u[i].run = u[j].run => i = j
<1>. DEFINE u == Append(s, x)
<1>1. /\ DOMAIN u = 1..(Len(s) + 1)
      /\ DOMAIN s = 1..Len(s)
      /\ \A i \in 1..Len(s) : u[i] = s[i]
      /\ u[Len(s) + 1] = x
      /\ Len(s) \in Nat
  OBVIOUS
<1>2. \A i \in DOMAIN u : i \in DOMAIN s \/ i = Len(s) + 1
  BY <1>1
<1>3. \A i \in DOMAIN s : s[i].run # x.run
  BY DEF Entry
<1>. HIDE DEF u
<1>4. \A i, j \in DOMAIN u : u[i].run = u[j].run => i = j
  BY <1>1, <1>2, <1>3
<1>. QED BY <1>4 DEF u

\* What no other process than dispatcher and executor changes.
Aside ==
    /\ UNCHANGED <<resultsStream, executorVars>>
    /\ pc'["dispatcher"] = pc["dispatcher"]
    /\ handled'["dispatcher"] = handled["dispatcher"]
    /\ UNCHANGED crashes \/ Fails

LEMMA OthersAreAside ==
    ASSUME GateMergerInv,
           \/ Worker
           \/ \E p \in Proc : LedgerAction(p)
           \/ MemoryStep /\ UNCHANGED outsideMemory
           \/ GateStep /\ UNCHANGED outsideGate
           \/ MergerStep /\ UNCHANGED outsideMerger
           \/ UNCHANGED vars
    PROVE  /\ Aside
           /\ Worker \/ UNCHANGED <<dispatchStream, preparing>>
<1>0. /\ pc \in [Daemon -> Label] /\ handled \in [Daemon -> Nat]
      /\ {"memory", "gate", "merger", "dispatcher"} \subseteq Daemon
  BY DEF GateMergerInv, BaseTypeOK, StreamsTypeOK, Daemon
<1>1. CASE Worker
  BY <1>1 DEF Worker, PrepareCapsule, QueueCapsule, workerFrame, Aside, streamVars,
     daemonVars, failureVars
<1>2. ASSUME NEW p \in Proc, LedgerAction(p)
      PROVE  Aside /\ UNCHANGED <<dispatchStream, preparing>>
  BY <1>2 DEF LedgerAction, Aside, fabricVars, streamVars, daemonVars, failureVars
<1>3. CASE MemoryStep /\ UNCHANGED outsideMemory
  <2>1. UNCHANGED <<executorVars, preparing>>
    BY <1>3 DEF outsideMemory
  <2>2. UNCHANGED <<resultsStream, dispatchStream>>
    BY <1>3 DEF MemoryStep, MemoryHandler, MemoryLoop, CompleteExecution, ApplyResult,
       ReadMemoryBatch, ExecuteMemoryPipe, RestartMemory, memoryFrame, streamVars,
       fabricVars
  <2>3. UNCHANGED crashes \/ Fails
    BY <1>3 DEF MemoryStep, MemoryHandler, MemoryLoop, CompleteExecution, ApplyResult,
       ReadMemoryBatch, ExecuteMemoryPipe, RestartMemory, memoryFrame, failureVars,
       LoseBatch
  <2>4. pc'["dispatcher"] = pc["dispatcher"] /\ handled'["dispatcher"] = handled["dispatcher"]
    BY <1>0, <1>3 DEF MemoryStep, MemoryHandler, MemoryLoop, CompleteExecution,
       ApplyResult, ReadMemoryBatch, ExecuteMemoryPipe, RestartMemory, Goto,
       FinishEntry, XReadGroup, ExecutePipe, LoseBatch
  <2>. QED BY <2>1, <2>2, <2>3, <2>4 DEF Aside
<1>4. CASE GateStep /\ UNCHANGED outsideGate
  <2>1. UNCHANGED <<executorVars, preparing>>
    BY <1>4 DEF outsideGate
  <2>2. UNCHANGED <<resultsStream, dispatchStream>> /\ (UNCHANGED crashes \/ Fails)
    BY <1>4 DEF GateStep, GateHandler, GateLoop, ReserveTree, Accept, Reject,
       ReadGateBatch, ExecuteGatePipe, RestartGate, gateFrame, streamVars,
       fabricVars, failureVars, LoseBatch
  <2>3. pc'["dispatcher"] = pc["dispatcher"] /\ handled'["dispatcher"] = handled["dispatcher"]
    BY <1>0, <1>4 DEF GateStep, GateHandler, GateLoop, ReserveTree, Accept, Reject,
       ReadGateBatch, ExecuteGatePipe, RestartGate, Goto, FinishEntry, XReadGroup,
       ExecutePipe, LoseBatch
  <2>. QED BY <2>1, <2>2, <2>3 DEF Aside
<1>5. CASE MergerStep /\ UNCHANGED outsideMerger
  <2>1. UNCHANGED <<executorVars, preparing>>
    BY <1>5 DEF outsideMerger
  <2>2. UNCHANGED <<resultsStream, dispatchStream>> /\ (UNCHANGED crashes \/ Fails)
    BY <1>5 DEF MergerStep, MergerHandler, MergerLoop, CheckWinner, ClaimTree,
       RecheckWinner, PatchApplied, MergeRecorded, MergeRaises, ReleaseTree,
       RestartMerger, mergerFrame, streamVars, fabricVars, failureVars, LoseBatch
  <2>3. pc'["dispatcher"] = pc["dispatcher"] /\ handled'["dispatcher"] = handled["dispatcher"]
    BY <1>0, <1>5 DEF MergerStep, MergerHandler, MergerLoop, CheckWinner, ClaimTree,
       RecheckWinner, PatchApplied, MergeRecorded, MergeRaises, ReleaseTree,
       RestartMerger, Goto, FinishEntry, XReadGroup, ExecutePipe, LoseBatch
  <2>. QED BY <2>1, <2>2, <2>3 DEF Aside
<1>6. CASE UNCHANGED vars
  BY <1>6 DEF vars, Aside, fabricVars, streamVars, daemonVars, failureVars
<1>. QED BY <1>1, <1>2, <1>3, <1>4, <1>5, <1>6

LEMMA QueueKept ==
    ASSUME GateMergerInv, RestTypeOK, QueueInv,
           Worker \/ UNCHANGED <<dispatchStream, preparing>>
    PROVE  QueueInv'
<1>0. dispatchStream \in Seq(Request)
  BY DEF GateMergerInv, BaseTypeOK, FabricTypeOK
<1>1. ASSUME NEW r \in Run, NEW c \in Cand, PrepareCapsule(r, c)
      PROVE  QueueInv'
  BY <1>1 DEF PrepareCapsule, QueueInv
<1>2. CASE QueueCapsule
  <2>1. PICK q \in Request : preparing = <<q>>
    BY <1>2 DEF QueueCapsule, RestTypeOK
  <2>2. /\ DOMAIN dispatchStream' = 1..(Len(dispatchStream) + 1)
        /\ DOMAIN dispatchStream = 1..Len(dispatchStream)
        /\ \A i \in 1..Len(dispatchStream) : dispatchStream'[i] = dispatchStream[i]
        /\ dispatchStream'[Len(dispatchStream) + 1] = q
        /\ Len(dispatchStream) \in Nat
    BY <1>0, <1>2, <2>1 DEF QueueCapsule
  <2>3. \A i \in DOMAIN dispatchStream' :
           i \in DOMAIN dispatchStream \/ i = Len(dispatchStream) + 1
    BY <2>2
  <2>4. \A i \in DOMAIN dispatchStream : dispatchStream[i].run # q.run
    BY <1>2, <2>1 DEF QueueCapsule, QueueInv, Entry
  <2>5. preparing' = NoRequest
    BY <1>2 DEF QueueCapsule
  <2>6. \A i, j \in DOMAIN dispatchStream' :
           dispatchStream'[i].run = dispatchStream'[j].run => i = j
    BY <2>2, <2>3, <2>4 DEF QueueInv
  <2>. QED BY <2>5, <2>6 DEF QueueInv
<1>3. CASE UNCHANGED <<dispatchStream, preparing>>
  BY <1>3 DEF QueueInv
<1>. QED BY <1>1, <1>2, <1>3 DEF Worker

LEMMA RunAside ==
    ASSUME GateMergerInv, RestTypeOK, RunInv, CountInv, Aside,
           Worker \/ UNCHANGED <<dispatchStream, preparing>>
    PROVE  RunInv' /\ CountInv'
<1>1. \/ UNCHANGED dispatchStream
      \/ \E q \in Seq(Request) : dispatchStream' = dispatchStream \o q
  <2>1. CASE QueueCapsule
    <3>1. preparing \in Seq(Request)
      BY <2>1 DEF QueueCapsule, RestTypeOK
    <3>. QED BY <2>1, <3>1 DEF QueueCapsule
  <2>. QED BY <2>1 DEF Worker, PrepareCapsule
<1>2. handled["dispatcher"] \in Nat
  BY DEF GateMergerInv, BaseTypeOK, StreamsTypeOK, Daemon
<1>3. \A r : Done(r) => Done(r)'
  BY <1>1, <1>2, DoneStays DEF Aside, GateMergerInv
<1>4. UNCHANGED <<resultsStream, jobs, inflight, leaked>>
  BY DEF Aside, executorVars
<1>5. RunInv'
  BY <1>3, <1>4 DEF RunInv, OneResultPerRun
<1>6. CountInv'
  BY <1>4 DEF CountInv, InflightIsExact, Aside
<1>. QED BY <1>5, <1>6

DispatcherStep == DispatcherHandler \/ DispatcherLoop \/ RestartDispatcher

LEMMA RunDispatcher ==
    ASSUME GateMergerInv, RestTypeOK, QueueInv, RunInv, DispatcherStep
    PROVE  RunInv'
<1>0. /\ BaseTypeOK /\ PositionInv
      /\ pc \in [Daemon -> Label] /\ handled \in [Daemon -> Nat]
      /\ delivered \in [Daemon -> Nat] /\ "dispatcher" \in Daemon
      /\ handled["dispatcher"] \in Nat /\ delivered["dispatcher"] \in Nat
      /\ handled["dispatcher"] <= delivered["dispatcher"]
      /\ pc["dispatcher"] \in {"send", "failed", "report"} =>
            handled["dispatcher"] < delivered["dispatcher"]
      /\ jobs \subseteq Job /\ resultsStream \in Seq(Pack)
  BY DEF GateMergerInv, BaseTypeOK, StreamsTypeOK, PositionInv, Daemon, RestTypeOK,
     ExecutorTypeOK
<1>1. UNCHANGED dispatchStream
  BY DEF DispatcherStep, DispatcherHandler, DispatcherLoop, IncrInflight, SendCapsule,
     SendFails, UndoInflight, ReportFailure, RestartDispatcher, dispatcherFrame,
     fabricVars
<1>2. CASE UNCHANGED <<jobs, resultsStream>> /\ handled'["dispatcher"] \in
           {handled["dispatcher"], delivered["dispatcher"]}
  <2>1. \A r : Done(r) => Done(r)'
    BY <1>0, <1>1, <1>2, DoneStays
  <2>. QED BY <1>2, <2>1 DEF RunInv, OneResultPerRun
<1>3. CASE SendCapsule
  <2>1. /\ handled'["dispatcher"] = handled["dispatcher"] + 1
        /\ handled["dispatcher"] < delivered["dispatcher"]
        /\ UNCHANGED resultsStream
    BY <1>0, <1>3 DEF SendCapsule, FinishEntry
  <2>2. \A r : Done(r) => Done(r)'
    BY <1>0, <1>1, <2>1, DoneStays
  <2>3. Req.run \in Run /\ ~Done(Req.run) /\ \A r : r = Req.run => Done(r)'
    BY <1>0, <1>1, <2>1, InHandIsNotDone, InHandOthers
  <2>. DEFINE new == [run |-> Req.run, cand |-> Req.cand, published |-> FALSE]
  <2>4. jobs' = jobs \cup {new} /\ new.run = Req.run
    BY <1>3 DEF SendCapsule, Receive
  <2>. HIDE DEF new
  <2>5. /\ \A j \in jobs : j.run # new.run
        /\ \A p \in Entry(resultsStream) : p.run # new.run
    BY <2>3, <2>4 DEF RunInv
  <2>. QED BY <2>1, <2>2, <2>3, <2>4, <2>5 DEF RunInv, OneResultPerRun
<1>4. CASE ReportFailure
  <2>1. /\ handled'["dispatcher"] = handled["dispatcher"] + 1
        /\ handled["dispatcher"] < delivered["dispatcher"]
        /\ UNCHANGED jobs
    BY <1>0, <1>4 DEF ReportFailure, FinishEntry, executorVars
  <2>2. \A r : Done(r) => Done(r)'
    BY <1>0, <1>1, <2>1, DoneStays
  <2>3. /\ Req.run \in Run /\ Req.cand \in Cand
        /\ ~Done(Req.run) /\ \A r : r = Req.run => Done(r)'
    BY <1>0, <1>1, <2>1, InHandIsNotDone, InHandOthers
  <2>. DEFINE new == [run |-> Req.run, cand |-> Req.cand, passed |-> FALSE,
                      isolated |-> FALSE, digest |-> Req.cand, key |-> 0]
  <2>4. resultsStream' = Append(resultsStream, new) /\ new.run = Req.run /\ new \in Pack
    BY <1>4, <2>3 DEF ReportFailure, Pack
  <2>. HIDE DEF new
  <2>5. Entry(resultsStream') = Entry(resultsStream) \cup {new}
    BY <1>0, <2>4, EntryAppend
  <2>6. /\ \A j \in jobs : j.run # new.run
        /\ \A p \in Entry(resultsStream) : p.run # new.run
    BY <2>3, <2>4 DEF RunInv
  <2>7. OneResultPerRun'
    BY <1>0, <2>4, <2>6, OneMore DEF RunInv, OneResultPerRun
  <2>. QED BY <2>1, <2>2, <2>3, <2>4, <2>5, <2>6, <2>7 DEF RunInv
<1>5. CASE IncrInflight \/ SendFails \/ UndoInflight \/ DispatcherLoop
  <2>1. UNCHANGED <<jobs, resultsStream>>
    BY <1>5 DEF IncrInflight, SendFails, UndoInflight, DispatcherLoop, executorVars
  <2>2. handled'["dispatcher"] = handled["dispatcher"]
    BY <1>5 DEF IncrInflight, SendFails, UndoInflight, DispatcherLoop, Goto,
       XReadGroup, ExecutePipe
  <2>. QED BY <1>2, <2>1, <2>2
<1>6. CASE RestartDispatcher
  <2>1. UNCHANGED <<jobs, resultsStream>>
    BY <1>6 DEF RestartDispatcher, streamVars
  <2>2. handled'["dispatcher"] = delivered["dispatcher"]
    BY <1>0, <1>6 DEF RestartDispatcher, LoseBatch
  <2>. QED BY <1>2, <2>1, <2>2
<1>. QED BY <1>3, <1>4, <1>5, <1>6 DEF DispatcherStep, DispatcherHandler

LEMMA RunExecutor ==
    ASSUME GateMergerInv, RestTypeOK, RunInv, ExecutorStep
    PROVE  RunInv'
<1>0. jobs \subseteq Job /\ resultsStream \in Seq(Pack) /\ execKey \in Nat
  BY DEF GateMergerInv, BaseTypeOK, StreamsTypeOK, RestTypeOK, ExecutorTypeOK
<1>1. UNCHANGED dispatchStream /\ handled'["dispatcher"] = handled["dispatcher"]
  BY DEF ExecutorStep, PublishResult, DecrInflight, AbortJob, RestartExecutor,
     fabricVars, daemonVars
<1>2. \A r : Done(r)' <=> Done(r)
  BY <1>1 DEF Done
<1>3. ASSUME NEW j \in jobs, PublishResult(j)
      PROVE  RunInv'
  <2>1. PICK passed \in BOOLEAN :
           resultsStream' = Append(resultsStream,
              [run |-> j.run, cand |-> j.cand, passed |-> passed,
               isolated |-> Hardware, digest |-> j.cand, key |-> execKey])
    BY <1>3 DEF PublishResult
  <2>. DEFINE new  == [run |-> j.run, cand |-> j.cand, passed |-> passed,
                       isolated |-> Hardware, digest |-> j.cand, key |-> execKey]
              done == [j EXCEPT !.published = TRUE]
  <2>2. j \in Job
    BY <1>0
  <2>3. resultsStream' = Append(resultsStream, new) /\ new \in Pack /\ new.run = j.run
    BY <1>0, <2>1, <2>2, StreamsAssumption DEF Job, Pack
  <2>4. done.run = j.run /\ done.published
    BY <2>2 DEF Job
  <2>5. jobs' = (jobs \ {j}) \cup {done} /\ ~j.published
    BY <1>3 DEF PublishResult
  <2>. HIDE DEF new, done
  <2>6. Entry(resultsStream') = Entry(resultsStream) \cup {new}
    BY <1>0, <2>3, EntryAppend
  <2>7. \A p \in Entry(resultsStream) : p.run # new.run
    BY <1>3, <2>3, <2>5 DEF RunInv
  <2>8. OneResultPerRun'
    BY <1>0, <2>3, <2>7, OneMore DEF RunInv, OneResultPerRun
  <2>. QED BY <1>2, <1>3, <2>3, <2>4, <2>5, <2>6, <2>8 DEF RunInv
<1>4. CASE jobs' \subseteq jobs /\ UNCHANGED resultsStream
  BY <1>2, <1>4 DEF RunInv, OneResultPerRun
<1>5. ASSUME NEW j \in jobs, DecrInflight(j) \/ AbortJob(j)
      PROVE  RunInv'
  BY <1>4, <1>5 DEF DecrInflight, AbortJob, streamVars
<1>6. CASE RestartExecutor
  BY <1>4, <1>6 DEF RestartExecutor, streamVars
<1>. QED BY <1>3, <1>5, <1>6 DEF ExecutorStep

-----------------------------------------------------------------------------
(* The inflight counter                                                    *)

LEMMA CountDispatcher ==
    ASSUME GateMergerInv, RestTypeOK, QueueInv, RunInv, CountInv, DispatcherStep
    PROVE  CountInv'
<1>0. /\ BaseTypeOK /\ PositionInv
      /\ pc \in [Daemon -> Label] /\ "dispatcher" \in Daemon
      /\ pc["dispatcher"] = "send" => handled["dispatcher"] < delivered["dispatcher"]
      /\ IsFiniteSet(jobs) /\ Cardinality(jobs) \in Nat
      /\ inflight \in Int /\ leaked \in Nat
      /\ inflight = leaked + Cardinality(jobs)
                    + (IF pc["dispatcher"] \in {"send", "failed"} THEN 1 ELSE 0)
  <2>1. IsFiniteSet(jobs) /\ Cardinality(jobs) \in Nat
    BY FS_CardinalityType DEF CountInv
  <2>. QED BY <2>1 DEF GateMergerInv, BaseTypeOK, StreamsTypeOK, PositionInv, Daemon,
           RestTypeOK, ExecutorTypeOK, CountInv, InflightIsExact
<1>. USE DEF CountInv, InflightIsExact
<1>1. CASE IncrInflight
  BY <1>0, <1>1 DEF IncrInflight, Handling, Goto
<1>2. CASE SendCapsule
  <2>. DEFINE new == [run |-> Req.run, cand |-> Req.cand, published |-> FALSE]
  <2>1. new \notin jobs
    BY <1>0, <1>2, InHandIsNotDone DEF SendCapsule, RunInv
  <2>2. jobs' = jobs \cup {new}
    BY <1>2 DEF SendCapsule, Receive
  <2>. HIDE DEF new
  <2>3. IsFiniteSet(jobs') /\ Cardinality(jobs') = Cardinality(jobs) + 1
    BY <1>0, <2>1, <2>2, FS_AddElement
  <2>4. /\ pc["dispatcher"] = "send" /\ pc'["dispatcher"] = "next"
        /\ UNCHANGED <<inflight, leaked>>
    BY <1>0, <1>2 DEF SendCapsule, FinishEntry
  <2>. QED BY <1>0, <2>3, <2>4
<1>3. CASE SendFails
  BY <1>0, <1>3 DEF SendFails, Goto, executorVars
<1>4. CASE UndoInflight
  BY <1>0, <1>4 DEF UndoInflight, Goto
<1>5. CASE ReportFailure
  BY <1>0, <1>5 DEF ReportFailure, FinishEntry, executorVars
<1>6. CASE DispatcherLoop
  BY <1>0, <1>6 DEF DispatcherLoop, XReadGroup, ExecutePipe, executorVars
<1>7. CASE RestartDispatcher
  BY <1>0, <1>7 DEF RestartDispatcher, LoseBatch
<1>. QED BY <1>1, <1>2, <1>3, <1>4, <1>5, <1>6, <1>7 DEF DispatcherStep, DispatcherHandler

LEMMA CountExecutor ==
    ASSUME GateMergerInv, RestTypeOK, RunInv, CountInv, ExecutorStep
    PROVE  CountInv'
<1>0. /\ IsFiniteSet(jobs) /\ Cardinality(jobs) \in Nat /\ jobs \subseteq Job
      /\ inflight \in Int /\ leaked \in Nat
      /\ inflight = leaked + Cardinality(jobs)
                    + (IF pc["dispatcher"] \in {"send", "failed"} THEN 1 ELSE 0)
  <2>1. IsFiniteSet(jobs) /\ Cardinality(jobs) \in Nat
    BY FS_CardinalityType DEF CountInv
  <2>. QED BY <2>1 DEF RestTypeOK, ExecutorTypeOK, CountInv, InflightIsExact
<1>1. UNCHANGED pc
  BY DEF ExecutorStep, PublishResult, DecrInflight, AbortJob, RestartExecutor, daemonVars
<1>2. \A j \in jobs : /\ IsFiniteSet(jobs \ {j})
                      /\ Cardinality(jobs \ {j}) = Cardinality(jobs) - 1
  BY <1>0, FS_RemoveElement
<1>. USE DEF CountInv, InflightIsExact
<1>3. ASSUME NEW j \in jobs, PublishResult(j)
      PROVE  CountInv'
  <2>. DEFINE done == [j EXCEPT !.published = TRUE]
  <2>1. jobs' = (jobs \ {j}) \cup {done} /\ ~j.published
    BY <1>3 DEF PublishResult
  <2>2. done.run = j.run
    BY <1>0 DEF Job
  <2>. HIDE DEF done
  <2>3. done \notin jobs \ {j}
    BY <2>2 DEF RunInv
  <2>4. IsFiniteSet(jobs') /\ Cardinality(jobs') = Cardinality(jobs \ {j}) + 1
    BY <1>2, <2>1, <2>3, FS_AddElement
  <2>5. Cardinality(jobs') = Cardinality(jobs)
    <3>1. Cardinality(jobs \ {j}) = Cardinality(jobs) - 1
      BY <1>2
    <3>. QED BY <1>0, <2>4, <3>1
  <2>. QED BY <1>0, <1>1, <1>3, <2>4, <2>5 DEF PublishResult
<1>4. ASSUME NEW j \in jobs, DecrInflight(j)
      PROVE  CountInv'
  BY <1>0, <1>1, <1>2, <1>4 DEF DecrInflight
<1>5. ASSUME NEW j \in jobs, AbortJob(j)
      PROVE  CountInv'
  <2>1. jobs' = jobs \ {j} /\ leaked' = leaked + 1 /\ UNCHANGED inflight
    BY <1>5 DEF AbortJob
  <2>2. IsFiniteSet(jobs') /\ Cardinality(jobs') = Cardinality(jobs) - 1
    BY <1>2, <2>1
  <2>. QED BY <1>0, <1>1, <2>1, <2>2
<1>6. CASE RestartExecutor
  <2>1. IsFiniteSet({}) /\ Cardinality({}) = 0
    BY FS_EmptySet
  <2>. QED BY <1>0, <1>1, <1>6, <2>1 DEF RestartExecutor
<1>. QED BY <1>3, <1>4, <1>5, <1>6 DEF ExecutorStep

-----------------------------------------------------------------------------
(* Outcomes that are real stay real                                        *)

LEMMA CrashesAreCounted ==
    ASSUME GateMergerInv
    PROVE  crashes \in Nat
BY StreamsAssumption DEF GateMergerInv, BaseTypeOK, StreamsTypeOK

LEMMA RealAside ==
    ASSUME GateMergerInv, RestTypeOK, Aside,
           Worker \/ UNCHANGED <<dispatchStream, preparing>>
    PROVE  \A r, st : Real(r, st) => Real(r, st)'
<1>0. /\ BaseTypeOK /\ PositionInv /\ dispatchStream \in Seq(Request)
      /\ handled["dispatcher"] \in Nat /\ delivered["dispatcher"] \in Nat
      /\ delivered["dispatcher"] <= Len(dispatchStream)
      /\ pc["dispatcher"] = "report" => handled["dispatcher"] < delivered["dispatcher"]
  BY DEF GateMergerInv, BaseTypeOK, FabricTypeOK, StreamsTypeOK, PositionInv, Daemon,
     Entries
<1>1. \/ UNCHANGED dispatchStream
      \/ \E q \in Seq(Request) : dispatchStream' = dispatchStream \o q
  <2>1. CASE QueueCapsule
    <3>1. preparing \in Seq(Request)
      BY <2>1 DEF QueueCapsule, RestTypeOK
    <3>. QED BY <2>1, <3>1 DEF QueueCapsule
  <2>. QED BY <2>1 DEF Worker, PrepareCapsule
<1>2. \A r : Done(r) => Done(r)'
  <2>1. handled'["dispatcher"] = handled["dispatcher"]
    BY DEF Aside
  <2>2. handled'["dispatcher"] \in Nat /\ handled["dispatcher"] <= handled'["dispatcher"]
    BY <1>0, <2>1
  <2>. QED BY <1>0, <1>1, <2>2, DoneStays
<1>3. pc["dispatcher"] = "report" => pc'["dispatcher"] = "report" /\ Req' = Req
  <2>1. \A i \in 1..Len(dispatchStream) : dispatchStream'[i] = dispatchStream[i]
    <3>1. ASSUME NEW q \in Seq(Request), dispatchStream' = dispatchStream \o q
          PROVE  \A i \in 1..Len(dispatchStream) : dispatchStream'[i] = dispatchStream[i]
      BY <1>0, <3>1
    <3>. QED BY <1>1, <3>1
  <2>2. pc["dispatcher"] = "report" => Current("dispatcher") \in 1..Len(dispatchStream)
    BY <1>0 DEF Current
  <2>3. Current("dispatcher")' = Current("dispatcher")
    BY DEF Aside, Current
  <2>. QED BY <2>1, <2>2, <2>3 DEF Aside, Req
<1>4. UNCHANGED <<resultsStream, jobs>> /\ (crashes > 0 => crashes' > 0)
  BY CrashesAreCounted DEF Aside, executorVars, Fails
<1>5. \A r : Lost(r) => Lost(r)'
  BY <1>2, <1>4 DEF Lost
<1>. QED BY <1>3, <1>4, <1>5 DEF Real

LEMMA RealDispatcher ==
    ASSUME GateMergerInv, RestTypeOK, QueueInv, RunInv, DispatcherStep
    PROVE  \A r, st : Real(r, st) => Real(r, st)'
<1>0. /\ BaseTypeOK /\ PositionInv
      /\ pc \in [Daemon -> Label] /\ handled \in [Daemon -> Nat]
      /\ delivered \in [Daemon -> Nat] /\ "dispatcher" \in Daemon
      /\ handled["dispatcher"] \in Nat /\ delivered["dispatcher"] \in Nat
      /\ handled["dispatcher"] <= delivered["dispatcher"]
      /\ pc["dispatcher"] \in {"send", "failed", "report"} =>
            handled["dispatcher"] < delivered["dispatcher"]
      /\ resultsStream \in Seq(Pack) /\ crashes \in Nat
  BY CrashesAreCounted DEF GateMergerInv, BaseTypeOK, StreamsTypeOK, PositionInv, Daemon
<1>1. UNCHANGED dispatchStream
  BY DEF DispatcherStep, DispatcherHandler, DispatcherLoop, IncrInflight, SendCapsule,
     SendFails, UndoInflight, ReportFailure, RestartDispatcher, dispatcherFrame,
     fabricVars
<1>2. CASE IncrInflight \/ SendFails \/ UndoInflight \/ DispatcherLoop
  <2>1. /\ UNCHANGED <<jobs, resultsStream, crashes>>
        /\ pc["dispatcher"] # "report"
    BY <1>2 DEF IncrInflight, SendFails, UndoInflight, DispatcherLoop, executorVars,
       Handling, XReadGroup, ExecutePipe, dispatcherFrame, failureVars
  <2>2. handled'["dispatcher"] = handled["dispatcher"]
    BY <1>2 DEF IncrInflight, SendFails, UndoInflight, DispatcherLoop, Goto,
       XReadGroup, ExecutePipe
  <2>3. \A r : Done(r) => Done(r)'
    BY <1>0, <1>1, <2>2, DoneStays
  <2>. QED BY <2>1, <2>3 DEF Real, Lost
<1>3. CASE SendCapsule
  <2>1. /\ handled'["dispatcher"] = handled["dispatcher"] + 1
        /\ handled["dispatcher"] < delivered["dispatcher"]
        /\ UNCHANGED <<resultsStream, crashes>>
        /\ pc["dispatcher"] # "report"
    BY <1>0, <1>3 DEF SendCapsule, FinishEntry, dispatcherFrame, failureVars
  <2>2. \A r : Done(r) => Done(r)'
    BY <1>0, <1>1, <2>1, DoneStays
  <2>3. ~Done(Req.run)
    BY <1>0, <2>1, InHandIsNotDone
  <2>4. \A j \in jobs' : j \in jobs \/ j.run = Req.run
    BY <1>3 DEF SendCapsule, Receive
  <2>. QED BY <2>1, <2>2, <2>3, <2>4 DEF Real, Lost
<1>4. CASE ReportFailure
  <2>1. /\ handled'["dispatcher"] = handled["dispatcher"] + 1
        /\ handled["dispatcher"] < delivered["dispatcher"]
        /\ UNCHANGED <<jobs, crashes>>
    BY <1>0, <1>4 DEF ReportFailure, FinishEntry, executorVars, dispatcherFrame,
       failureVars
  <2>2. \A r : Done(r) => Done(r)'
    BY <1>0, <1>1, <2>1, DoneStays
  <2>3. ~Done(Req.run) /\ Req.run \in Run /\ Req.cand \in Cand
    BY <1>0, <2>1, InHandIsNotDone, InHandOthers
  <2>. DEFINE new == [run |-> Req.run, cand |-> Req.cand, passed |-> FALSE,
                      isolated |-> FALSE, digest |-> Req.cand, key |-> 0]
  <2>4. resultsStream' = Append(resultsStream, new) /\ new.run = Req.run /\ ~new.passed
    BY <1>4 DEF ReportFailure
  <2>. HIDE DEF new
  <2>5. Entry(resultsStream') = Entry(resultsStream) \cup {new}
    BY <1>0, <2>4, EntryAppend
  <2>6. \A r : Lost(r) => Lost(r)'
    BY <2>1, <2>2, <2>3, <2>4, <2>5 DEF Lost
  <2>. QED BY <2>4, <2>5, <2>6 DEF Real
<1>5. CASE RestartDispatcher
  <2>1. /\ handled'["dispatcher"] = delivered["dispatcher"]
        /\ UNCHANGED <<jobs, resultsStream>>
        /\ crashes' > 0
    BY <1>0, <1>5 DEF RestartDispatcher, LoseBatch, streamVars, Fails
  <2>2. \A r : Done(r) => Done(r)'
    BY <1>0, <1>1, <2>1, DoneStays
  <2>3. \A r : Lost(r) => Lost(r)'
    BY <2>1, <2>2 DEF Lost
  <2>4. ASSUME NEW r, pc["dispatcher"] = "report", Req.run = r
        PROVE  Lost(r)'
    <3>1. ~Done(r) /\ Done(r)'
      BY <1>0, <1>1, <2>1, <2>4, InHandIsNotDone
    <3>2. /\ \A p \in Entry(resultsStream) : p.run # r
          /\ \A j \in jobs : j.run # r
      BY <3>1 DEF RunInv
    <3>. QED BY <2>1, <3>1, <3>2 DEF Lost
  <2>. QED BY <2>1, <2>3, <2>4 DEF Real
<1>. QED BY <1>2, <1>3, <1>4, <1>5 DEF DispatcherStep, DispatcherHandler

LEMMA RealExecutor ==
    ASSUME GateMergerInv, RestTypeOK, RunInv, ExecutorStep
    PROVE  \A r, st : Real(r, st) => Real(r, st)'
<1>0. resultsStream \in Seq(Pack) /\ jobs \subseteq Job /\ crashes \in Nat
  BY CrashesAreCounted DEF GateMergerInv, BaseTypeOK, StreamsTypeOK, RestTypeOK,
     ExecutorTypeOK
<1>1. UNCHANGED <<dispatchStream, pc, handled>>
  BY DEF ExecutorStep, PublishResult, DecrInflight, AbortJob, RestartExecutor,
     fabricVars, daemonVars
<1>2. (\A r : Done(r)' <=> Done(r)) /\ Req' = Req
  BY <1>1 DEF Done, Req, Current
<1>3. ASSUME NEW j \in jobs, PublishResult(j)
      PROVE  \A r, st : Real(r, st) => Real(r, st)'
  <2>1. PICK new : resultsStream' = Append(resultsStream, new) /\ new.run = j.run
    BY <1>3 DEF PublishResult
  <2>2. Entry(resultsStream') = Entry(resultsStream) \cup {new}
    BY <1>0, <2>1, EntryAppend
  <2>3. \A k \in jobs' : k \in jobs \/ k.run = j.run
    BY <1>0, <1>3 DEF PublishResult, Job
  <2>4. UNCHANGED crashes
    BY <1>3 DEF PublishResult, failureVars
  <2>5. \A r : Lost(r) => Lost(r)'
    BY <1>2, <1>3, <2>1, <2>2, <2>3, <2>4 DEF Lost
  <2>. QED BY <1>1, <1>2, <2>2, <2>5 DEF Real
<1>4. CASE jobs' \subseteq jobs /\ UNCHANGED resultsStream /\ (UNCHANGED crashes \/ Fails)
  <2>1. \A r : Lost(r) => Lost(r)'
    BY <1>0, <1>2, <1>4 DEF Lost, Fails
  <2>. QED BY <1>1, <1>2, <1>4, <2>1 DEF Real
<1>5. ASSUME NEW j \in jobs, DecrInflight(j) \/ AbortJob(j)
      PROVE  \A r, st : Real(r, st) => Real(r, st)'
  BY <1>4, <1>5 DEF DecrInflight, AbortJob, streamVars, failureVars
<1>6. CASE RestartExecutor
  BY <1>4, <1>6 DEF RestartExecutor, streamVars
<1>. QED BY <1>3, <1>5, <1>6 DEF ExecutorStep

-----------------------------------------------------------------------------
(* What the ledger says of executions                                      *)

\* A step that leaves the status columns alone, and whose new calls report
\* only real outcomes.
LEMMA OutcomeKept ==
    ASSUME LedgerTypeOK, OutcomeInv, \A r, st : Real(r, st) => Real(r, st)',
           \/ UNCHANGED ledgerVars
           \/ \E p \in Proc, cs \in Seq(Call) :
                 /\ MakeCalls(p, cs)
                 /\ \A x \in Entry(cs) :
                       x.table = "executions" => Real(x.id, x.status)'
    PROVE  OutcomeInv'
<1>1. UNCHANGED execStatus
  BY DEF ledgerVars, MakeCalls, statusVars
<1>2. CASE UNCHANGED ledgerVars
  BY <1>1, <1>2 DEF ledgerVars, OutcomeInv
<1>3. ASSUME NEW p \in Proc, NEW cs \in Seq(Call), MakeCalls(p, cs),
             \A x \in Entry(cs) : x.table = "executions" => Real(x.id, x.status)'
      PROVE  OutcomeInv'
  <2>1. \A q \in Proc : calls'[q] = IF q = p THEN cs ELSE calls[q]
    BY <1>3 DEF MakeCalls, LedgerTypeOK
  <2>. QED BY <1>1, <1>3, <2>1 DEF OutcomeInv
<1>. QED BY <1>2, <1>3

LEMMA InnocentIsReal ==
    ASSUME NEW x, Innocent(x), x.table = "executions"
    PROVE  Real(x.id, x.status) /\ Real(x.id, x.status)'
BY DEF Innocent, Real

\* The calls a process has left are calls it had, but for their phase.
LEMMA OutcomeLedgerStep ==
    ASSUME LedgerTypeOK, OutcomeInv, NEW p \in Proc, LedgerStep(p),
           \A r, st : Real(r, st) => Real(r, st)'
    PROVE  OutcomeInv'
<1>. DEFINE call == Head(calls[p])
<1>0. /\ calls[p] \in Seq(Call)
      /\ calls[p] # <<>>
      /\ call \in Call
      /\ call \in Entry(calls[p])
      /\ Tail(calls[p]) \in Seq(Call)
      /\ Entry(Tail(calls[p])) \subseteq Entry(calls[p])
      /\ calls \in [Proc -> Seq(Call)]
      /\ execStatus \in [Run -> ExecStatus]
  BY EntryTail DEF LedgerTypeOK, LedgerStep, FetchStatus, WriteStatus
<1>1. CASE FetchStatus(p)
  <2>1. call.table # "executions"
    BY <1>0, <1>1 DEF FetchStatus, Call, TaskCall, CandCall, ExecCall
  <2>. DEFINE checked == [call EXCEPT !.phase = "update"]
  <2>2. checked \in Call /\ checked.table # "executions"
    <3>1. call.phase = "select"
      BY <1>1 DEF FetchStatus
    <3>. QED BY <1>0, <2>1, <3>1 DEF Call, TaskCall, CandCall, ExecCall
  <2>3. calls'[p] = <<checked>> \o Tail(calls[p]) \/ calls'[p] = Tail(calls[p])
    BY <1>0, <1>1 DEF FetchStatus
  <2>. HIDE DEF checked
  <2>4. Entry(<<checked>> \o Tail(calls[p])) = {checked} \cup Entry(Tail(calls[p]))
    BY <1>0, <2>2, EntryCons
  <2>5. \A x \in Entry(calls'[p]) : x \in Entry(calls[p]) \/ x.table # "executions"
    BY <1>0, <2>2, <2>3, <2>4
  <2>6. \A q \in Proc \ {p} : calls'[q] = calls[q]
    BY <1>0, <1>1 DEF FetchStatus
  <2>7. UNCHANGED execStatus
    BY <1>1 DEF FetchStatus, statusVars
  <2>. QED BY <2>5, <2>6, <2>7 DEF OutcomeInv
<1>2. CASE WriteStatus(p)
  <2>1. \A q \in Proc : Entry(calls'[q]) \subseteq Entry(calls[q])
    BY <1>0, <1>2 DEF WriteStatus
  <2>2. \A r \in Run : \/ execStatus'[r] = execStatus[r]
                       \/ /\ call.table = "executions" /\ call.id = r
                          /\ execStatus'[r] = call.status
    <3>1. CASE call.table = "executions" /\ execStatus' = Written(execStatus, call)
      BY <1>0, <3>1 DEF Written
    <3>2. CASE UNCHANGED execStatus
      BY <3>2
    <3>. QED BY <1>2, <3>1, <3>2 DEF WriteStatus
  <2>3. \A r, st : call.table = "executions" /\ call.id = r /\ call.status = st
                    => Real(r, st)'
    BY <1>0 DEF OutcomeInv
  <2>. QED BY <2>1, <2>2, <2>3 DEF OutcomeInv
<1>. QED BY <1>1, <1>2 DEF LedgerStep

\* Gate and merger make no calls about executions.
LEMMA OutcomeGateMerger ==
    ASSUME GateMergerInv, OutcomeInv, GateStep \/ MergerStep,
           \A r, st : Real(r, st) => Real(r, st)'
    PROVE  OutcomeInv'
<1>0. /\ BaseTypeOK /\ PositionInv /\ LedgerTypeOK
      /\ "gate" \in Proc /\ "merger" \in Proc
      /\ <<>> \in Seq(Call) /\ Entry(<<>>) = {}
      /\ pc["gate"] = "winner" => handled["gate"] < delivered["gate"]
      /\ pc["merger"] \in {"claim", "recheck", "patch", "record", "release"}
            => handled["merger"] < delivered["merger"]
  BY EntryOne, Processes DEF Daemon, GateMergerInv, BaseTypeOK, PositionInv
<1>1. CASE UNCHANGED ledgerVars
  BY <1>0, <1>1, OutcomeKept
<1>2. CASE \E p \in Proc, cs \in Seq(Call) :
              MakeCalls(p, cs) /\ \A x \in Entry(cs) : x.table # "executions"
  BY <1>0, <1>2, OutcomeKept
<1>3. CASE Accept \/ Reject
  <2>1. GatePack.cand \in Cand
    BY <1>0, <1>3, InHand DEF Accept, Reject, Handling
  <2>. DEFINE cs(st) == update_candidate_status(GatePack.cand, st)
  <2>2. \A st \in {"accepted", "rejected_policy"} :
           cs(st) \in Seq(Call) /\ \A x \in Entry(cs(st)) : x.table # "executions"
    <3>1. {"accepted", "rejected_policy"} \subseteq CandStatus
      BY DEF CandStatus
    <3>2. \A st \in CandStatus : cs(st) \in Seq(Call)
      BY <2>1, CallTypes
    <3>3. \A st \in CandStatus : \A x \in Entry(cs(st)) : x.table = "candidates"
      BY <2>1, CallEntries
    <3>. QED BY <3>1, <3>2, <3>3
  <2>3. MakeCalls("gate", cs("accepted")) \/ MakeCalls("gate", cs("rejected_policy"))
    BY <1>3 DEF Accept, Reject
  <2>. HIDE DEF cs
  <2>. QED BY <1>0, <1>2, <2>2, <2>3
<1>4. CASE PatchApplied
  <2>. DEFINE cs == update_candidate_status(Winner, "merged")
              ts == update_task_status(MyTree, "merged")
  <2>1. Winner \in Cand /\ MyTree \in Tree
    BY <1>0, <1>4, InHand DEF PatchApplied
  <2>2. cs \in Seq(Call) /\ ts \in Seq(Call)
    BY <2>1, CallTypes DEF CandStatus, TaskStatus
  <2>3. \A x \in Entry(cs) \cup Entry(ts) : x.table # "executions"
    BY <2>1, CallEntries DEF CandStatus, TaskStatus
  <2>4. MakeCalls("merger", cs \o ts)
    BY <1>4 DEF PatchApplied
  <2>. HIDE DEF cs, ts
  <2>5. cs \o ts \in Seq(Call) /\ \A x \in Entry(cs \o ts) : x.table # "executions"
    BY <2>2, <2>3, TwoCalls
  <2>. QED BY <1>0, <1>2, <2>4, <2>5
<1>5. CASE ReleaseTree
  <2>. DEFINE cs == update_candidate_status(Winner, "merge_failed")
  <2>1. Winner \in Cand
    BY <1>0, <1>5, InHand DEF ReleaseTree
  <2>2. cs \in Seq(Call) /\ \A x \in Entry(cs) : x.table # "executions"
    <3>1. cs \in Seq(Call)
      BY <2>1, CallTypes DEF CandStatus
    <3>2. \A x \in Entry(cs) : x.table = "candidates"
      BY <2>1, CallEntries DEF CandStatus
    <3>. QED BY <3>1, <3>2
  <2>3. MakeCalls("merger", cs)
    BY <1>5 DEF ReleaseTree
  <2>. HIDE DEF cs
  <2>. QED BY <1>0, <1>2, <2>2, <2>3
<1>6. CASE MergeRaises \/ RestartGate \/ RestartMerger
  <2>1. MakeCalls("gate", <<>>) \/ MakeCalls("merger", <<>>)
    BY <1>6 DEF MergeRaises, RestartGate, RestartMerger, LoseBatch, MakeCalls
  <2>. QED BY <1>0, <1>2, <2>1
<1>. QED BY <1>1, <1>3, <1>4, <1>5, <1>6
     DEF GateStep, GateHandler, GateLoop, ReserveTree, ReadGateBatch,
         ExecuteGatePipe, MergerStep, MergerHandler, CheckWinner, ClaimTree,
         RecheckWinner, MergeRecorded, MergerLoop

LEMMA OutcomeWorker ==
    ASSUME GateMergerInv, OutcomeInv, Worker, \A r, st : Real(r, st) => Real(r, st)'
    PROVE  OutcomeInv'
<1>0. LedgerTypeOK
  BY DEF GateMergerInv, BaseTypeOK
<1>1. ASSUME NEW r \in Run, NEW c \in Cand, PrepareCapsule(r, c)
      PROVE  OutcomeInv'
  <2>1. PICK cs \in Seq(Call) :
           /\ cs = record_candidate(c, "generated")
                   \o update_task_status(TreeOf[c], "running")
                   \o record_execution_queued(r)
                   \o update_candidate_status(c, "queued")
           /\ \A x \in Entry(cs) : Innocent(x)
    BY WorkerCalls
  <2>2. MakeCalls("worker", cs)
    BY <1>1, <2>1 DEF PrepareCapsule
  <2>3. \A x \in Entry(cs) : x.table = "executions" => Real(x.id, x.status)'
    BY <2>1, InnocentIsReal
  <2>. QED BY <1>0, <2>2, <2>3, OutcomeKept, Processes
<1>2. CASE QueueCapsule
  BY <1>0, <1>2, OutcomeKept DEF QueueCapsule
<1>. QED BY <1>1, <1>2 DEF Worker

LEMMA OutcomeDispatcher ==
    ASSUME GateMergerInv, OutcomeInv, DispatcherStep,
           \A r, st : Real(r, st) => Real(r, st)'
    PROVE  OutcomeInv'
<1>0. /\ BaseTypeOK /\ PositionInv /\ LedgerTypeOK /\ "dispatcher" \in Proc
      /\ pc \in [Daemon -> Label] /\ "dispatcher" \in Daemon
      /\ pc["dispatcher"] \in {"send", "failed", "report"} =>
            handled["dispatcher"] < delivered["dispatcher"]
  BY Processes DEF GateMergerInv, BaseTypeOK, StreamsTypeOK, PositionInv, Daemon
<1>1. CASE UNCHANGED ledgerVars
  BY <1>0, <1>1, OutcomeKept
<1>2. CASE SendCapsule
  <2>0. Req.run \in Run /\ Req.cand \in Cand
    BY <1>0, <1>2, InHandOthers DEF SendCapsule
  <2>1. PICK cs \in Seq(Call) :
           /\ cs = mark_execution_started(Req.run)
                   \o update_candidate_status(Req.cand, "running")
           /\ \A x \in Entry(cs) : Innocent(x)
    BY <2>0, SendCalls
  <2>2. MakeCalls("dispatcher", cs)
    BY <1>2, <2>1 DEF SendCapsule
  <2>3. \A x \in Entry(cs) : x.table = "executions" => Real(x.id, x.status)'
    BY <2>1, InnocentIsReal
  <2>. QED BY <1>0, <2>2, <2>3, OutcomeKept
<1>3. CASE UndoInflight
  <2>0. Req.run \in Run /\ Req.cand \in Cand
    BY <1>0, <1>3, InHandOthers DEF UndoInflight
  <2>1. PICK cs \in Seq(Call) :
           /\ cs = update_candidate_status(Req.cand, "dispatch_failed")
                   \o complete_execution(Req.run, FALSE)
           /\ \A x \in Entry(cs) :
                 /\ x.status # "merged"
                 /\ x.table = "executions" => x.id = Req.run /\ x.status = "failed"
    BY <2>0, UndoCalls
  <2>2. MakeCalls("dispatcher", cs)
    BY <1>3, <2>1 DEF UndoInflight
  <2>3. pc'["dispatcher"] = "report" /\ Req' = Req
    BY <1>0, <1>3 DEF UndoInflight, Goto, dispatcherFrame, fabricVars, Req, Current
  <2>4. \A x \in Entry(cs) : x.table = "executions" => Real(x.id, x.status)'
    BY <2>1, <2>3 DEF Real
  <2>. QED BY <1>0, <2>2, <2>4, OutcomeKept
<1>4. CASE RestartDispatcher
  <2>1. MakeCalls("dispatcher", <<>>)
    BY <1>4 DEF RestartDispatcher, LoseBatch, MakeCalls
  <2>2. <<>> \in Seq(Call) /\ Entry(<<>>) = {}
    BY EntryOne
  <2>. QED BY <1>0, <2>1, <2>2, OutcomeKept
<1>. QED BY <1>1, <1>2, <1>3, <1>4 DEF DispatcherStep, DispatcherHandler, IncrInflight,
         SendFails, ReportFailure, DispatcherLoop

\* Memory reports the outcome that the result in its hand has.
LEMMA OutcomeMemory ==
    ASSUME GateMergerInv, OutcomeInv, MemoryStep,
           \A r, st : Real(r, st) => Real(r, st)'
    PROVE  OutcomeInv'
<1>0. /\ BaseTypeOK /\ PositionInv /\ LedgerTypeOK /\ "memory" \in Proc
      /\ pc["memory"] = "apply" => handled["memory"] < delivered["memory"]
  BY Processes DEF GateMergerInv, BaseTypeOK, PositionInv, Daemon
<1>1. CASE UNCHANGED ledgerVars
  BY <1>0, <1>1, OutcomeKept
<1>2. CASE CompleteExecution
  <2>0. /\ MemoryPack.run \in Run /\ MemoryPack.passed \in BOOLEAN
        /\ MemoryPack \in Entry(resultsStream)
    BY <1>0, <1>2, InHandOthers DEF CompleteExecution, Handling
  <2>. DEFINE cs == complete_execution(MemoryPack.run, MemoryPack.passed)
  <2>1. cs \in Seq(Call) /\ \A x \in Entry(cs) :
           /\ x.id = MemoryPack.run
           /\ x.status = IF MemoryPack.passed THEN "succeeded" ELSE "failed"
    BY <2>0, CallTypes, ExecEntries
  <2>2. MakeCalls("memory", cs) /\ UNCHANGED resultsStream
    BY <1>2 DEF CompleteExecution, memoryFrame, streamVars
  <2>. HIDE DEF cs
  <2>3. \A x \in Entry(cs) : Real(x.id, x.status)
    BY <2>0, <2>1 DEF Real
  <2>. QED BY <1>0, <2>1, <2>2, <2>3, OutcomeKept
<1>3. CASE ApplyResult
  <2>0. MemoryPack.cand \in Cand
    BY <1>0, <1>3, InHandOthers DEF ApplyResult
  <2>. DEFINE wins  == update_candidate_status(MemoryPack.cand, "verified")
                       \o update_task_status(TreeOf[MemoryPack.cand], "verified")
              loses == update_candidate_status(MemoryPack.cand, "failed")
  <2>1. /\ \A cs \in {<<>>, wins, loses} : cs \in Seq(Call)
        /\ \A cs \in {<<>>, wins, loses} : \A x \in Entry(cs) : Innocent(x)
    BY <2>0, ApplyCalls
  <2>2. \E cs \in {<<>>, wins, loses} : MakeCalls("memory", cs)
    BY <1>3 DEF ApplyResult
  <2>. HIDE DEF wins, loses
  <2>3. \A cs \in {<<>>, wins, loses} : \A x \in Entry(cs) :
           x.table = "executions" => Real(x.id, x.status)'
    BY <2>1, InnocentIsReal
  <2>. QED BY <1>0, <2>1, <2>2, <2>3, OutcomeKept
<1>4. CASE RestartMemory
  <2>1. MakeCalls("memory", <<>>)
    BY <1>4 DEF RestartMemory, LoseBatch, MakeCalls
  <2>2. <<>> \in Seq(Call) /\ Entry(<<>>) = {}
    BY EntryOne
  <2>. QED BY <1>0, <2>1, <2>2, OutcomeKept
<1>. QED BY <1>1, <1>2, <1>3, <1>4 DEF MemoryStep, MemoryHandler, MemoryLoop,
         ReadMemoryBatch, ExecuteMemoryPipe

-----------------------------------------------------------------------------
(* The invariant holds                                                     *)

LEMMA PipelineInit == Init => PipelineInv
<1>. SUFFICES ASSUME Init
     PROVE  PipelineInv
  OBVIOUS
<1>. USE DEF Init
<1>1. GateMergerInv
  BY GateMergerInit
<1>2. Entry(<<>>) = {} /\ IsFiniteSet({}) /\ Cardinality({}) = 0
  BY EntryOne, FS_EmptySet
<1>3. RestTypeOK
  BY DEF ExecutorInit, RestTypeOK, ExecutorTypeOK
<1>4. QueueInv /\ RunInv
  BY <1>2 DEF FabricInit, StreamsInit, ExecutorInit, QueueInv, RunInv, OneResultPerRun
<1>5. CountInv
  <2>1. jobs = {} /\ inflight = 0 /\ leaked = 0 /\ pc["dispatcher"] = "read"
    BY DEF ExecutorInit, StreamsInit, Daemon
  <2>. QED BY <1>2, <2>1 DEF CountInv, InflightIsExact
<1>6. OutcomeInv
  BY <1>2 DEF LedgerInit, OutcomeInv, Real, Absent
<1>. QED BY <1>1, <1>3, <1>4, <1>5, <1>6 DEF PipelineInv

\* Who makes a step.
LEMMA Actors ==
    ASSUME [Next]_vars
    PROVE  \/ Worker
           \/ \E p \in Proc : LedgerAction(p)
           \/ MemoryStep /\ UNCHANGED outsideMemory
           \/ GateStep /\ UNCHANGED outsideGate
           \/ MergerStep /\ UNCHANGED outsideMerger
           \/ UNCHANGED vars
           \/ DispatcherStep /\ UNCHANGED outsideDispatcher
           \/ ExecutorStep /\ UNCHANGED outsideDispatcher
<1>1. CASE DispatcherAction \/ ExecutorAction
  BY <1>1 DEF DispatcherAction, ExecutorAction, DispatcherStep, ExecutorStep
<1>2. CASE MemoryAction \/ MergerAction
  BY <1>2 DEF MemoryAction, MergerAction, MemoryStep, MergerStep
<1>3. CASE GateAction
  BY <1>3 DEF GateAction, GateStep, outsideGate
<1>4. CASE Failure
  BY <1>4 DEF Failure, ExecutorStep, DispatcherStep, MemoryStep, GateStep, MergerStep,
     outsideGate
<1>. QED BY <1>1, <1>2, <1>3, <1>4 DEF Next

LEMMA BaseKept ==
    ASSUME GateMergerInv, RestTypeOK, IsFiniteSet(jobs), [Next]_vars
    PROVE  GateMergerInv' /\ RestTypeOK'
<1>1. CASE GateStep /\ UNCHANGED outsideGate
  <2>1. GateMergerInv'
    BY <1>1, GateMergerStep, Processes
  <2>. QED BY <1>1, <2>1 DEF outsideGate, RestTypeOK, ExecutorTypeOK, executorVars
<1>2. CASE MergerStep /\ UNCHANGED outsideMerger
  <2>1. GateMergerInv'
    BY <1>2, GateMergerStep, Processes
  <2>. QED BY <1>2, <2>1 DEF outsideMerger, RestTypeOK, ExecutorTypeOK, executorVars
<1>3. ASSUME NEW p \in Proc, LedgerAction(p)
      PROVE  GateMergerInv' /\ RestTypeOK'
  <2>1. UNCHANGED <<executorVars, memoryPipe, preparing>>
    BY <1>3 DEF LedgerAction
  <2>. QED BY <1>3, <2>1, LedgerActionGateMerger
           DEF RestTypeOK, ExecutorTypeOK, executorVars
<1>4. CASE UNCHANGED vars
  <2>1. Elsewhere("memory")
    BY <1>4 DEF vars, Elsewhere, Loops, CallsNoMerge, GateMergerInv, BaseTypeOK,
       FabricTypeOK, fabricVars, streamVars, failureVars
  <2>2. RestTypeOK'
    BY <1>4 DEF vars, RestTypeOK, ExecutorTypeOK, executorVars
  <2>. QED BY <2>1, <2>2, ElsewhereStep
<1>5. CASE DispatcherStep /\ UNCHANGED outsideDispatcher
  BY <1>5, DispatcherBase DEF DispatcherStep, DispatcherAction
<1>6. CASE ExecutorStep /\ UNCHANGED outsideDispatcher
  BY <1>6, ExecutorBase
<1>. QED BY <1>1, <1>2, <1>3, <1>4, <1>5, <1>6, Actors, WorkerBase, MemoryBase

LEMMA PipelineStep ==
    ASSUME PipelineInv, [Next]_vars
    PROVE  PipelineInv'
<1>. USE DEF PipelineInv
<1>0. GateMergerInv' /\ RestTypeOK'
  BY BaseKept DEF CountInv
<1>. DEFINE Stays == \A r, st : Real(r, st) => Real(r, st)'
<1>1. ASSUME Aside, Worker \/ UNCHANGED <<dispatchStream, preparing>>
      PROVE  QueueInv' /\ RunInv' /\ CountInv' /\ Stays
  BY <1>1, QueueKept, RunAside, RealAside
<1>2. CASE Worker
  BY <1>0, <1>1, <1>2, OthersAreAside, OutcomeWorker
<1>3. CASE UNCHANGED vars
  BY <1>0, <1>1, <1>3, OthersAreAside, OutcomeKept DEF vars, GateMergerInv, BaseTypeOK
<1>4. ASSUME NEW p \in Proc, LedgerAction(p)
      PROVE  PipelineInv'
  <2>1. Aside /\ UNCHANGED <<dispatchStream, preparing>>
    BY <1>4, OthersAreAside DEF LedgerAction, fabricVars
  <2>2. LedgerStep(p)
    BY <1>4 DEF LedgerAction
  <2>. QED BY <1>0, <1>1, <2>1, <2>2, OutcomeLedgerStep DEF GateMergerInv, BaseTypeOK
<1>5. CASE MemoryStep /\ UNCHANGED outsideMemory
  BY <1>0, <1>1, <1>5, OthersAreAside, OutcomeMemory
<1>6. CASE GateStep /\ UNCHANGED outsideGate
  BY <1>0, <1>1, <1>6, OthersAreAside, OutcomeGateMerger
<1>7. CASE MergerStep /\ UNCHANGED outsideMerger
  BY <1>0, <1>1, <1>7, OthersAreAside, OutcomeGateMerger
<1>8. CASE DispatcherStep /\ UNCHANGED outsideDispatcher
  <2>1. UNCHANGED <<dispatchStream, preparing>>
    BY <1>8 DEF outsideDispatcher, DispatcherStep, DispatcherHandler, DispatcherLoop,
       IncrInflight, SendCapsule, SendFails, UndoInflight, ReportFailure,
       RestartDispatcher, dispatcherFrame, fabricVars
  <2>2. QueueInv' /\ RunInv' /\ CountInv'
    BY <1>8, <2>1, QueueKept, RunDispatcher, CountDispatcher
  <2>3. OutcomeInv'
    BY <1>8, RealDispatcher, OutcomeDispatcher
  <2>. QED BY <1>0, <2>2, <2>3
<1>9. CASE ExecutorStep /\ UNCHANGED outsideDispatcher
  <2>1. UNCHANGED <<dispatchStream, preparing, ledgerVars>>
    BY <1>9 DEF outsideDispatcher, ExecutorStep, PublishResult, DecrInflight, AbortJob,
       RestartExecutor, fabricVars
  <2>2. QueueInv' /\ RunInv' /\ CountInv'
    BY <1>9, <2>1, QueueKept, RunExecutor, CountExecutor
  <2>3. OutcomeInv'
    BY <1>9, <2>1, RealExecutor, OutcomeKept DEF GateMergerInv, BaseTypeOK
  <2>. QED BY <1>0, <2>2, <2>3
<1>. QED BY <1>2, <1>3, <1>4, <1>5, <1>6, <1>7, <1>8, <1>9, Actors

LEMMA PipelineInvariant == Spec => []PipelineInv
BY PipelineInit, PipelineStep, PTL DEF Spec

-----------------------------------------------------------------------------
(* What follows                                                            *)

\* Every variable of the pipeline keeps its type.
THEOREM PipelineTypes == Spec => []TypeOK
<1>1. PipelineInv => TypeOK
  BY DEF PipelineInv, GateMergerInv, BaseTypeOK, RestTypeOK, TypeOK
<1>. QED BY <1>1, PipelineInvariant, PTL

\* Dispatch is at most once: dispatcher.py's failure pack and the executor's
\* pack exclude each other, and a batch that a crash took is not sent again,
\* so the results stream never holds two packs of one run.
THEOREM AtMostOneResult == Spec => []OneResultPerRun
<1>1. PipelineInv => OneResultPerRun
  BY DEF PipelineInv, RunInv
<1>. QED BY <1>1, PipelineInvariant, PTL

\* INCR and DECR of omega:stats:inflight balance: the counter is the number
\* of capsules being sent or held by the executor, plus what failures leaked.
THEOREM InflightCounts == Spec => []InflightIsExact
<1>1. PipelineInv => InflightIsExact
  BY DEF PipelineInv, CountInv
<1>. QED BY <1>1, PipelineInvariant, PTL

\* complete_execution, called by the dispatcher and by global memory in
\* processes that crash, never reports an outcome the execution did not have.
THEOREM OutcomesAreReal == Spec => []ExecutionOutcomeIsReal
<1>1. PipelineInv => ExecutionOutcomeIsReal
  BY DEF PipelineInv, OutcomeInv, Real, Lost, ExecutionOutcomeIsReal
<1>. QED BY <1>1, PipelineInvariant, PTL

\* What AcceptanceProofs shows of gate and merger alone, behind the real
\* dispatcher, executor and global memory.
THEOREM PipelineMergesSafely ==
    Spec => [](/\ MergesAreVerified
               /\ OneCleanWinner
               /\ NoOrphanReservation
               /\ LedgerMergedIsCommitted)
<1>1. PipelineInv => /\ MergesAreVerified
                     /\ OneCleanWinner
                     /\ NoOrphanReservation
                     /\ LedgerMergedIsCommitted
  BY GateMergerSafety DEF PipelineInv
<1>. QED BY <1>1, PipelineInvariant, PTL

\* The whole pipeline implements the abstract Reservation of a tree.
THEOREM PipelineReserves == Spec => ImplementsReservation
<1>1. Init => R!Init
  BY DEF Init, GateInit, MergerInit, R!Init
<1>2. ASSUME PipelineInv, [Next]_vars
      PROVE  [R!Next]_(R!vars)
  <2>1. CASE UNCHANGED <<acceptedKey, commits>>
    BY <2>1 DEF R!vars
  <2>2. CASE GateStep \/ MergerStep
    BY <1>2, <2>2, ReservationRefined DEF PipelineInv
  <2>3. CASE Worker \/ (\E p \in Proc : LedgerAction(p)) \/ UNCHANGED vars
    BY <2>1, <2>3 DEF Worker, PrepareCapsule, QueueCapsule, workerFrame, LedgerAction,
       vars, mergerVars
  <2>4. CASE UNCHANGED outsideMemory \/ UNCHANGED outsideDispatcher
    BY <2>1, <2>4 DEF outsideMemory, outsideDispatcher, mergerVars
  <2>. QED BY <1>2, <2>2, <2>3, <2>4, Actors
<1>. QED BY <1>1, <1>2, PipelineInvariant, PTL
     DEF Spec, ImplementsReservation, R!Spec
=============================================================================
