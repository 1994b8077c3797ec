---------------------------- MODULE GlobalMemory ----------------------------
(***************************************************************************)
(* control_plane/global_memory.py: records each result in the ledger,      *)
(* backpropagates a visit along the candidate's ancestors and declares the *)
(* tree done when a result passed.  Redis writes are queued in the batch's *)
(* pipeline and take effect together; ledger writes take effect at once.   *)
(***************************************************************************)
EXTENDS Streams

VARIABLES memoryPipe    \* results whose Redis writes are queued

memoryFrame == <<streamVars, dispatchStream, failureVars>>

MemoryPack == resultsStream[Current("memory")]

\* complete_execution, which comes before anything else.
CompleteExecution ==
    /\ Handling("memory")
    /\ MakeCalls("memory", complete_execution(MemoryPack.run, MemoryPack.passed))
    /\ Goto("memory", "apply")
    /\ UNCHANGED <<memoryPipe, memoryFrame, node, doneKey>>

\* The rest of the handler.  A result for a candidate with no hash is
\* acknowledged and otherwise ignored.
ApplyResult ==
    /\ pc["memory"] = "apply"
    /\ LedgerIdle("memory")
    /\ LET known == node[MemoryPack.cand].exists
           wins  == update_candidate_status(MemoryPack.cand, "verified")
                    \o update_task_status(TreeOf[MemoryPack.cand], "verified")
           loses == update_candidate_status(MemoryPack.cand, "failed")
       IN /\ memoryPipe' = IF known THEN Append(memoryPipe, MemoryPack)
                                   ELSE memoryPipe
          /\ MakeCalls("memory", IF ~known THEN <<>>
                                 ELSE IF MemoryPack.passed THEN wins ELSE loses)
    /\ FinishEntry("memory")
    /\ UNCHANGED <<memoryFrame, node, doneKey>>

\* The pipeline: visits of the candidate and its ancestors, and for a passing
\* result the done key and the candidate's is_terminal flag.  HINCRBY adds
\* to whatever the hash holds by then.
BackpropVisits(n) ==
    Cardinality({i \in DOMAIN memoryPipe : n \in Path[memoryPipe[i].cand]})

PassedInPipe == {memoryPipe[i].cand : i \in
                    {j \in DOMAIN memoryPipe : memoryPipe[j].passed}}

ExecuteMemoryPipe ==
    /\ ExecutePipe("memory")
    /\ node' = [n \in Node |->
                  [node[n] EXCEPT !.visits = @ + BackpropVisits(n),
                                  !.terminal = @ \/ n \in PassedInPipe]]
    /\ doneKey' = doneKey \cup {TreeOf[c] : c \in PassedInPipe}
    /\ memoryPipe' = <<>>
    /\ UNCHANGED <<memoryFrame, ledgerVars>>

ReadMemoryBatch ==
    /\ XReadGroup("memory")
    /\ UNCHANGED <<memoryPipe, memoryFrame, node, doneKey, ledgerVars>>

RestartMemory ==
    /\ pc["memory"] # "read"
    /\ LoseBatch("memory")
    /\ memoryPipe' = <<>>
    /\ UNCHANGED <<streamVars, fabricVars>>

MemoryHandler == CompleteExecution \/ ApplyResult
MemoryLoop == ReadMemoryBatch \/ ExecuteMemoryPipe
=============================================================================
