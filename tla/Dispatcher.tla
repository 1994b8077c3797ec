----------------------------- MODULE Dispatcher -----------------------------
(***************************************************************************)
(* control_plane/dispatcher.py: takes execution requests from the dispatch *)
(* stream and sends each capsule to the executor core chosen for it.       *)
(***************************************************************************)
EXTENDS Executor

dispatcherFrame == <<acceptedStream, fabricVars, failureVars>>

Req == dispatchStream[Current("dispatcher")]

IncrInflight ==
    /\ Handling("dispatcher")
    /\ inflight' = inflight + 1
    /\ Goto("dispatcher", "send")
    /\ UNCHANGED <<jobs, leaked, resultsStream, dispatcherFrame, ledgerVars>>

\* A send that is booked as a successful execution.
SendBookedAsSuccess ==
    /\ pc["dispatcher"] = "send"
    /\ Receive(Req)
    /\ MakeCalls("dispatcher",
                 complete_execution(Req.run, TRUE)
                 \o update_candidate_status(Req.cand, "running"))
    /\ FinishEntry("dispatcher")
    /\ UNCHANGED <<inflight, leaked, resultsStream, dispatcherFrame>>

\* connect, sendall and shutdown succeed: the executor has the capsule.
\* Only afterwards does the ledger learn that the run has started.
SendCapsule ==
    /\ pc["dispatcher"] = "send"
    /\ Receive(Req)
    /\ MakeCalls("dispatcher",
                 mark_execution_started(Req.run)
                 \o update_candidate_status(Req.cand, "running"))
    /\ FinishEntry("dispatcher")
    /\ UNCHANGED <<inflight, leaked, resultsStream, dispatcherFrame>>

\* OSError while connecting or sending: nothing reached the executor.
SendFails ==
    /\ pc["dispatcher"] = "send"
    /\ Goto("dispatcher", "failed")
    /\ UNCHANGED <<executorVars, resultsStream, dispatcherFrame, ledgerVars>>

\* A failure path that forgets the DECR.
KeepInflight ==
    /\ pc["dispatcher"] = "failed"
    /\ MakeCalls("dispatcher",
                 update_candidate_status(Req.cand, "dispatch_failed")
                 \o complete_execution(Req.run, FALSE))
    /\ Goto("dispatcher", "report")
    /\ UNCHANGED <<executorVars, resultsStream, dispatcherFrame>>

UndoInflight ==
    /\ pc["dispatcher"] = "failed"
    /\ inflight' = inflight - 1
    /\ MakeCalls("dispatcher",
                 update_candidate_status(Req.cand, "dispatch_failed")
                 \o complete_execution(Req.run, FALSE))
    /\ Goto("dispatcher", "report")
    /\ UNCHANGED <<jobs, leaked, resultsStream, dispatcherFrame>>

\* A failure that is only logged.
SwallowFailure ==
    /\ pc["dispatcher"] = "report"
    /\ LedgerIdle("dispatcher")
    /\ FinishEntry("dispatcher")
    /\ UNCHANGED <<executorVars, resultsStream, dispatcherFrame, ledgerVars>>

\* The dispatcher answers for the executor with an unsigned failure.
ReportFailure ==
    /\ pc["dispatcher"] = "report"
    /\ LedgerIdle("dispatcher")
    /\ resultsStream' = Append(resultsStream,
           [run |-> Req.run, cand |-> Req.cand, passed |-> FALSE,
            isolated |-> FALSE, digest |-> Req.cand, key |-> 0])
    /\ FinishEntry("dispatcher")
    /\ UNCHANGED <<executorVars, dispatcherFrame, ledgerVars>>

DispatcherHandler ==
    IncrInflight \/ SendCapsule \/ SendFails \/ UndoInflight \/ ReportFailure

\* XREADGROUP and pipe.execute() of the dispatcher's loop.
DispatcherLoop ==
    /\ XReadGroup("dispatcher") \/ ExecutePipe("dispatcher")
    /\ UNCHANGED <<executorVars, resultsStream, dispatcherFrame, ledgerVars>>

\* A dispatcher that dies between INCR and DECR leaves the increment behind.
RestartDispatcher ==
    /\ pc["dispatcher"] # "read"
    /\ leaked' = IF pc["dispatcher"] \in {"send", "failed"}
                 THEN leaked + 1 ELSE leaked
    /\ LoseBatch("dispatcher")
    /\ UNCHANGED <<jobs, inflight, streamVars, fabricVars>>
=============================================================================
