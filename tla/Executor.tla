------------------------------ MODULE Executor ------------------------------
(***************************************************************************)
(* The executor as the control plane sees it: simulator_executor.py on     *)
(* macOS, the Firecracker hypervisor (omega_hypervisor/src/main.rs) on     *)
(* Linux.  Both take a capsule from a socket, run the verification funnel, *)
(* sign a pack, append it to the results stream and then decrement the     *)
(* inflight counter; both generate their signing key when they start.      *)
(***************************************************************************)
EXTENDS Streams, Integers

VARIABLES jobs,         \* capsules the executor is working on
          inflight,     \* counter omega:stats:inflight
          leaked        \* history: increments whose decrement was lost

executorVars == <<jobs, inflight, leaked>>

Job == [run : Run, cand : Cand, published : BOOLEAN]

ExecutorInit ==
    /\ jobs = {}
    /\ inflight = 0
    /\ leaked = 0

\* The capsule arrived and is parsed (ExecutorHandler.handle).
Receive(request) ==
    jobs' = jobs \cup {[run |-> request.run, cand |-> request.cand,
                        published |-> FALSE]}

\* The funnel ends, with any verdict (tests may be flaky), and the signed
\* pack is appended to the results stream.
PublishResult(j) ==
    /\ j \in jobs
    /\ ~j.published
    /\ \E passed \in BOOLEAN :
          resultsStream' = Append(resultsStream,
              [run |-> j.run, cand |-> j.cand, passed |-> passed,
               isolated |-> Hardware, digest |-> j.cand, key |-> execKey])
    /\ jobs' = (jobs \ {j}) \cup {[j EXCEPT !.published = TRUE]}
    /\ UNCHANGED <<inflight, leaked, failureVars, acceptedStream, daemonVars,
                   fabricVars, ledgerVars>>

\* The DECR that follows the XADD.
DecrInflight(j) ==
    /\ j \in jobs
    /\ j.published
    /\ jobs' = jobs \ {j}
    /\ inflight' = inflight - 1
    /\ UNCHANGED <<leaked, failureVars, streamVars, daemonVars, fabricVars,
                   ledgerVars>>

\* One job fails outside the handler's try block (storing the artifact,
\* reaching Redis): its thread ends without a pack or without the DECR.
AbortJob(j) ==
    /\ j \in jobs
    /\ Fails
    /\ jobs' = jobs \ {j}
    /\ leaked' = leaked + 1
    /\ UNCHANGED <<execKey, inflight, streamVars, daemonVars, fabricVars,
                   ledgerVars>>

\* The executor restarts: its jobs are gone and it signs with a new key.
RestartExecutor ==
    /\ Fails
    /\ jobs' = {}
    /\ leaked' = leaked + Cardinality(jobs)
    /\ execKey' = execKey + 1
    /\ UNCHANGED <<inflight, streamVars, daemonVars, fabricVars, ledgerVars>>

ExecutorTypeOK ==
    /\ jobs \in SUBSET Job
    /\ inflight \in Int
    /\ leaked \in Nat
=============================================================================
