----------------------------- MODULE Acceptance -----------------------------
(***************************************************************************)
(* PolicyGate and Merger, fed with results directly: the part of the       *)
(* pipeline that decides what is committed, on its own, so that more       *)
(* results, repeated executions and failures fit in an instance.  A result *)
(* is any that the executor or the dispatcher can publish.                 *)
(***************************************************************************)
EXTENDS Merger

CONSTANT MayRun         \* per run, the candidates that it may execute

acceptanceVars == <<ledgerVars, fabricVars, streamVars, daemonVars,
                    failureVars, acceptedKey, gateVars, mergerVars>>

ASSUME AcceptanceAssumption ==
    /\ Daemon \subseteq Proc
    /\ MayRun \in [Run -> SUBSET Cand]

AcceptanceInit ==
    /\ LedgerInit
    /\ FabricInit
    /\ StreamsInit
    /\ GateInit
    /\ MergerInit

sourceFrame == <<ledgerVars, dispatchStream, doneKey, acceptedStream,
                 daemonVars, failureVars, acceptedKey, gateVars, mergerVars>>

\* The candidate's hash, written before its request is queued, is there by
\* the time that its result is.
PublishPack(r, c, p) ==
    /\ c \in MayRun[r]
    /\ \A q \in Entry(resultsStream) : q.run # r
    /\ node' = [node EXCEPT ![c] = FreshHash]
    /\ resultsStream' = Append(resultsStream, p)
    /\ UNCHANGED sourceFrame

\* The executor's pack, signed with its current key.
ExecutorPublishes(r, c) ==
    \E passed \in BOOLEAN :
        PublishPack(r, c, [run |-> r, cand |-> c, passed |-> passed,
                           isolated |-> Hardware, digest |-> c,
                           key |-> execKey])

\* The dispatcher's unsigned pack for a capsule that it could not send.
DispatcherPublishes(r, c) ==
    PublishPack(r, c, [run |-> r, cand |-> c, passed |-> FALSE,
                       isolated |-> FALSE, digest |-> c, key |-> 0])

ExecutorRestarts ==
    /\ Fails
    /\ execKey' = execKey + 1
    /\ UNCHANGED <<ledgerVars, fabricVars, streamVars, daemonVars,
                   acceptedKey, gateVars, mergerVars>>

GateActs   == (GateHandler \/ GateLoop) /\ UNCHANGED mergerVars
MergerActs == MergerHandler \/ MergerLoop

LedgerActs(p) ==
    /\ LedgerStep(p)
    /\ UNCHANGED <<fabricVars, streamVars, daemonVars, failureVars,
                   acceptedKey, gateVars, mergerVars>>

AcceptanceNext ==
    \/ \E r \in Run, c \in Cand :
          ExecutorPublishes(r, c) \/ DispatcherPublishes(r, c)
    \/ GateActs
    \/ MergerActs
    \/ \E p \in Proc : LedgerActs(p)
    \/ ExecutorRestarts
    \/ RestartGate /\ UNCHANGED mergerVars
    \/ RestartMerger

AcceptanceSpec == AcceptanceInit /\ [][AcceptanceNext]_acceptanceVars
=============================================================================
