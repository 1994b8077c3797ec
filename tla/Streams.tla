------------------------------ MODULE Streams ------------------------------
(***************************************************************************)
(* The Redis streams between the daemons and the consumer loop that the    *)
(* dispatcher, global memory, the policy gate and the merger share: each   *)
(* is the only consumer of its group, reads new entries (">") in batches,  *)
(* handles them in order and queues an XACK for each in a pipeline that    *)
(* is executed after the last one.  Entries that were delivered and not    *)
(* acknowledged are never read again: no daemon asks for its pending list. *)
(*                                                                         *)
(* A stream is a sequence that only grows; handled[d] <= delivered[d] are  *)
(* positions in it, and the entries between them are the rest of d's batch.*)
(***************************************************************************)
EXTENDS Fabric

CONSTANTS BatchMax,     \* per daemon, the count argument of XREADGROUP
          Hardware,     \* TRUE for the hypervisor, FALSE for the simulator
          MaxCrashes    \* bound on the failures of one behaviour

VARIABLES resultsStream,    \* omega:stream:results, verification packs
          acceptedStream,   \* omega:stream:accepted, accepted candidates
          pc,               \* per daemon, where its loop is
          delivered,        \* last entry delivered to the daemon's group
          handled,          \* last entry the daemon is done with
          pipeAcks,         \* XACKs queued in the daemon's pipeline
          acked,            \* entries acknowledged
          execKey,          \* epoch of the executor's signing key, 1, 2, ...
          crashes           \* failures so far

failureVars == <<execKey, crashes>>
daemonVars == <<pc, delivered, handled, pipeAcks, acked>>
streamVars == <<resultsStream, acceptedStream>>

Daemon == {"dispatcher", "memory", "gate", "merger"}
Label  == {"read", "next", "send", "failed", "report",      \* dispatcher
           "apply",                                         \* memory
           "winner",                                        \* gate
           "claim", "recheck", "patch", "record", "release"} \* merger

\* A VerificationPack.  passed is "success and tests_failed == 0"; digest
\* names the code that was run; key is the epoch of the key that signed the
\* pack, and no key (0) for the dispatcher's own, unsigned, failure packs.
Pack == [run : Run, cand : Cand, passed : BOOLEAN, isolated : BOOLEAN,
         digest : Cand, key : Nat]

ASSUME StreamsAssumption ==
    /\ BatchMax \in [Daemon -> Nat \ {0}]
    /\ Hardware \in BOOLEAN
    /\ MaxCrashes \in Nat

Entry(s) == {s[i] : i \in DOMAIN s}

Entries(d) == CASE d = "dispatcher" -> Len(dispatchStream)
                [] d = "merger"     -> Len(acceptedStream)
                [] OTHER            -> Len(resultsStream)

StreamsInit ==
    /\ resultsStream = <<>>
    /\ acceptedStream = <<>>
    /\ pc = [d \in Daemon |-> "read"]
    /\ delivered = [d \in Daemon |-> 0]
    /\ handled = [d \in Daemon |-> 0]
    /\ pipeAcks = [d \in Daemon |-> {}]
    /\ acked = [d \in Daemon |-> {}]
    /\ execKey = 1
    /\ crashes = 0

\* XREADGROUP with ">": the next entries, up to the daemon's batch size.
XReadGroup(d) ==
    /\ pc[d] = "read"
    /\ delivered[d] < Entries(d)
    /\ delivered' = [delivered EXCEPT ![d] =
                        IF @ + BatchMax[d] < Entries(d)
                        THEN @ + BatchMax[d] ELSE Entries(d)]
    /\ pc' = [pc EXCEPT ![d] = "next"]
    /\ UNCHANGED <<handled, pipeAcks, acked>>

\* The daemon is at the top of its loop over the batch, with an entry to
\* handle and no ledger call of the previous entry outstanding.
Handling(d) ==
    /\ pc[d] = "next"
    /\ LedgerIdle(d)
    /\ handled[d] < delivered[d]

Current(d) == handled[d] + 1

Goto(d, label) ==
    /\ pc' = [pc EXCEPT ![d] = label]
    /\ UNCHANGED <<delivered, handled, pipeAcks, acked>>

\* The finally clause of the handlers: queue the XACK of the current entry.
FinishEntry(d) ==
    /\ pipeAcks' = [pipeAcks EXCEPT ![d] = @ \cup {Current(d)}]
    /\ handled' = [handled EXCEPT ![d] = @ + 1]
    /\ pc' = [pc EXCEPT ![d] = "next"]
    /\ UNCHANGED <<delivered, acked>>

\* pipe.execute() at the end of the batch: the XACKs take effect.
ExecutePipe(d) ==
    /\ pc[d] = "next"
    /\ LedgerIdle(d)
    /\ handled[d] = delivered[d]
    /\ acked' = [acked EXCEPT ![d] = @ \cup pipeAcks[d]]
    /\ pipeAcks' = [pipeAcks EXCEPT ![d] = {}]
    /\ pc' = [pc EXCEPT ![d] = "read"]
    /\ UNCHANGED <<delivered, handled>>

Fails == crashes < MaxCrashes /\ crashes' = crashes + 1

\* A restart that begins with the entries that were not acknowledged.
RereadBatch(d) ==
    /\ Fails
    /\ handled' = [handled EXCEPT ![d] = Cardinality(acked[d])]
    /\ delivered' = [delivered EXCEPT ![d] = Cardinality(acked[d])]
    /\ pipeAcks' = [pipeAcks EXCEPT ![d] = {}]
    /\ pc' = [pc EXCEPT ![d] = "read"]
    /\ calls' = [calls EXCEPT ![d] = <<>>]
    /\ UNCHANGED <<acked, execKey, statusVars>>

\* The daemon dies (a crash, or an exception that its loop does not catch)
\* and is started again: the batch, the pipeline and the ledger calls that
\* were under way are gone, what was delivered stays delivered.
LoseBatch(d) ==
    /\ Fails
    /\ handled' = [handled EXCEPT ![d] = delivered[d]]
    /\ pipeAcks' = [pipeAcks EXCEPT ![d] = {}]
    /\ pc' = [pc EXCEPT ![d] = "read"]
    /\ calls' = [calls EXCEPT ![d] = <<>>]
    /\ UNCHANGED <<delivered, acked, execKey, statusVars>>

StreamsTypeOK ==
    /\ resultsStream \in Seq(Pack)
    /\ acceptedStream \in Seq(Cand)
    /\ pc \in [Daemon -> Label]
    /\ delivered \in [Daemon -> Nat]
    /\ handled \in [Daemon -> Nat]
    /\ pipeAcks \in [Daemon -> SUBSET Nat]
    /\ acked \in [Daemon -> SUBSET Nat]
    /\ execKey \in Nat \ {0}
    /\ crashes \in 0..MaxCrashes
=============================================================================
