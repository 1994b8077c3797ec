----------------------------- MODULE PolicyGate -----------------------------
(***************************************************************************)
(* control_plane/policy_gate.py: decides which results may be merged and   *)
(* reserves the tree for the first accepted candidate.  The reservation    *)
(* and the candidate's status are written at once, the entry for the       *)
(* merger waits in the batch's pipeline.                                   *)
(***************************************************************************)
EXTENDS Streams

CONSTANTS RequireIsolation,   \* policy.require_hardware_isolation
          PolicyOK,           \* candidates enforce_semantic_policy accepts
          NoCand              \* the accepted key does not exist

VARIABLES acceptedKey,   \* accepted key of each tree: its winner
          gatePipe,      \* candidates queued for the accepted stream
          reserved,      \* did the SET NX under way create the key
          trustedKey,    \* the key loaded from OMEGA_TRUSTED_PUBKEY[_FILE]
          trustLog       \* history: the keys the gate has ever trusted

gateVars  == <<gatePipe, reserved, trustedKey, trustLog>>
gateFrame == <<streamVars, fabricVars, failureVars>>

ASSUME PolicyGateAssumption ==
    /\ RequireIsolation \in BOOLEAN
    /\ PolicyOK \subseteq Cand
    /\ NoCand \notin Cand

GateInit ==
    /\ acceptedKey = [t \in Tree |-> NoCand]
    /\ gatePipe = <<>>
    /\ reserved = FALSE
    /\ trustedKey = 1
    /\ trustLog = {1}

GatePack == resultsStream[Current("gate")]

\* The chain of checks up to the semantic policy.
verify_pack(p) == p.key = trustedKey
inputs_digest_matches(p) == p.digest = p.cand
enforce_semantic_policy(c) == c \in PolicyOK
\* The checks without the attestation, and without the semantic policy.
AcceptableUnsigned(p) ==
    /\ node[p.cand].exists
    /\ RequireIsolation => p.isolated
    /\ p.passed
    /\ inputs_digest_matches(p)
    /\ enforce_semantic_policy(p.cand)
Acceptable(p) ==
    /\ node[p.cand].exists
    /\ RequireIsolation => p.isolated
    /\ p.passed
    /\ verify_pack(p)
    /\ inputs_digest_matches(p)
    /\ enforce_semantic_policy(p.cand)

\* SET without NX: the last candidate wins.
ReserveBlindly ==
    /\ Handling("gate")
    /\ Acceptable(GatePack)
    /\ reserved' = TRUE
    /\ acceptedKey' = [acceptedKey EXCEPT ![TreeOf[GatePack.cand]] = GatePack.cand]
    /\ Goto("gate", "winner")
    /\ UNCHANGED <<gatePipe, trustedKey, trustLog, gateFrame, ledgerVars>>

\* SET accepted_key capsule_id NX.
ReserveTree ==
    /\ Handling("gate")
    /\ Acceptable(GatePack)
    /\ LET t == TreeOf[GatePack.cand] IN
       /\ reserved' = (acceptedKey[t] = NoCand)
       /\ acceptedKey' = [acceptedKey EXCEPT ![t] =
                             IF @ = NoCand THEN GatePack.cand ELSE @]
    /\ Goto("gate", "winner")
    /\ UNCHANGED <<gatePipe, trustedKey, trustLog, gateFrame, ledgerVars>>

\* GET accepted_key, the tree_already_accepted check and the decision.
Accept ==
    /\ pc["gate"] = "winner"
    /\ reserved \/ acceptedKey[TreeOf[GatePack.cand]] = GatePack.cand
    /\ gatePipe' = Append(gatePipe, GatePack.cand)
    /\ MakeCalls("gate", update_candidate_status(GatePack.cand, "accepted"))
    /\ FinishEntry("gate")
    /\ UNCHANGED <<acceptedKey, reserved, trustedKey, trustLog, gateFrame>>

Reject ==
    /\ \/ Handling("gate") /\ ~Acceptable(GatePack)
       \/ /\ pc["gate"] = "winner"
          /\ ~reserved
          /\ acceptedKey[TreeOf[GatePack.cand]] # GatePack.cand
    /\ MakeCalls("gate", update_candidate_status(GatePack.cand, "rejected_policy"))
    /\ FinishEntry("gate")
    /\ UNCHANGED <<acceptedKey, gatePipe, reserved, trustedKey, trustLog,
                   gateFrame>>

\* The XADD left out of the pipeline.
ExecuteAcksOnly ==
    /\ ExecutePipe("gate")
    /\ gatePipe' = <<>>
    /\ UNCHANGED <<acceptedKey, reserved, trustedKey, trustLog, gateFrame,
                   ledgerVars>>

ExecuteGatePipe ==
    /\ ExecutePipe("gate")
    /\ acceptedStream' = acceptedStream \o gatePipe
    /\ gatePipe' = <<>>
    /\ UNCHANGED <<acceptedKey, reserved, trustedKey, trustLog, failureVars,
                   resultsStream, fabricVars, ledgerVars>>

ReadGateBatch ==
    /\ XReadGroup("gate")
    /\ UNCHANGED <<acceptedKey, gateVars, gateFrame, ledgerVars>>

\* A restarted gate loads its trusted key again: the old one, or the one the
\* executor printed last.
RestartGate ==
    /\ LoseBatch("gate")
    /\ gatePipe' = <<>>
    /\ trustedKey' \in {trustedKey, execKey}
    /\ trustLog' = trustLog \cup {trustedKey'}
    /\ UNCHANGED <<acceptedKey, reserved, streamVars, fabricVars>>

GateHandler == ReserveTree \/ Accept \/ Reject
GateLoop == ReadGateBatch \/ ExecuteGatePipe

GateTypeOK ==
    /\ acceptedKey \in [Tree -> Cand \cup {NoCand}]
    /\ gatePipe \in Seq(Cand)
    /\ reserved \in BOOLEAN
    /\ trustedKey \in trustLog
    /\ trustLog \in SUBSET Nat
=============================================================================
