------------------------------- MODULE Merger -------------------------------
(***************************************************************************)
(* control_plane/merger.py: commits accepted candidates on repair branches.*)
(* apply_patch runs git; what matters here is whether it committed and     *)
(* whether it raised, and it can do both (its last command, the checkout   *)
(* of the base branch, comes after the commit).                            *)
(***************************************************************************)
EXTENDS PolicyGate

VARIABLES commits,    \* candidates committed to the repository, in order
          clean,      \* history: candidates whose merge never raised
          released    \* history: candidates whose reservation was deleted

mergerVars  == <<commits, clean, released>>
mergerFrame == <<gateVars, streamVars, fabricVars, failureVars>>

MergerInit ==
    /\ commits = <<>>
    /\ clean = {}
    /\ released = {}

Winner  == acceptedStream[Current("merger")]
MyTree  == TreeOf[Winner]

\* A merger that takes a free tree for its own.
CheckWinnerOnly ==
    /\ Handling("merger")
    /\ \/ acceptedKey[MyTree] \notin {NoCand, Winner} /\ FinishEntry("merger")
       \/ acceptedKey[MyTree] \in {NoCand, Winner} /\ Goto("merger", "patch")
    /\ UNCHANGED <<acceptedKey, mergerVars, mergerFrame, ledgerVars>>

\* GET accepted_key: skip the entry, go on with it, or claim a free tree.
CheckWinner ==
    /\ Handling("merger")
    /\ \/ acceptedKey[MyTree] \notin {NoCand, Winner} /\ FinishEntry("merger")
       \/ acceptedKey[MyTree] = Winner /\ Goto("merger", "patch")
       \/ acceptedKey[MyTree] = NoCand /\ Goto("merger", "claim")
    /\ UNCHANGED <<acceptedKey, mergerVars, mergerFrame, ledgerVars>>

\* SET accepted_key NX: the gate may have taken the tree since the GET.
ClaimTree ==
    /\ pc["merger"] = "claim"
    /\ \/ /\ acceptedKey[MyTree] = NoCand
          /\ acceptedKey' = [acceptedKey EXCEPT ![MyTree] = Winner]
          /\ Goto("merger", "patch")
       \/ /\ acceptedKey[MyTree] # NoCand
          /\ Goto("merger", "recheck")
          /\ UNCHANGED acceptedKey
    /\ UNCHANGED <<mergerVars, mergerFrame, ledgerVars>>

RecheckWinner ==
    /\ pc["merger"] = "recheck"
    /\ \/ acceptedKey[MyTree] # Winner /\ FinishEntry("merger")
       \/ acceptedKey[MyTree] = Winner /\ Goto("merger", "patch")
    /\ UNCHANGED <<acceptedKey, mergerVars, mergerFrame, ledgerVars>>

\* A failed commit that goes unnoticed.
PatchNotCommitted ==
    /\ pc["merger"] = "patch"
    /\ MakeCalls("merger", update_candidate_status(Winner, "merged")
                           \o update_task_status(MyTree, "merged"))
    /\ Goto("merger", "record")
    /\ UNCHANGED <<acceptedKey, mergerVars, mergerFrame>>

\* apply_patch returns: the repair branch has its commit.
PatchApplied ==
    /\ pc["merger"] = "patch"
    /\ commits' = Append(commits, Winner)
    /\ MakeCalls("merger", update_candidate_status(Winner, "merged")
                           \o update_task_status(MyTree, "merged"))
    /\ Goto("merger", "record")
    /\ UNCHANGED <<acceptedKey, clean, released, mergerFrame>>

\* A merge that gives the reservation back when it is done.
MergeRecordedAndReleased ==
    /\ pc["merger"] = "record"
    /\ LedgerIdle("merger")
    /\ clean' = clean \cup {Winner}
    /\ acceptedKey' = [acceptedKey EXCEPT ![MyTree] = NoCand]
    /\ FinishEntry("merger")
    /\ UNCHANGED <<commits, released, mergerFrame, ledgerVars>>

MergeRecorded ==
    /\ pc["merger"] = "record"
    /\ LedgerIdle("merger")
    /\ clean' = clean \cup {Winner}
    /\ FinishEntry("merger")
    /\ UNCHANGED <<acceptedKey, commits, released, mergerFrame, ledgerVars>>

\* Something raises: a git command, before or after the commit was made, or
\* one of the ledger calls that follow apply_patch in the same try block (the
\* last of them stores the duration of the merge).
MergeRaises ==
    /\ Fails
    /\ \/ /\ pc["merger"] = "patch"
          /\ commits' \in {commits, Append(commits, Winner)}
       \/ /\ pc["merger"] = "record"
          /\ UNCHANGED commits
    /\ MakeCalls("merger", <<>>)
    /\ Goto("merger", "release")
    /\ UNCHANGED <<acceptedKey, clean, released, execKey, gateVars, streamVars,
                   fabricVars>>

\* The except clause: DEL accepted_key, with no look at its value.
ReleaseTree ==
    /\ pc["merger"] = "release"
    /\ acceptedKey' = [acceptedKey EXCEPT ![MyTree] = NoCand]
    /\ released' = released \cup {Winner}
    /\ MakeCalls("merger", update_candidate_status(Winner, "merge_failed"))
    /\ FinishEntry("merger")
    /\ UNCHANGED <<commits, clean, mergerFrame>>

MergerLoop ==
    /\ XReadGroup("merger") \/ ExecutePipe("merger")
    /\ UNCHANGED <<acceptedKey, mergerVars, mergerFrame, ledgerVars>>

RestartMerger ==
    /\ pc["merger"] # "read"
    /\ LoseBatch("merger")
    /\ UNCHANGED <<acceptedKey, mergerVars, gateVars, streamVars, fabricVars>>

MergerHandler ==
    \/ CheckWinner \/ ClaimTree \/ RecheckWinner \/ PatchApplied
    \/ MergeRecorded \/ MergeRaises \/ ReleaseTree

MergerTypeOK ==
    /\ commits \in Seq(Cand)
    /\ clean \in SUBSET Cand
    /\ released \in SUBSET Cand

-----------------------------------------------------------------------------
(* Properties of gate and merger together                                  *)

\* A result that satisfies the whole of the gate's policy, under a key that
\* the gate was configured to trust.
Vouches(p, c) ==
    /\ p.cand = c
    /\ p.passed
    /\ RequireIsolation => p.isolated
    /\ p.digest = c
    /\ p.key \in trustLog

\* "merges only policy-compliant fixes" (README.md): every commit of the
\* merger is for a candidate that the semantic policy accepts and for which
\* the results stream holds a passing, suitably isolated, correctly digested
\* pack signed by a trusted key, whatever was restarted, repeated or lost
\* on the way through gate, pipeline and accepted stream.
MergesAreVerified ==
    \A c \in Entry(commits) :
        /\ c \in PolicyOK
        /\ \E p \in Entry(resultsStream) : Vouches(p, c)

\* Two candidates of one tree are both merged without an error only if the
\* reservation of one of them was deleted by a failed merge of a repeated
\* execution: the accepted key serialises gate and merger.
OneCleanWinner ==
    \A c, d \in clean :
        TreeOf[c] = TreeOf[d] /\ c # d => {c, d} \cap released # {}

\* The ledger says "merged" of a candidate or a task only after the commit.
LedgerMergedIsCommitted ==
    /\ \A c \in Cand : candStatus[c] = "merged" => c \in Entry(commits)
    /\ \A t \in Tree : taskStatus[t] = "merged" =>
           \E c \in Entry(commits) : TreeOf[c] = t

\* Where the acceptance of c can still be on its way to the merger.
AcceptanceInFlight(c) ==
    \/ pc["gate"] = "winner" /\ GatePack.cand = c
    \/ c \in Entry(gatePipe)
    \/ \E i \in DOMAIN acceptedStream :
          i > handled["merger"] /\ acceptedStream[i] = c

\* Without failures no tree is reserved for a candidate that nobody is going
\* to merge: its acceptance is on its way, or it has been merged.
NoOrphanReservation ==
    crashes = 0 =>
        \A t \in Tree : acceptedKey[t] # NoCand =>
            acceptedKey[t] \in clean \/ AcceptanceInFlight(acceptedKey[t])

\* A reservation is never passed on or taken over: it ends only when the
\* merger, failing to merge that very candidate, deletes the key.
ReservationEndsByItsOwnRelease ==
    [][\A t \in Tree : acceptedKey[t] # NoCand /\ acceptedKey'[t] # acceptedKey[t]
          => acceptedKey'[t] = NoCand /\ pc["merger"] = "release"
             /\ Winner = acceptedKey[t]]_<<acceptedKey, pc, handled, acceptedStream>>

\* The accepted key does what Reservation says: in particular, at the moment
\* of a commit the tree is reserved for the committed candidate.
R == INSTANCE Reservation WITH holder <- acceptedKey
ImplementsReservation == R!Spec
=============================================================================
