---------------------------- MODULE Reservation ----------------------------
(***************************************************************************)
(* What the accepted key is for, without streams, batches or daemons: a    *)
(* tree is reserved for one candidate at a time, only the candidate that   *)
(* holds its tree is committed, and a reservation is given up, never taken *)
(* over.  PolicyGate and Merger together implement it.                     *)
(***************************************************************************)
EXTENDS Sequences

CONSTANTS Tree, Cand, TreeOf, NoCand

VARIABLES holder,    \* the candidate that each tree is reserved for
          commits    \* the commits made, in order

vars == <<holder, commits>>

Init ==
    /\ holder = [t \in Tree |-> NoCand]
    /\ commits = <<>>

Reserve(c) ==
    /\ holder[TreeOf[c]] = NoCand
    /\ holder' = [holder EXCEPT ![TreeOf[c]] = c]
    /\ UNCHANGED commits

Commit(c) ==
    /\ holder[TreeOf[c]] = c
    /\ commits' = Append(commits, c)
    /\ UNCHANGED holder

GiveUp(c) ==
    /\ holder[TreeOf[c]] = c
    /\ holder' = [holder EXCEPT ![TreeOf[c]] = NoCand]
    /\ UNCHANGED commits

Next == \E c \in Cand : Reserve(c) \/ Commit(c) \/ GiveUp(c)

Spec == Init /\ [][Next]_vars
=============================================================================
