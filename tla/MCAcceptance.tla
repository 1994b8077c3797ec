---------------------------- MODULE MCAcceptance ----------------------------
(* Instances of Acceptance for TLC: one tree with two candidates.          *)
EXTENDS Acceptance, TLC

CONSTANTS t1, root, a, b, r1, r2, r3

MCProc   == Daemon
MCRootOf == [t \in Tree |-> root]
MCTreeOf == [c \in Cand |-> t1]
MCPath   == [c \in Cand |-> {c, root}]
MCBatch  == [d \in Daemon |-> 2]

\* Every run may be for either candidate.
MCMayRun == [r \in Run |-> Cand]
MCRunSymmetry == Permutations(Run)
=============================================================================
