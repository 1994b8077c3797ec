----------------------------- MODULE MCPipeline -----------------------------
(* Instances of Pipeline for TLC: one tree with two candidates.            *)
EXTENDS Pipeline, TLC

CONSTANTS t1, root, a, b, r1, r2, r3

MCProc   == Daemon \cup {"worker"}
MCRootOf == [t \in Tree |-> root]
MCTreeOf == [c \in Cand |-> t1]
MCPath   == [c \in Cand |-> {c, root}]
MCBatch  == [d \in Daemon |-> 2]

\* The second run repeats the first candidate; the third is for either.
MCRepeated == [r \in Run |-> IF r = r3 THEN {a, b} ELSE {a}]
\* One run for each candidate.
MCDistinct == [r \in Run |-> IF r = r1 THEN {a} ELSE {b}]
=============================================================================
