---------------------------- MODULE MCStatistics ----------------------------
(* Instances of Statistics for TLC: a child of the root and its child.    *)
EXTENDS Statistics

CONSTANTS root, a, aa

MCParent == [c \in Cand |-> IF c = aa THEN a ELSE root]

\* A repair, an improvement and a crash of the runner.
MCOutcome == {[passed |-> 2, failed |-> 0, runtime |-> 1],
              [passed |-> 1, failed |-> 1, runtime |-> 2],
              [passed |-> 0, failed |-> 2, runtime |-> 3]}
=============================================================================
