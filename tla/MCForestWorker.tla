--------------------------- MODULE MCForestWorker ---------------------------
(* Instances of ForestWorker for TLC: a root with three possible children,  *)
(* one of them redundant, and one possible grandchild, as far as Cand has   *)
(* them.                                                                    *)
EXTENDS ForestWorker, TLC

CONSTANTS t1, root, a, b, e, aa, w1, w2

MCRun     == 1..MaxCapsules
MCRootOf  == [t \in Tree |-> root]
MCTreeOf  == [c \in Cand |-> t1]
MCPath    == [c \in Cand |-> IF c = aa THEN {aa, a, root} ELSE {c, root}]
MCDepth   == [n \in Node |-> IF n = root THEN 0 ELSE IF n = aa THEN 2 ELSE 1]
MCFound   == [n \in Node |-> IF n = root THEN <<a, e, b>>
                             ELSE IF n = a THEN <<aa>> ELSE <<>>]
MCPatches == [n \in Node |-> SelectSeq(MCFound[n], LAMBDA c : c \in Cand)]
MCWorkerSymmetry == Permutations(Worker)
=============================================================================
