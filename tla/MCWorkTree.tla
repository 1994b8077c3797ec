----------------------------- MODULE MCWorkTree -----------------------------
(* Two candidates for different files, one of which is too large for a      *)
(* snapshot when it has been edited.                                        *)
EXTENDS WorkTree, TLC

CONSTANTS f, g, c, d, e1, e2

MCFileOf == [x \in Cand |-> IF x = d THEN g ELSE f]
MCTaken == [x \in File |-> {y \in Content : x = g => y \cap Edit = {}}]
MCSymmetry == Permutations(Edit)
=============================================================================
