------------------------------ MODULE MCSeeding ------------------------------
(* An instance of Seeding for TLC: a task with one candidate at its root,   *)
(* and one whose tests pass.                                                *)
EXTENDS Seeding

CONSTANTS t1, t2, a

MCPatches == [t \in Task |-> IF t = t1 THEN {a} ELSE {}]
=============================================================================
