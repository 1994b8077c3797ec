---------------------------- MODULE MCHypervisor ----------------------------
(* Instances of Hypervisor for TLC: two runs of one candidate and one run  *)
(* of another.                                                             *)
EXTENDS Hypervisor, TLC

CONSTANTS a, b, j1, j2, j3

MCCandOf == [j \in Job |-> IF j = j3 THEN b ELSE a]
MCSymmetry == Permutations({j1, j2})
=============================================================================
