------------------------------ MODULE Planning ------------------------------
(***************************************************************************)
(* The arithmetic of control_plane/planning.py: how many candidates a node *)
(* of a given depth may get when so many capsules have been generated for  *)
(* the task.  Which lines the plan targets is part of what the patcher     *)
(* returns for a node, see Patches in ForestWorker.                        *)
(***************************************************************************)
EXTENDS Naturals

CONSTANTS Strategy,      \* the plan's strategy
          MaxChildren,   \* budgets.max_children
          MaxCapsules,   \* budgets.max_capsules
          MaxDepth       \* budgets.max_depth

ASSUME PlanningAssumption ==
    /\ Strategy \in {"focused", "balanced", "fallback"}
    /\ MaxChildren \in Nat \ {0}
    /\ MaxCapsules \in Nat
    /\ MaxDepth \in Nat

Lesser(x, y)  == IF x < y THEN x ELSE y
Greater(x, y) == IF x > y THEN x ELSE y

\* One capsule kept back.
remaining_but_one(generated) ==
    IF generated + 1 < MaxCapsules THEN MaxCapsules - generated - 1 ELSE 0

remaining_capsules(generated) ==
    IF generated < MaxCapsules THEN MaxCapsules - generated ELSE 0

\* The width of an expansion before the budget is looked at.
Width(depth) ==
    CASE Strategy = "focused"  -> Lesser(MaxChildren, IF depth = 0 THEN 2 ELSE 3)
      [] Strategy = "balanced" ->
            Lesser(MaxChildren, Greater(2, Lesser(MaxChildren, 2 + depth)))
      [] Strategy = "fallback" -> MaxChildren

\* expansion_plan(...).max_candidates; 0 only when nothing remains.
max_candidates(depth, generated) ==
    Lesser(Width(depth), remaining_capsules(generated))
=============================================================================
