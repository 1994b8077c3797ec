------------------------------- MODULE Fabric -------------------------------
(***************************************************************************)
(* The state in Redis that the search (forest_worker.py) and the delivery  *)
(* pipeline (dispatcher, executor, global_memory, policy_gate, merger)     *)
(* share: the node hashes of the search trees, the done key of each tree   *)
(* and the stream of execution requests.                                   *)
(*                                                                         *)
(* A candidate's id is the hash of its code and its parent's id, so the    *)
(* code of a node never changes and a candidate stands for its code.  The  *)
(* parent of a candidate is fixed for the same reason.  value_sum feeds    *)
(* only the UCB score, which the search model leaves open, so a node keeps *)
(* its existence, visits and the two flags that steer the search.          *)
(***************************************************************************)
EXTENDS Ledger, FiniteSets

CONSTANTS RootOf,   \* the root node of each tree
          TreeOf,   \* the tree_id field of each candidate
          Path      \* each candidate with its ancestors, up to the root

VARIABLES node,            \* the hash of each node
          doneKey,         \* trees whose done key is set
          dispatchStream   \* omega:stream:dispatch, a sequence of requests

fabricVars == <<node, doneKey, dispatchStream>>

Roots == {RootOf[t] : t \in Tree}
Node  == Cand \cup Roots

NodeHash == [exists : BOOLEAN, visits : Nat, terminal : BOOLEAN,
             expanded : BOOLEAN]
NoHash    == [exists |-> FALSE, visits |-> 0, terminal |-> FALSE,
              expanded |-> FALSE]
\* What expand writes for a child, whether or not the hash exists already,
\* and what fix_tests writes for a root.
FreshHash == [NoHash EXCEPT !.exists = TRUE]

Request == [run : Run, cand : Cand]

ASSUME FabricAssumption ==
    /\ RootOf \in [Tree -> Roots]
    /\ Roots \cap Cand = {}
    /\ TreeOf \in [Cand -> Tree]
    /\ Path \in [Cand -> SUBSET Node]
    /\ \A c \in Cand : c \in Path[c] /\ RootOf[TreeOf[c]] \in Path[c]

\* The trees as fix_tests seeds them: only the root exists.
FabricInit ==
    /\ node = [n \in Node |-> IF n \in Roots THEN FreshHash ELSE NoHash]
    /\ doneKey = {}
    /\ dispatchStream = <<>>

FabricTypeOK ==
    /\ node \in [Node -> NodeHash]
    /\ doneKey \in SUBSET Tree
    /\ dispatchStream \in Seq(Request)
=============================================================================
