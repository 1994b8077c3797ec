------------------------- MODULE ForestWorkerProofs -------------------------
(***************************************************************************)
(* Proofs about ForestWorker, for any number of workers, any tree, any     *)
(* budget and any number of lock expiries and deaths.                      *)
(***************************************************************************)
EXTENDS ForestWorker, LedgerProofs, FiniteSetTheorems

-----------------------------------------------------------------------------
(* Types                                                                   *)

LEMMA NodeFacts ==
    /\ Cand \subseteq Node
    /\ RootNode \in Node
    /\ RootNode \in Roots
    /\ FreshHash \in NodeHash
    /\ NoHash \in NodeHash
BY FabricAssumption, ForestAssumption
   DEF Node, Roots, RootNode, FreshHash, NoHash, NodeHash

LEMMA InitType == Init => TypeOK
<1>. SUFFICES ASSUME Init PROVE TypeOK
  OBVIOUS
<1>1. LedgerTypeOK
  BY LedgerInitType DEF Init
<1>2. FabricTypeOK
  BY NodeFacts DEF Init, FabricInit, FabricTypeOK
<1>3. (CHOOSE c \in Cand : TRUE) \in Cand
  BY ForestAssumption
<1>4. WorkerTypeOK
  BY <1>3, NodeFacts DEF Init, WorkerTypeOK, WorkerLabel
<1>. QED BY <1>1, <1>2, <1>4 DEF TypeOK

\* Steps of run outside expand: they write the walker's position and locks.
LEMMA WalkType ==
    ASSUME TypeOK, NEW w \in Worker,
           \/ StartSelection(w) \/ distributed_select(w) \/ TakeLock(w)
           \/ CheckLock(w) \/ DeleteLock(w)
    PROVE  TypeOK'
<1>. USE DEF TypeOK
<1>1. LedgerTypeOK'
  BY LedgerUnchangedType
  DEF StartSelection, distributed_select, TakeLock, CheckLock, DeleteLock
<1>2. FabricTypeOK'
  BY DEF StartSelection, distributed_select, TakeLock, CheckLock, DeleteLock,
         FabricTypeOK, fabricVars
<1>3. CASE StartSelection(w)
  BY <1>1, <1>2, <1>3, NodeFacts
  DEF StartSelection, Step, WorkerTypeOK, WorkerLabel, redisVars, recordVars
<1>4. CASE distributed_select(w)
  <2>1. at' \in [Worker -> Node]
    BY <1>4, NodeFacts DEF distributed_select, SelectLeaf, SelectUnvisited,
       Descend, Unvisited, WorkerTypeOK
  <2>2. wpc' \in [Worker -> WorkerLabel]
    BY <1>4 DEF distributed_select, SelectLeaf, SelectUnvisited,
       Descend, Step, WorkerTypeOK, WorkerLabel
  <2>3. WorkerTypeOK'
    BY <1>4, <2>1, <2>2 DEF distributed_select, WorkerTypeOK, redisVars, recordVars
  <2>. QED BY <1>1, <1>2, <2>3
<1>5. CASE TakeLock(w)
  BY <1>1, <1>2, <1>5
  DEF TakeLock, Step, WorkerTypeOK, WorkerLabel, recordVars
<1>6. CASE CheckLock(w)
  BY <1>1, <1>2, <1>6
  DEF CheckLock, Step, WorkerTypeOK, WorkerLabel, redisVars, recordVars
<1>7. CASE DeleteLock(w)
  BY <1>1, <1>2, <1>7
  DEF DeleteLock, Step, WorkerTypeOK, WorkerLabel, recordVars
<1>. QED BY <1>1, <1>2, <1>3, <1>4, <1>5, <1>6, <1>7

\* A worker being refused has its increment in the counter.
LEMMA RefusedCounts ==
    ASSUME TypeOK, BudgetInv, NEW w \in Worker, wpc[w] = "refused"
    PROVE  budget - 1 \in Nat
<1>1. IsFiniteSet(Refusing)
  BY FS_Subset, ForestAssumption DEF Refusing
<1>2. w \in Refusing
  BY DEF Refusing
<1>3. Cardinality(Refusing) \in Nat /\ Cardinality(Refusing) # 0
  BY <1>1, <1>2, FS_CardinalityType, FS_EmptySet
<1>. QED BY <1>3 DEF TypeOK, WorkerTypeOK, BudgetInv, CounterIsExact

\* The hash updates of expand.
LEMMA HashTypes ==
    ASSUME node \in [Node -> NodeHash], NEW n \in Node, NEW b \in BOOLEAN
    PROVE  /\ [node EXCEPT ![n].terminal = TRUE, ![n].expanded = TRUE]
                 \in [Node -> NodeHash]
           /\ [node EXCEPT ![n].expanded = TRUE, ![n].terminal = @ \/ b]
                 \in [Node -> NodeHash]
           /\ [node EXCEPT ![n] = FreshHash] \in [Node -> NodeHash]
<1>1. [node EXCEPT ![n] = FreshHash] \in [Node -> NodeHash]
  BY NodeFacts
<1>2. node[n] \in NodeHash
  OBVIOUS
<1>3. [node EXCEPT ![n].terminal = TRUE, ![n].expanded = TRUE] \in [Node -> NodeHash]
  BY <1>2 DEF NodeHash
<1>4. [node EXCEPT ![n].expanded = TRUE, ![n].terminal = @ \/ b] \in [Node -> NodeHash]
  BY <1>2 DEF NodeHash
<1>. QED BY <1>1, <1>3, <1>4

\* Steps of expand.
LEMMA ExpandType ==
    ASSUME TypeOK, BudgetInv, NEW w \in Worker, expand(w)
    PROVE  TypeOK'
<1>0. /\ w \in Proc
      /\ at[w] \in Node
      /\ current[w] \in Cand
      /\ node \in [Node -> NodeHash]
      /\ Task \in Tree
  BY ForestAssumption DEF TypeOK, WorkerTypeOK, FabricTypeOK
<1>1. CASE CheckNode(w)
  <2>1. LedgerTypeOK'
    BY <1>1, LedgerUnchangedType DEF CheckNode, TypeOK
  <2>2. FabricTypeOK'
    <3>1. UNCHANGED <<doneKey, dispatchStream>> /\ (UNCHANGED node \/ Seal(at[w]))
      BY <1>1 DEF CheckNode
    <3>2. node' \in [Node -> NodeHash]
      <4>1. CASE UNCHANGED node
        BY <1>0, <4>1
      <4>2. CASE Seal(at[w])
        BY <1>0, <4>2, HashTypes DEF Seal
      <4>. QED BY <3>1, <4>1, <4>2
    <3>. QED BY <3>1, <3>2 DEF TypeOK, FabricTypeOK
  <2>3. WorkerTypeOK'
    BY <1>1 DEF CheckNode, Step, TypeOK, WorkerTypeOK, WorkerLabel, loopVars,
       redisVars, recordVars
  <2>. QED BY <2>1, <2>2, <2>3 DEF TypeOK
<1>2. CASE PlanExpansion(w)
  <2>1. LedgerTypeOK' /\ FabricTypeOK'
    BY <1>2, LedgerUnchangedType DEF PlanExpansion, TypeOK, FabricTypeOK, fabricVars
  <2>2. \A i \in DOMAIN Patches[at[w]] : Patches[at[w]][i] \in Cand
    BY <1>0, ForestAssumption
  <2>3. WorkerTypeOK'
    BY <1>2, <2>2 DEF PlanExpansion, Step, TypeOK, WorkerTypeOK, WorkerLabel,
       redisVars, recordVars
  <2>. QED BY <2>1, <2>3 DEF TypeOK
<1>3. CASE SetExhausted(w)
  <2>1. update_task_status(Task, "budget_exhausted") \in Seq(Call)
    BY <1>0, CallTypes DEF TaskStatus
  <2>2. LedgerTypeOK'
    BY <1>0, <1>3, <2>1, MakeCallsType DEF SetExhausted, TypeOK
  <2>3. FabricTypeOK' /\ WorkerTypeOK'
    BY <1>3 DEF SetExhausted, Step, TypeOK, FabricTypeOK, fabricVars,
       WorkerTypeOK, WorkerLabel, loopVars, recordVars
  <2>. QED BY <2>2, <2>3 DEF TypeOK
<1>4. CASE SealSpent(w)
  <2>1. LedgerTypeOK'
    BY <1>4, LedgerUnchangedType DEF SealSpent, TypeOK
  <2>2. FabricTypeOK'
    BY <1>0, <1>4, HashTypes DEF SealSpent, Seal, TypeOK, FabricTypeOK
  <2>3. WorkerTypeOK'
    BY <1>4 DEF SealSpent, Step, TypeOK, WorkerTypeOK, WorkerLabel, loopVars,
       redisVars, recordVars
  <2>. QED BY <2>1, <2>2, <2>3 DEF TypeOK
<1>5. CASE PruneCandidate(w)
  <2>1. LedgerTypeOK' /\ FabricTypeOK'
    BY <1>5, LedgerUnchangedType DEF PruneCandidate, TypeOK, FabricTypeOK, fabricVars
  <2>2. WorkerTypeOK'
    BY <1>5 DEF PruneCandidate, Step, TypeOK, WorkerTypeOK, WorkerLabel,
       redisVars, recordVars
  <2>. QED BY <2>1, <2>2 DEF TypeOK
<1>6. CASE ReserveBudget(w)
  <2>1. LedgerTypeOK' /\ FabricTypeOK'
    BY <1>6, LedgerUnchangedType DEF ReserveBudget, TypeOK, FabricTypeOK, fabricVars
  <2>2. WorkerTypeOK'
    BY <1>6 DEF ReserveBudget, Step, TypeOK, WorkerTypeOK, WorkerLabel
  <2>. QED BY <2>1, <2>2 DEF TypeOK
<1>7. CASE UndoReservation(w)
  <2>1. LedgerTypeOK' /\ FabricTypeOK'
    BY <1>7, LedgerUnchangedType DEF UndoReservation, TypeOK, FabricTypeOK, fabricVars
  <2>2. budget' \in Nat
    BY <1>7, RefusedCounts DEF UndoReservation, Step
  <2>3. WorkerTypeOK'
    BY <1>7, <2>2 DEF UndoReservation, Step, TypeOK, WorkerTypeOK, WorkerLabel,
       loopVars, recordVars
  <2>. QED BY <2>1, <2>3 DEF TypeOK
<1>8. CASE ShowGenerated(w)
  <2>1. LedgerTypeOK' /\ FabricTypeOK'
    BY <1>8, LedgerUnchangedType DEF ShowGenerated, TypeOK, FabricTypeOK, fabricVars
  <2>2. WorkerTypeOK'
    BY <1>8 DEF ShowGenerated, Step, TypeOK, WorkerTypeOK, WorkerLabel,
       loopVars, recordVars
  <2>. QED BY <2>1, <2>2 DEF TypeOK
<1>9. CASE CreateChild(w)
  <2>1. ticket[w] \in Run
    BY <1>9 DEF CreateChild, Step, BudgetInv, Holding
  <2>2. /\ record_candidate(current[w], "generated") \in Seq(Call)
        /\ update_task_status(Task, "running") \in Seq(Call)
        /\ record_execution_queued(ticket[w]) \in Seq(Call)
        /\ update_candidate_status(current[w], "queued") \in Seq(Call)
    BY <1>0, <2>1, CallTypes DEF TaskStatus, CandStatus
  <2>3. record_candidate(current[w], "generated")
           \o update_task_status(Task, "running")
           \o record_execution_queued(ticket[w])
           \o update_candidate_status(current[w], "queued") \in Seq(Call)
    BY <2>2
  <2>4. LedgerTypeOK'
    BY <1>0, <1>9, <2>3, MakeCallsType DEF CreateChild, TypeOK
  <2>5. FabricTypeOK'
    BY <1>0, <1>9, HashTypes, NodeFacts DEF CreateChild, TypeOK, FabricTypeOK
  <2>6. WorkerTypeOK'
    BY <1>0, <1>9 DEF CreateChild, Step, TypeOK, WorkerTypeOK, WorkerLabel, recordVars
  <2>. QED BY <2>4, <2>5, <2>6 DEF TypeOK
<1>10. CASE QueueExecution(w)
  <2>1. [run |-> ticket[w], cand |-> current[w]] \in Request
    BY <1>0, <1>10 DEF QueueExecution, Step, BudgetInv, Holding, Request
  <2>2. LedgerTypeOK'
    BY <1>10, LedgerUnchangedType DEF QueueExecution, TypeOK
  <2>3. FabricTypeOK'
    BY <1>10, <2>1 DEF QueueExecution, TypeOK, FabricTypeOK
  <2>4. WorkerTypeOK'
    BY <1>10 DEF QueueExecution, Step, TypeOK, WorkerTypeOK, WorkerLabel,
       loopVars, redisVars, recordVars
  <2>. QED BY <2>2, <2>3, <2>4 DEF TypeOK
<1>11. CASE EndLoop(w)
  <2>1. LedgerTypeOK' /\ FabricTypeOK'
    BY <1>11, LedgerUnchangedType DEF EndLoop, TypeOK, FabricTypeOK, fabricVars
  <2>2. WorkerTypeOK'
    BY <1>11 DEF EndLoop, Step, TypeOK, WorkerTypeOK, WorkerLabel, loopVars,
       redisVars, recordVars
  <2>. QED BY <2>1, <2>2 DEF TypeOK
<1>12. CASE FinishExpansion(w)
  <2>1. LedgerTypeOK'
    BY <1>12, LedgerUnchangedType DEF FinishExpansion, TypeOK
  <2>2. (~made[w]) \in BOOLEAN
    BY DEF TypeOK, WorkerTypeOK
  <2>3. FabricTypeOK'
    BY <1>0, <1>12, <2>2, HashTypes DEF FinishExpansion, TypeOK, FabricTypeOK
  <2>4. WorkerTypeOK'
    BY <1>12 DEF FinishExpansion, Step, TypeOK, WorkerTypeOK, WorkerLabel,
       loopVars, redisVars, recordVars
  <2>. QED BY <2>1, <2>3, <2>4 DEF TypeOK
<1>. QED
  BY <1>1, <1>2, <1>3, <1>4, <1>5, <1>6, <1>7, <1>8, <1>9, <1>10, <1>11, <1>12
  DEF expand

\* The other steps: the ledger, results, expiries and deaths.
LEMMA OtherType ==
    ASSUME TypeOK,
           \/ \E w \in Worker : LedgerAction(w) \/ WorkerDies(w) \/ ExpandRaises(w)
           \/ \E i \in DOMAIN dispatchStream, passed \in BOOLEAN :
                 ResultArrives(i, passed)
           \/ \E n \in Node : LockExpires(n)
    PROVE  TypeOK'
<1>1. ASSUME NEW w \in Worker, LedgerAction(w) PROVE TypeOK'
  <2>1. LedgerTypeOK'
    BY <1>1, LedgerStepType, ForestAssumption DEF LedgerAction, TypeOK
  <2>. QED
    BY <1>1, <2>1 DEF LedgerAction, TypeOK, FabricTypeOK, fabricVars,
       WorkerTypeOK, redisVars, localVars, recordVars
<1>2. ASSUME NEW w \in Worker, WorkerDies(w) \/ ExpandRaises(w) PROVE TypeOK'
  <2>1. LedgerTypeOK'
    <3>1. MakeCalls(w, <<>>) /\ w \in Proc /\ <<>> \in Seq(Call)
      BY <1>2, ForestAssumption DEF WorkerDies, ExpandRaises, Abandon
    <3>. QED BY <3>1, MakeCallsType DEF TypeOK
  <2>2. FabricTypeOK'
    BY <1>2 DEF WorkerDies, ExpandRaises, Abandon, TypeOK, FabricTypeOK, fabricVars
  <2>3. wpc' \in [Worker -> WorkerLabel]
    BY <1>2 DEF WorkerDies, ExpandRaises, Abandon, TypeOK, WorkerTypeOK, WorkerLabel
  <2>4. stranded' \in Nat /\ deaths' \in Nat /\ raises' \in Nat
    BY <1>2 DEF WorkerDies, ExpandRaises, Abandon, TypeOK, WorkerTypeOK
  <2>5. UNCHANGED <<at, loopVars, redisVars, answered, granted, expiries>>
    BY <1>2 DEF WorkerDies, ExpandRaises, Abandon
  <2>. QED
    BY <2>1, <2>2, <2>3, <2>4, <2>5
    DEF TypeOK, WorkerTypeOK, redisVars, loopVars
<1>3. ASSUME NEW i \in DOMAIN dispatchStream, NEW passed \in BOOLEAN,
             ResultArrives(i, passed)
      PROVE  TypeOK'
  <2>. DEFINE c == dispatchStream[i].cand
  <2>1. c \in Cand /\ i \in Nat
    <3>1. dispatchStream \in Seq(Request)
      BY DEF TypeOK, FabricTypeOK
    <3>2. dispatchStream[i] \in Request /\ i \in Nat
      BY <3>1
    <3>. QED BY <3>2 DEF Request
  <2>2. node' \in [Node -> NodeHash]
    <3>1. SUFFICES ASSUME NEW n \in Node
                   PROVE  [node[n] EXCEPT
                             !.visits = IF n \in Path[c] THEN @ + 1 ELSE @,
                             !.terminal = @ \/ (passed /\ n = c)] \in NodeHash
      BY <1>3 DEF ResultArrives
    <3>2. node[n] \in NodeHash
      BY DEF TypeOK, FabricTypeOK
    <3>3. (node[n].terminal \/ (passed /\ n = c)) \in BOOLEAN
      OBVIOUS
    <3>4. (IF n \in Path[c] THEN node[n].visits + 1 ELSE node[n].visits) \in Nat
      BY <3>2 DEF NodeHash
    <3>. HIDE DEF c
    <3>. QED BY <3>2, <3>3, <3>4 DEF NodeHash
  <2>3. doneKey' \in SUBSET Tree
    BY <1>3, <2>1, FabricAssumption DEF ResultArrives, TypeOK, FabricTypeOK
  <2>4. LedgerTypeOK'
    BY <1>3, LedgerUnchangedType DEF ResultArrives, TypeOK
  <2>5. FabricTypeOK'
    BY <1>3, <2>2, <2>3 DEF ResultArrives, TypeOK, FabricTypeOK
  <2>6. WorkerTypeOK'
    BY <1>3, <2>1 DEF ResultArrives, TypeOK, WorkerTypeOK, redisVars, localVars
  <2>. QED BY <2>4, <2>5, <2>6 DEF TypeOK
<1>4. ASSUME NEW n \in Node, LockExpires(n) PROVE TypeOK'
  <2>1. LedgerTypeOK' /\ FabricTypeOK'
    BY <1>4, LedgerUnchangedType DEF LockExpires, TypeOK, FabricTypeOK, fabricVars
  <2>. QED BY <1>4, <2>1 DEF LockExpires, TypeOK, WorkerTypeOK, localVars
<1>. QED BY <1>1, <1>2, <1>3, <1>4

-----------------------------------------------------------------------------
(* Counting workers                                                        *)

At(L) == {w \in Worker : wpc[w] \in L}

\* When one worker moves, the number of workers at a set of labels changes by
\* the move and no more.
LEMMA OneMoves ==
    ASSUME NEW L, NEW w \in Worker, NEW to,
           wpc \in [Worker -> WorkerLabel], wpc' = [wpc EXCEPT ![w] = to]
    PROVE  /\ Cardinality(At(L)) \in Nat
           /\ wpc[w] \in L /\ to \in L => Cardinality(At(L)') = Cardinality(At(L))
           /\ wpc[w] \notin L /\ to \notin L => Cardinality(At(L)') = Cardinality(At(L))
           /\ wpc[w] \notin L /\ to \in L => Cardinality(At(L)') = Cardinality(At(L)) + 1
           /\ wpc[w] \in L /\ to \notin L => Cardinality(At(L)') = Cardinality(At(L)) - 1
<1>1. IsFiniteSet(At(L))
  BY FS_Subset, ForestAssumption DEF At
<1>2. Cardinality(At(L)) \in Nat
  BY <1>1, FS_CardinalityType
<1>3. ASSUME wpc[w] \in L, to \in L PROVE At(L)' = At(L)
  BY <1>3 DEF At
<1>4. ASSUME wpc[w] \notin L, to \notin L PROVE At(L)' = At(L)
  BY <1>4 DEF At
<1>5. ASSUME wpc[w] \notin L, to \in L
      PROVE  Cardinality(At(L)') = Cardinality(At(L)) + 1
  <2>1. At(L)' = At(L) \cup {w} /\ w \notin At(L)
    BY <1>5 DEF At
  <2>. QED BY <1>1, <2>1, FS_AddElement
<1>6. ASSUME wpc[w] \in L, to \notin L
      PROVE  Cardinality(At(L)') = Cardinality(At(L)) - 1
  <2>1. At(L)' = At(L) \ {w} /\ w \in At(L)
    BY <1>6 DEF At
  <2>. QED BY <1>1, <2>1, FS_RemoveElement
<1>. QED BY <1>2, <1>3, <1>4, <1>5, <1>6

-----------------------------------------------------------------------------
(* The budget                                                              *)

RefusedL == {"refused"}
HoldingL == {"granted", "child", "queue"}
SpentL   == {"spent", "exhaust"}

\* BudgetInv with its sets of workers given by labels.
LEMMA BudgetByLabels ==
    /\ Refusing = At(RefusedL)
    /\ Holding = At(HoldingL)
    /\ (\E w \in Worker : wpc[w] \in {"spent", "exhaust"}) <=> At(SpentL) # {}
BY DEF Refusing, Holding, At, RefusedL, HoldingL, SpentL

LEMMA BudgetInit == Init => BudgetInv
<1>. SUFFICES ASSUME Init PROVE BudgetInv
  OBVIOUS
<1>1. Refusing = {} /\ Holding = {}
  BY DEF Init, Refusing, Holding
<1>2. Cardinality(Refusing) = 0 /\ Cardinality(Holding) = 0
  BY <1>1, FS_EmptySet
<1>3. Len(dispatchStream) = 0
  BY DEF Init, FabricInit
<1>. QED
  BY <1>1, <1>2, <1>3, PlanningAssumption DEF Init, BudgetInv, CounterIsExact

\* A step in which no worker enters or leaves the labels that count.
LEMMA BudgetQuiet ==
    ASSUME TypeOK, BudgetInv,
           \/ UNCHANGED wpc
           \/ \E w \in Worker, to \in WorkerLabel :
                 /\ {wpc[w], to} \cap (RefusedL \cup HoldingL \cup SpentL) = {}
                 /\ wpc' = [wpc EXCEPT ![w] = to],
           UNCHANGED <<budget, granted, stranded, exhausted, dispatchStream, ticket>>
    PROVE  BudgetInv'
<1>1. /\ Refusing' = Refusing
      /\ Holding' = Holding
      /\ \A w \in Worker : wpc'[w] \in {"spent", "exhaust"}
                           => wpc[w] \in {"spent", "exhaust"}
  BY DEF Refusing, Holding, RefusedL, HoldingL, SpentL, TypeOK, WorkerTypeOK
<1>. QED BY <1>1 DEF BudgetInv, CounterIsExact

\* No increment is refused, and the budget is not found spent, before all of
\* it is granted.
LEMMA FullMeansGranted ==
    ASSUME TypeOK, BudgetInv, budget >= MaxCapsules
    PROVE  granted = MaxCapsules
<1>1. IsFiniteSet(Refusing)
  BY FS_Subset, ForestAssumption DEF Refusing
<1>2. Cardinality(Refusing) \in Nat
  BY <1>1, FS_CardinalityType
<1>3. CASE Refusing = {} /\ stranded = 0
  <2>1. Cardinality(Refusing) = 0
    BY <1>3, FS_EmptySet
  <2>. QED
    BY <1>3, <2>1, PlanningAssumption
    DEF BudgetInv, CounterIsExact, TypeOK, WorkerTypeOK
<1>4. CASE Refusing # {} \/ stranded # 0
  BY <1>4 DEF BudgetInv, TypeOK, WorkerTypeOK
<1>. QED BY <1>3, <1>4

LEMMA PlanIsSpent ==
    ASSUME NEW d \in Nat, NEW g \in Nat, max_candidates(d, g) = 0
    PROVE  g >= MaxCapsules
BY PlanningAssumption
   DEF max_candidates, Lesser, Greater, Width, remaining_capsules

\* The steps of expand that move the budget.
LEMMA BudgetReserve ==
    ASSUME TypeOK, BudgetInv, NEW w \in Worker, ReserveBudget(w)
    PROVE  BudgetInv'
<1>. USE PlanningAssumption, ForestAssumption
<1>0. /\ wpc \in [Worker -> WorkerLabel]
      /\ wpc[w] = "loop"
      /\ budget \in Nat /\ granted \in Nat /\ stranded \in Nat
      /\ Len(dispatchStream) \in Nat
      /\ budget' = budget + 1
      /\ ticket \in [Worker -> Nat]
      /\ ticket' = [ticket EXCEPT ![w] = budget + 1]
      /\ UNCHANGED <<stranded, exhausted, dispatchStream>>
  BY DEF TypeOK, WorkerTypeOK, FabricTypeOK, ReserveBudget, Step, fabricVars
<1>1. CASE budget + 1 > MaxCapsules /\ Step(w, "loop", "refused") /\ UNCHANGED granted
  <2>1. wpc' = [wpc EXCEPT ![w] = "refused"]
    BY <1>1 DEF Step
  <2>2. granted = MaxCapsules
    BY <1>0, <1>1, FullMeansGranted
  <2>3. /\ Cardinality(Refusing') = Cardinality(Refusing) + 1
        /\ Cardinality(Refusing) \in Nat
    <3>1. Refusing = At(RefusedL) /\ Refusing' = At(RefusedL)'
      BY DEF Refusing, At, RefusedL
    <3>2. wpc[w] \notin RefusedL /\ "refused" \in RefusedL
      BY <1>0 DEF RefusedL
    <3>. QED BY <1>0, <2>1, <3>1, <3>2, OneMoves
  <2>4. Holding' = Holding /\ w \notin Holding
    BY <1>0, <2>1 DEF Holding
  <2>5. \A v \in Holding : ticket'[v] = ticket[v]
    BY <1>0, <2>4 DEF Holding
  <2>6. CounterIsExact'
    BY <1>0, <1>1, <2>3 DEF BudgetInv, CounterIsExact
  <2>. QED
    BY <1>0, <1>1, <2>2, <2>4, <2>5, <2>6 DEF BudgetInv
<1>2. CASE budget + 1 <= MaxCapsules /\ Step(w, "loop", "granted")
           /\ granted' = granted + 1
  <2>1. wpc' = [wpc EXCEPT ![w] = "granted"]
    BY <1>2 DEF Step
  <2>2. Refusing' = Refusing
    BY <1>0, <2>1 DEF Refusing
  <2>3. /\ Cardinality(Holding') = Cardinality(Holding) + 1
        /\ Cardinality(Holding) \in Nat
    BY <1>0, <2>1, OneMoves, BudgetByLabels DEF HoldingL, At, Holding
  <2>4. Cardinality(Refusing) \in Nat
    BY <1>0, <2>1, OneMoves, BudgetByLabels
  <2>5. granted < MaxCapsules
    BY <1>0, <1>2, <2>4 DEF BudgetInv, CounterIsExact
  <2>6. \A v \in Holding' : ticket'[v] \in Run
    BY <1>0, <1>2, <2>1 DEF BudgetInv, Holding
  <2>7. \A v \in Worker : wpc'[v] \in {"spent", "exhaust"}
                          => wpc[v] \in {"spent", "exhaust"}
    BY <1>0, <2>1
  <2>8. CounterIsExact'
    BY <1>0, <1>2, <2>2, <2>4 DEF BudgetInv, CounterIsExact
  <2>9. /\ granted' <= MaxCapsules
        /\ Len(dispatchStream') + Cardinality(Holding') <= granted'
    BY <1>0, <1>2, <2>3, <2>5 DEF BudgetInv
  <2>10. ~(\/ Refusing' # {} \/ stranded' > 0 \/ exhausted'
           \/ \E v \in Worker : wpc'[v] \in {"spent", "exhaust"})
    BY <1>0, <2>2, <2>5, <2>7 DEF BudgetInv
  <2>. QED BY <2>6, <2>8, <2>9, <2>10 DEF BudgetInv
<1>. QED BY <1>1, <1>2 DEF ReserveBudget

LEMMA BudgetExpand ==
    ASSUME TypeOK, BudgetInv, NEW w \in Worker, expand(w)
    PROVE  BudgetInv'
<1>. USE PlanningAssumption
<1>0. /\ wpc \in [Worker -> WorkerLabel]
      /\ budget \in Nat /\ granted \in Nat /\ stranded \in Nat
      /\ dispatchStream \in Seq(Request)
      /\ Len(dispatchStream) \in Nat
      /\ at[w] \in Node
  BY DEF TypeOK, WorkerTypeOK, FabricTypeOK
<1>1. CASE \/ CheckNode(w) \/ SealSpent(w) \/ PruneCandidate(w) \/ EndLoop(w)
           \/ FinishExpansion(w)
  <2>1. UNCHANGED <<budget, granted, stranded, exhausted, dispatchStream, ticket>>
    BY <1>1 DEF CheckNode, SealSpent, PruneCandidate, EndLoop, FinishExpansion,
       redisVars, recordVars, loopVars, fabricVars
  <2>2. PICK to \in {"release", "plan", "loop", "finish"} :
           wpc' = [wpc EXCEPT ![w] = to]
    BY <1>1 DEF CheckNode, SealSpent, PruneCandidate, EndLoop, FinishExpansion, Step
  <2>3. wpc[w] \in {"check", "seal", "loop", "finish"}
    BY <1>1 DEF CheckNode, SealSpent, PruneCandidate, EndLoop, FinishExpansion, Step
  <2>4. /\ to \in WorkerLabel
        /\ {wpc[w], to} \cap (RefusedL \cup HoldingL \cup SpentL) = {}
    BY <2>2, <2>3 DEF RefusedL, HoldingL, SpentL, WorkerLabel
  <2>. QED BY <2>1, <2>2, <2>4, BudgetQuiet
<1>2. CASE PlanExpansion(w)
  <2>. DEFINE k == max_candidates(Depth[at[w]], budget)
  <2>0. UNCHANGED <<budget, granted, stranded, exhausted, dispatchStream, ticket>>
    BY <1>2 DEF PlanExpansion, redisVars, recordVars, fabricVars
  <2>1. CASE k = 0 /\ Step(w, "plan", "spent")
    <3>1. Depth[at[w]] \in Nat
      BY <1>0, ForestAssumption
    <3>2. granted = MaxCapsules
      BY <1>0, <2>1, <3>1, PlanIsSpent, FullMeansGranted
    <3>3. Refusing' = Refusing /\ Holding' = Holding
      BY <1>0, <2>1 DEF Step, Refusing, Holding
    <3>. QED BY <2>0, <3>2, <3>3 DEF BudgetInv, CounterIsExact
  <2>2. CASE Step(w, "plan", "loop")
    <3>1. /\ "loop" \in WorkerLabel
          /\ {wpc[w], "loop"} \cap (RefusedL \cup HoldingL \cup SpentL) = {}
      BY <2>2 DEF Step, RefusedL, HoldingL, SpentL, WorkerLabel
    <3>. QED BY <2>0, <2>2, <3>1, BudgetQuiet DEF Step
  <2>. QED BY <1>2, <2>1, <2>2 DEF PlanExpansion
<1>3. CASE SetExhausted(w)
  <2>1. /\ UNCHANGED <<budget, granted, stranded, dispatchStream, ticket>>
        /\ wpc[w] \in {"spent", "exhaust"}
    BY <1>3 DEF SetExhausted, Step, recordVars, loopVars, fabricVars
  <2>2. granted = MaxCapsules
    BY <2>1 DEF BudgetInv
  <2>3. Refusing' = Refusing /\ Holding' = Holding
    BY <1>0, <1>3 DEF SetExhausted, Step, Refusing, Holding
  <2>. QED BY <2>1, <2>2, <2>3 DEF BudgetInv, CounterIsExact
<1>4. CASE ReserveBudget(w)
  BY <1>4, BudgetReserve
<1>5. CASE UndoReservation(w)
  <2>1. /\ UNCHANGED <<granted, stranded, exhausted, dispatchStream, ticket>>
        /\ wpc[w] = "refused"
        /\ wpc' = [wpc EXCEPT ![w] = "exhaust"]
        /\ budget' = budget - 1
    BY <1>5 DEF UndoReservation, Step, recordVars, loopVars, fabricVars
  <2>2. /\ Cardinality(Refusing') = Cardinality(Refusing) - 1
        /\ Cardinality(Refusing) \in Nat
    <3>1. Refusing = At(RefusedL) /\ Refusing' = At(RefusedL)'
      BY DEF Refusing, At, RefusedL
    <3>2. wpc[w] \in RefusedL /\ "exhaust" \notin RefusedL
      BY <2>1 DEF RefusedL
    <3>. QED BY <1>0, <2>1, <3>1, <3>2, OneMoves
  <2>3. Holding' = Holding
    BY <1>0, <2>1 DEF Holding
  <2>4. granted = MaxCapsules
    BY <2>1 DEF BudgetInv, Refusing
  <2>. QED BY <1>0, <2>1, <2>2, <2>3, <2>4 DEF BudgetInv, CounterIsExact
<1>6. CASE ShowGenerated(w) \/ CreateChild(w)
  <2>1. UNCHANGED <<budget, granted, stranded, exhausted, dispatchStream, ticket>>
    BY <1>6 DEF ShowGenerated, CreateChild, recordVars, loopVars, fabricVars
  <2>2. /\ Refusing' = Refusing
        /\ Holding' = Holding
        /\ \A v \in Worker : wpc'[v] \in {"spent", "exhaust"}
                             => wpc[v] \in {"spent", "exhaust"}
    BY <1>0, <1>6 DEF ShowGenerated, CreateChild, Step, Refusing, Holding
  <2>. QED BY <2>1, <2>2 DEF BudgetInv, CounterIsExact
<1>7. CASE QueueExecution(w)
  <2>1. /\ UNCHANGED <<budget, granted, stranded, exhausted, ticket>>
        /\ wpc[w] = "queue"
        /\ wpc' = [wpc EXCEPT ![w] = "loop"]
        /\ Len(dispatchStream') = Len(dispatchStream) + 1
    BY <1>0, <1>7 DEF QueueExecution, Step, recordVars, redisVars, loopVars
  <2>2. /\ Cardinality(Holding') = Cardinality(Holding) - 1
        /\ Cardinality(Holding) \in Nat
    BY <1>0, <2>1, OneMoves, BudgetByLabels DEF HoldingL, At, Holding
  <2>3. /\ Refusing' = Refusing
        /\ Holding' \subseteq Holding
        /\ \A v \in Worker : wpc'[v] \in {"spent", "exhaust"}
                             => wpc[v] \in {"spent", "exhaust"}
    BY <1>0, <2>1 DEF Refusing, Holding
  <2>. QED BY <1>0, <2>1, <2>2, <2>3 DEF BudgetInv, CounterIsExact
<1>. QED
  BY <1>1, <1>2, <1>3, <1>4, <1>5, <1>6, <1>7 DEF expand

\* A worker that dies or raises leaves a refused increment behind, or gives up a
\* reservation it had not used.
LEMMA BudgetDeath ==
    ASSUME TypeOK, BudgetInv, NEW w \in Worker, WorkerDies(w) \/ ExpandRaises(w)
    PROVE  BudgetInv'
<1>0. /\ wpc \in [Worker -> WorkerLabel]
      /\ budget \in Nat /\ granted \in Nat /\ stranded \in Nat
      /\ Len(dispatchStream) \in Nat
      /\ UNCHANGED <<budget, granted, exhausted, dispatchStream, ticket>>
      /\ stranded' = IF wpc[w] = "refused" THEN stranded + 1 ELSE stranded
  BY DEF TypeOK, WorkerTypeOK, FabricTypeOK, WorkerDies, ExpandRaises, Abandon,
     fabricVars, loopVars, redisVars
<1>. PICK to \in {"idle", "release"} : wpc' = [wpc EXCEPT ![w] = to]
  BY DEF WorkerDies, ExpandRaises, Abandon
<1>1. /\ Holding' \subseteq Holding
      /\ Refusing' \subseteq Refusing
      /\ \A v \in Worker : wpc'[v] \in {"spent", "exhaust"}
                           => wpc[v] \in {"spent", "exhaust"}
  BY <1>0 DEF Holding, Refusing
<1>2. /\ Cardinality(Holding') <= Cardinality(Holding)
      /\ Cardinality(Holding) \in Nat
      /\ Cardinality(Holding') \in Nat
  <2>1. IsFiniteSet(Holding)
    BY FS_Subset, ForestAssumption DEF Holding
  <2>. QED BY <1>1, <2>1, FS_Subset, FS_CardinalityType
<1>3. Refusing = At(RefusedL) /\ Refusing' = At(RefusedL)' /\ to \notin RefusedL
  BY DEF Refusing, At, RefusedL
<1>4. CASE wpc[w] = "refused"
  <2>1. wpc[w] \in RefusedL
    BY <1>4 DEF RefusedL
  <2>2. /\ Cardinality(Refusing') = Cardinality(Refusing) - 1
        /\ Cardinality(Refusing) \in Nat
    BY <1>0, <1>3, <2>1, OneMoves
  <2>3. granted = MaxCapsules
    BY <1>4 DEF BudgetInv, Refusing
  <2>. QED BY <1>0, <1>1, <1>2, <1>4, <2>2, <2>3 DEF BudgetInv, CounterIsExact
<1>5. CASE wpc[w] # "refused"
  <2>1. Refusing' = Refusing
    BY <1>0, <1>5 DEF Refusing
  <2>. QED BY <1>0, <1>1, <1>2, <1>5, <2>1 DEF BudgetInv, CounterIsExact
<1>. QED BY <1>4, <1>5

\* Every other step leaves the budget alone.
LEMMA BudgetOther ==
    ASSUME TypeOK, BudgetInv,
           \/ \E w \in Worker :
                 \/ StartSelection(w) \/ distributed_select(w) \/ TakeLock(w)
                 \/ CheckLock(w) \/ DeleteLock(w) \/ LedgerAction(w)
           \/ \E i \in DOMAIN dispatchStream, passed \in BOOLEAN :
                 ResultArrives(i, passed)
           \/ \E n \in Node : LockExpires(n)
           \/ UNCHANGED vars
    PROVE  BudgetInv'
<1>1. ASSUME NEW w \in Worker,
             \/ StartSelection(w) \/ distributed_select(w) \/ TakeLock(w)
             \/ CheckLock(w) \/ DeleteLock(w)
      PROVE  BudgetInv'
  <2>1. UNCHANGED <<budget, granted, stranded, exhausted, dispatchStream, ticket>>
    BY <1>1 DEF StartSelection, distributed_select, TakeLock, CheckLock,
       DeleteLock, redisVars, recordVars, fabricVars
  <2>2. PICK to \in {"idle", "select", "lock", "check", "unlock"} :
           wpc' = [wpc EXCEPT ![w] = to]
    BY <1>1 DEF StartSelection, distributed_select, SelectLeaf, SelectUnvisited,
       Descend, TakeLock, CheckLock, DeleteLock, Step
  <2>3. wpc[w] \in {"idle", "select", "lock", "release", "unlock"}
    BY <1>1 DEF StartSelection, distributed_select, SelectLeaf, SelectUnvisited,
       Descend, TakeLock, CheckLock, DeleteLock, Step
  <2>4. /\ to \in WorkerLabel
        /\ {wpc[w], to} \cap (RefusedL \cup HoldingL \cup SpentL) = {}
    BY <2>2, <2>3 DEF RefusedL, HoldingL, SpentL, WorkerLabel
  <2>. QED BY <2>1, <2>2, <2>4, BudgetQuiet
<1>2. ASSUME NEW w \in Worker, LedgerAction(w) PROVE BudgetInv'
  BY <1>2, BudgetQuiet
  DEF LedgerAction, fabricVars, redisVars, localVars, recordVars
<1>3. ASSUME NEW i \in DOMAIN dispatchStream, NEW passed \in BOOLEAN,
             ResultArrives(i, passed)
      PROVE  BudgetInv'
  <2>1. /\ UNCHANGED wpc
        /\ UNCHANGED <<budget, granted, stranded, exhausted, dispatchStream, ticket>>
    BY <1>3 DEF ResultArrives, redisVars, localVars
  <2>. QED BY <2>1, BudgetQuiet
<1>4. ASSUME NEW n \in Node, LockExpires(n) PROVE BudgetInv'
  BY <1>4, BudgetQuiet DEF LockExpires, fabricVars, localVars
<1>5. ASSUME UNCHANGED vars PROVE BudgetInv'
  BY <1>5, BudgetQuiet
  DEF vars, fabricVars, redisVars, localVars, recordVars
<1>. QED BY <1>1, <1>2, <1>3, <1>4, <1>5

-----------------------------------------------------------------------------
(* The inductive invariant                                                 *)

Inv == TypeOK /\ BudgetInv

LEMMA InvNext == Inv /\ [Next]_vars => Inv'
<1>. SUFFICES ASSUME TypeOK, BudgetInv, [Next]_vars PROVE TypeOK' /\ BudgetInv'
  BY DEF Inv
<1>1. ASSUME NEW w \in Worker, run(w) PROVE TypeOK' /\ BudgetInv'
  BY <1>1, WalkType, ExpandType, BudgetOther, BudgetExpand DEF run
<1>2. ASSUME NEW w \in Worker, LedgerAction(w) PROVE TypeOK' /\ BudgetInv'
  BY <1>2, OtherType, BudgetOther
<1>3. ASSUME NEW w \in Worker, WorkerDies(w) \/ ExpandRaises(w)
      PROVE  TypeOK' /\ BudgetInv'
  BY <1>3, OtherType, BudgetDeath
<1>4. ASSUME NEW i \in DOMAIN dispatchStream, NEW passed \in BOOLEAN,
             ResultArrives(i, passed)
      PROVE  TypeOK' /\ BudgetInv'
  BY <1>4, OtherType, BudgetOther
<1>5. ASSUME NEW n \in Node, LockExpires(n) PROVE TypeOK' /\ BudgetInv'
  BY <1>5, OtherType, BudgetOther
<1>6. ASSUME UNCHANGED vars PROVE TypeOK' /\ BudgetInv'
  <2>1. LedgerTypeOK'
    BY <1>6, LedgerUnchangedType DEF vars, TypeOK
  <2>2. FabricTypeOK' /\ WorkerTypeOK'
    BY <1>6 DEF vars, TypeOK, FabricTypeOK, fabricVars, WorkerTypeOK, redisVars,
       localVars, recordVars
  <2>. QED BY <1>6, <2>1, <2>2, BudgetOther DEF TypeOK
<1>. QED BY <1>1, <1>2, <1>3, <1>4, <1>5, <1>6 DEF Next

\* Type correctness, together with the inductive invariant of the budget that
\* it needs: the id of a queued run is a ticket within the budget, and the
\* DECR of _reserve_candidate_budget never takes the counter below zero.
THEOREM TypeCorrect == Spec => [](TypeOK /\ BudgetInv)
<1>1. Init => Inv
  BY InitType, BudgetInit DEF Inv
<1>2. Inv => TypeOK /\ BudgetInv
  BY DEF Inv
<1>. QED BY <1>1, <1>2, InvNext, PTL DEF Spec

\* expand never queues more executions for a task than max_capsules, whatever
\* the workers, the deaths and the expired locks.
THEOREM BudgetEnforced == Spec => []BudgetIsEnforced
<1>1. TypeOK /\ BudgetInv => BudgetIsEnforced
  <2>. SUFFICES ASSUME TypeOK, BudgetInv PROVE BudgetIsEnforced
    OBVIOUS
  <2>1. Cardinality(Holding) \in Nat
    <3>1. IsFiniteSet(Holding)
      BY FS_Subset, ForestAssumption DEF Holding
    <3>. QED BY <3>1, FS_CardinalityType
  <2>2. Len(dispatchStream) \in Nat
    BY DEF TypeOK, FabricTypeOK
  <2>. QED
    BY <2>1, <2>2, PlanningAssumption
    DEF BudgetInv, BudgetIsEnforced, TypeOK, WorkerTypeOK
<1>. QED BY <1>1, TypeCorrect, PTL

\* The INCR and DECR of _reserve_candidate_budget keep the counter exact.
THEOREM CounterExact == Spec => []CounterIsExact
<1>1. TypeOK /\ BudgetInv => CounterIsExact
  BY DEF BudgetInv
<1>. QED BY <1>1, TypeCorrect, PTL

\* budget_exhausted is set only once all of max_capsules was granted.
THEOREM ExhaustedIsSpent == Spec => []ExhaustedMeansSpent
<1>1. TypeOK /\ BudgetInv => ExhaustedMeansSpent
  BY DEF BudgetInv, ExhaustedMeansSpent
<1>. QED BY <1>1, TypeCorrect, PTL

-----------------------------------------------------------------------------
(* The lock                                                                *)

\* Nobody loses a lock.
LEMMA NobodyLoses ==
    ASSUME TypeOK, LockExcludes, Unprotected' \subseteq Unprotected, UNCHANGED expiries
    PROVE  LockExcludes'
<1>1. IsFiniteSet(Unprotected)
  BY ForestAssumption, FS_Subset DEF Unprotected
<1>2. Cardinality(Unprotected') <= Cardinality(Unprotected)
  BY <1>1, FS_Subset
<1>3. Cardinality(Unprotected) \in Nat /\ Cardinality(Unprotected') \in Nat
  BY <1>1, FS_Subset, FS_CardinalityType
<1>. QED BY <1>2, <1>3 DEF LockExcludes, TypeOK, WorkerTypeOK

\* One worker loses its lock, because another one stopped expanding without
\* having it, or because the lock expired.
LEMMA OneLoses ==
    ASSUME TypeOK, LockExcludes, NEW v,
           \/ /\ UNCHANGED expiries
              /\ \E w \in Unprotected : Unprotected' \subseteq (Unprotected \ {w}) \cup {v}
           \/ expiries' = expiries + 1 /\ Unprotected' \subseteq Unprotected \cup {v}
    PROVE  LockExcludes'
<1>1. IsFiniteSet(Unprotected)
  BY ForestAssumption, FS_Subset DEF Unprotected
<1>2. Cardinality(Unprotected) \in Nat /\ expiries \in Nat
      /\ Cardinality(Unprotected) <= expiries
  BY <1>1, FS_CardinalityType DEF LockExcludes, TypeOK, WorkerTypeOK
<1>3. ASSUME NEW S, IsFiniteSet(S), Unprotected' \subseteq S \cup {v}
      PROVE  /\ Cardinality(S) \in Nat /\ Cardinality(Unprotected') \in Nat
             /\ Cardinality(Unprotected') <= Cardinality(S) + 1
  <2>1. /\ IsFiniteSet(S \cup {v}) /\ Cardinality(S) \in Nat
        /\ Cardinality(S \cup {v}) \in {Cardinality(S), Cardinality(S) + 1}
    BY <1>3, FS_AddElement, FS_CardinalityType
  <2>2. IsFiniteSet(Unprotected') /\ Cardinality(Unprotected') <= Cardinality(S \cup {v})
    BY <1>3, <2>1, FS_Subset
  <2>. QED BY <2>1, <2>2, FS_CardinalityType
<1>4. ASSUME NEW w \in Unprotected, UNCHANGED expiries,
             Unprotected' \subseteq (Unprotected \ {w}) \cup {v}
      PROVE  LockExcludes'
  <2>1. IsFiniteSet(Unprotected \ {w})
        /\ Cardinality(Unprotected \ {w}) = Cardinality(Unprotected) - 1
    BY <1>1, FS_RemoveElement
  <2>2. Cardinality(Unprotected') \in Nat
        /\ Cardinality(Unprotected') <= Cardinality(Unprotected \ {w}) + 1
    BY <1>3, <1>4, <2>1
  <2>. QED BY <1>2, <1>4, <2>1, <2>2 DEF LockExcludes
<1>5. ASSUME expiries' = expiries + 1, Unprotected' \subseteq Unprotected \cup {v}
      PROVE  LockExcludes'
  BY <1>1, <1>2, <1>3, <1>5 DEF LockExcludes
<1>. QED BY <1>4, <1>5

LEMMA NoneUnprotected ==
    ASSUME TypeOK, LockExcludes, expiries = 0
    PROVE  \A w \in Worker : Expanding(w) => lock[at[w]] = w
<1>1. IsFiniteSet(Unprotected)
  BY ForestAssumption, FS_Subset DEF Unprotected
<1>2. Cardinality(Unprotected) = 0
  BY <1>1, FS_CardinalityType DEF LockExcludes
<1>3. Unprotected = {}
  BY <1>1, <1>2, FS_EmptySet
<1>. QED BY <1>3 DEF Unprotected

\* A worker moves, and no lock but the one it takes or gives back changes.
LEMMA LockMove ==
    ASSUME TypeOK, LockExcludes, NEW w \in Worker, run(w)
    PROVE  LockExcludes'
<1>0. /\ wpc \in [Worker -> WorkerLabel]
      /\ at \in [Worker -> Node]
      /\ lock \in [Node -> Worker \cup {NoWorker}]
      /\ NoWorker \notin Worker
  BY ForestAssumption DEF TypeOK, WorkerTypeOK
<1>1. expiries' = expiries
  BY DEF run, StartSelection, distributed_select, TakeLock, expand, CheckLock,
     DeleteLock, CheckNode, PlanExpansion, SetExhausted, SealSpent,
     PruneCandidate, ReserveBudget, UndoReservation, ShowGenerated, CreateChild,
     QueueExecution, EndLoop, FinishExpansion, recordVars
<1>3. CASE StartSelection(w) \/ distributed_select(w)
  <2>1. UNCHANGED lock /\ ~Expanding(w)'
    BY <1>0, <1>3 DEF StartSelection, distributed_select, SelectLeaf,
       SelectUnvisited, Descend, Step, redisVars, Expanding
  <2>2. \A u \in Worker \ {w} : at'[u] = at[u] /\ wpc'[u] = wpc[u]
    BY <1>0, <1>3 DEF StartSelection, distributed_select, SelectLeaf,
       SelectUnvisited, Descend, Step
  <2>3. Unprotected' \subseteq Unprotected
    BY <1>0, <2>1, <2>2 DEF Expanding, Unprotected
  <2>. QED BY <1>1, <2>3, NobodyLoses
<1>4. CASE TakeLock(w)
  <2>1. UNCHANGED at /\ \A u \in Worker \ {w} : wpc'[u] = wpc[u]
    BY <1>0, <1>4 DEF TakeLock, Step
  <2>2. ASSUME lock[at[w]] = NoWorker, lock' = [lock EXCEPT ![at[w]] = w]
        PROVE  Unprotected' \subseteq Unprotected
    <3>1. lock'[at[w]] = w /\ \A n \in Node : lock'[n] = lock[n] \/ lock[n] = NoWorker
      BY <1>0, <2>2
    <3>. QED BY <1>0, <2>1, <3>1 DEF Expanding, Unprotected
  <2>3. ASSUME Step(w, "lock", "idle"), UNCHANGED lock
        PROVE  Unprotected' \subseteq Unprotected
    BY <1>0, <2>1, <2>3 DEF Expanding, Step, Unprotected
  <2>4. Unprotected' \subseteq Unprotected
    BY <1>4, <2>2, <2>3 DEF TakeLock
  <2>. QED BY <1>1, <2>4, NobodyLoses
<1>5. CASE CheckLock(w)
  <2>1. Unprotected' \subseteq Unprotected
    BY <1>0, <1>5 DEF CheckLock, Step, redisVars, Expanding, Unprotected
  <2>. QED BY <1>1, <2>1, NobodyLoses
<1>6. CASE DeleteLock(w)
  <2>1. /\ UNCHANGED at
        /\ wpc[w] = "unlock"
        /\ wpc' = [wpc EXCEPT ![w] = "idle"]
        /\ lock' = [lock EXCEPT ![at[w]] = NoWorker]
    BY <1>6 DEF DeleteLock, Step
  <2>2. PICK v : v = lock[at[w]]
    OBVIOUS
  <2>3. \A u \in Worker : Expanding(u)' => u # w /\ Expanding(u)
    BY <1>0, <2>1 DEF Expanding
  <2>4. Unprotected' \subseteq (Unprotected \ {w}) \cup {v}
    BY <1>0, <2>1, <2>2, <2>3 DEF Unprotected
  <2>5. CASE v = w
    <3>1. Unprotected' \subseteq Unprotected
      BY <2>3, <2>4, <2>5 DEF Unprotected
    <3>. QED BY <1>1, <3>1, NobodyLoses
  <2>6. CASE v # w
    <3>1. w \in Unprotected
      BY <2>1, <2>2, <2>6 DEF Unprotected, Expanding
    <3>. QED BY <1>1, <2>4, <3>1, OneLoses
  <2>. QED BY <2>5, <2>6
<1>7. CASE expand(w)
  <2>1. UNCHANGED <<lock, at>>
    BY <1>7 DEF expand, CheckNode, PlanExpansion, SetExhausted, SealSpent,
       PruneCandidate, ReserveBudget, UndoReservation, ShowGenerated,
       CreateChild, QueueExecution, EndLoop, FinishExpansion, redisVars
  <2>2. /\ Expanding(w)
        /\ \A u \in Worker \ {w} : wpc'[u] = wpc[u]
    BY <1>0, <1>7 DEF expand, CheckNode, PlanExpansion, SetExhausted, SealSpent,
       PruneCandidate, ReserveBudget, UndoReservation, ShowGenerated,
       CreateChild, QueueExecution, EndLoop, FinishExpansion, Step, Expanding
  <2>3. Unprotected' \subseteq Unprotected
    BY <2>1, <2>2 DEF Expanding, Unprotected
  <2>. QED BY <1>1, <2>3, NobodyLoses
<1>. QED BY <1>3, <1>4, <1>5, <1>6, <1>7 DEF run

\* The lock of run: at most as many workers expand a node without its lock as
\* locks have expired, even though the release is a GET and then a DEL.
THEOREM LockExclusion == Spec => []LockExcludes
<1>1. Init => LockExcludes
  <2>. SUFFICES ASSUME Init PROVE LockExcludes
    OBVIOUS
  <2>1. Unprotected = {}
    BY DEF Init, Unprotected, Expanding
  <2>. QED BY <2>1, FS_EmptySet DEF Init, LockExcludes
<1>2. TypeOK /\ LockExcludes /\ [Next]_vars => LockExcludes'
  <2>. SUFFICES ASSUME TypeOK, LockExcludes, [Next]_vars PROVE LockExcludes'
    OBVIOUS
  <2>1. ASSUME NEW w \in Worker, run(w) PROVE LockExcludes'
    BY <2>1, LockMove
  <2>2. ASSUME UNCHANGED <<lock, wpc, at, expiries>> PROVE LockExcludes'
    <3>1. Unprotected' = Unprotected
      BY <2>2 DEF Unprotected, Expanding
    <3>. QED BY <2>2, <3>1 DEF LockExcludes
  <2>3. ASSUME NEW w \in Worker, WorkerDies(w) \/ ExpandRaises(w)
        PROVE  LockExcludes'
    <3>1. UNCHANGED <<lock, at, expiries>>
      BY <2>3 DEF WorkerDies, ExpandRaises, Abandon, redisVars
    <3>2. \A u \in Worker : Expanding(u)' => Expanding(u)
      BY <2>3 DEF WorkerDies, ExpandRaises, Abandon, ExpandLabel, Expanding, TypeOK,
         WorkerTypeOK
    <3>3. Unprotected' \subseteq Unprotected
      BY <3>1, <3>2 DEF Unprotected
    <3>. QED BY <3>1, <3>3, NobodyLoses
  <2>4. ASSUME NEW n \in Node, LockExpires(n) PROVE LockExcludes'
    <3>1. /\ lock \in [Node -> Worker \cup {NoWorker}] /\ at \in [Worker -> Node]
          /\ lock' = [lock EXCEPT ![n] = NoWorker] /\ UNCHANGED <<wpc, at>>
          /\ expiries' = expiries + 1
      BY <2>4 DEF LockExpires, TypeOK, WorkerTypeOK, localVars
    <3>2. Unprotected' \subseteq Unprotected \cup {lock[n]}
      BY <3>1 DEF Unprotected, Expanding
    <3>. QED BY <3>1, <3>2, OneLoses
  <2>5. ASSUME NEW w \in Worker, LedgerAction(w)
        PROVE  UNCHANGED <<lock, wpc, at, expiries>>
    BY <2>5 DEF LedgerAction, redisVars, localVars, recordVars
  <2>6. ASSUME NEW i \in DOMAIN dispatchStream, NEW passed \in BOOLEAN,
               ResultArrives(i, passed)
        PROVE  UNCHANGED <<lock, wpc, at, expiries>>
    BY <2>6 DEF ResultArrives, redisVars, localVars
  <2>7. ASSUME UNCHANGED vars PROVE UNCHANGED <<lock, wpc, at, expiries>>
    BY <2>7 DEF vars, redisVars, localVars, recordVars
  <2>. QED BY <2>1, <2>2, <2>3, <2>4, <2>5, <2>6, <2>7 DEF Next
<1>3. TypeOK /\ BudgetInv => TypeOK
  OBVIOUS
<1>. QED BY <1>1, <1>2, <1>3, TypeCorrect, PTL DEF Spec

-----------------------------------------------------------------------------
(* Repeated candidates                                                     *)

\* What the patcher can find at a node, and whether any of it was created.
Found(n) == {Patches[n][i] : i \in DOMAIN Patches[n]}
Begun(n) == \E c \in Found(n) : node[c].exists

\* Where a worker is in the candidate loop of expand.
LoopLabel == {"loop", "refused", "exhaust", "granted", "child", "queue", "finish"}

Queued(c) == \E i \in DOMAIN dispatchStream : dispatchStream[i].cand = c

\* Where no lock expired and no expansion raised, a worker in the loop has
\* before it only candidates of its node that do not exist yet...
LoopInv(w) ==
    /\ wpc[w] \in {"plan"} \cup LoopLabel => node[at[w]].exists
    /\ wpc[w] = "plan" => ~Begun(at[w])
    /\ wpc[w] \in LoopLabel => /\ todo[w] \subseteq Found(at[w])
                               /\ \A c \in todo[w] : ~node[c].exists
    /\ wpc[w] \in {"granted", "child", "queue"} => /\ current[w] \in Found(at[w])
                                                   /\ current[w] \notin todo[w]
    /\ wpc[w] \in {"granted", "child"} => ~node[current[w]].exists
    /\ wpc[w] = "queue" => node[current[w]].exists /\ ~Queued(current[w])

\* ...and a node with children is settled, or locked by a worker that is in
\* the loop or died there.
NodeInv(n) ==
    Begun(n) =>
        /\ node[n].exists
        /\ \/ node[n].expanded
           \/ node[n].terminal
           \/ /\ lock[n] # NoWorker
              /\ \A w \in Worker : Expanding(w) /\ at[w] = n => wpc[w] \in LoopLabel

StreamInv ==
    /\ \A i \in DOMAIN dispatchStream : node[dispatchStream[i].cand].exists
    /\ \A i, k \in DOMAIN dispatchStream :
          dispatchStream[i].cand = dispatchStream[k].cand => i = k

OnceInv ==
    expiries = 0 /\ raises = 0 =>
        /\ \A w \in Worker : LoopInv(w)
        /\ \A n \in Node : NodeInv(n)
        /\ StreamInv

LEMMA FoundFacts ==
    /\ \A n \in Node : Found(n) \subseteq Cand /\ Found(n) \subseteq Node
    /\ \A m, n \in Node : \A c : c \in Found(m) /\ c \in Found(n) => m = n
<1>1. \A n \in Node : Found(n) \subseteq Cand
  BY ForestAssumption DEF Found
<1>2. \A m, n \in Node : \A c : c \in Found(m) /\ c \in Found(n) => m = n
  BY ParentIsFixed DEF Found
<1>. QED BY <1>1, <1>2, NodeFacts

\* A step that creates no node and undoes no flag.
Grows == \A m \in Node : /\ node'[m].exists = node[m].exists
                         /\ node[m].expanded => node'[m].expanded
                         /\ node[m].terminal => node'[m].terminal

Alike(v) == /\ wpc'[v] = wpc[v] /\ at'[v] = at[v]
            /\ todo'[v] = todo[v] /\ current'[v] = current[v]

LEMMA HashEffects ==
    ASSUME node \in [Node -> NodeHash], NEW n \in Node, NEW b \in BOOLEAN
    PROVE  /\ node' = [node EXCEPT ![n].terminal = TRUE, ![n].expanded = TRUE]
                 => Grows /\ node'[n].expanded
           /\ node' = [node EXCEPT ![n].expanded = TRUE, ![n].terminal = @ \/ b]
                 => Grows /\ node'[n].expanded
           /\ UNCHANGED node => Grows
<1>1. ASSUME node' = [node EXCEPT ![n].terminal = TRUE, ![n].expanded = TRUE]
      PROVE  Grows /\ node'[n].expanded
  BY <1>1 DEF NodeHash, Grows
<1>2. ASSUME node' = [node EXCEPT ![n].expanded = TRUE, ![n].terminal = @ \/ b]
      PROVE  Grows /\ node'[n].expanded
  BY <1>2 DEF NodeHash, Grows
<1>3. UNCHANGED node => Grows
  BY DEF Grows
<1>. QED BY <1>1, <1>2, <1>3

\* What a step that creates and queues nothing leaves as it was.
LEMMA Bystanders ==
    ASSUME TypeOK, Grows, UNCHANGED dispatchStream
    PROVE  /\ \A n \in Node : Begun(n)' <=> Begun(n)
           /\ \A c : Queued(c)' <=> Queued(c)
           /\ StreamInv => StreamInv'
           /\ \A v \in Worker : LoopInv(v) /\ Alike(v) => LoopInv(v)'
<1>1. \A n \in Node : Begun(n)' <=> Begun(n)
  BY FoundFacts DEF Begun, Grows
<1>2. \A c : Queued(c)' <=> Queued(c)
  BY DEF Queued
<1>3. \A i \in DOMAIN dispatchStream : dispatchStream[i].cand \in Node
  <2>1. \A r \in Request : r.cand \in Node
    BY NodeFacts DEF Request
  <2>. QED BY <2>1 DEF TypeOK, FabricTypeOK
<1>4. StreamInv => StreamInv'
  BY <1>3 DEF StreamInv, Grows
<1>5. ASSUME NEW v \in Worker, LoopInv(v), Alike(v)
      PROVE  LoopInv(v)'
  <2>1. at[v] \in Node /\ todo[v] \subseteq Node /\ current[v] \in Node
    BY NodeFacts DEF TypeOK, WorkerTypeOK
  <2>. QED BY <1>1, <1>2, <1>5, <2>1 DEF LoopInv, Alike, Grows
<1>. QED BY <1>1, <1>2, <1>4, <1>5

\* A worker that leaves the loop leaves a settled node behind.
LEMMA NodesKept ==
    ASSUME TypeOK, Grows, UNCHANGED <<dispatchStream, lock>>, NEW w \in Worker,
           \A v \in Worker \ {w} : Alike(v),
           Expanding(w)' => /\ Expanding(w) /\ at'[w] = at[w]
                            /\ \/ wpc[w] \in LoopLabel => wpc'[w] \in LoopLabel
                               \/ node'[at[w]].expanded,
           NEW n \in Node, NodeInv(n)
    PROVE  NodeInv(n)'
<1>. SUFFICES ASSUME Begun(n)' PROVE NodeInv(n)'
  BY DEF NodeInv
<1>1. /\ node[n].exists
      /\ \/ node[n].expanded
         \/ node[n].terminal
         \/ /\ lock[n] # NoWorker
            /\ \A v \in Worker : Expanding(v) /\ at[v] = n => wpc[v] \in LoopLabel
  BY Bystanders DEF NodeInv
<1>2. node'[n].exists
  BY <1>1 DEF Grows
<1>3. CASE node'[n].expanded \/ node'[n].terminal
  BY <1>2, <1>3 DEF NodeInv
<1>4. CASE ~(node'[n].expanded \/ node'[n].terminal)
  <2>1. /\ lock'[n] # NoWorker
        /\ \A v \in Worker : Expanding(v) /\ at[v] = n => wpc[v] \in LoopLabel
    BY <1>1, <1>4 DEF Grows
  <2>2. ASSUME NEW v \in Worker, Expanding(v)', at'[v] = n
        PROVE  wpc'[v] \in LoopLabel
    <3>1. CASE v = w
      BY <1>4, <2>1, <2>2, <3>1
    <3>2. CASE v # w
      BY <2>1, <2>2, <3>2 DEF Alike, Expanding
    <3>. QED BY <3>1, <3>2
  <2>. QED BY <1>2, <2>1, <2>2 DEF NodeInv
<1>. QED BY <1>3, <1>4

\* The facts that hold as long as no lock expired and nothing was raised.
Orderly == /\ TypeOK
           /\ \A u \in Worker : Expanding(u) => lock[at[u]] = u
           /\ \A u \in Worker : LoopInv(u)
           /\ \A n \in Node : NodeInv(n)
           /\ StreamInv

\* Steps of run outside expand, and deaths.
LEMMA OnceWalk ==
    ASSUME Orderly, NEW w \in Worker,
           \/ StartSelection(w) \/ distributed_select(w) \/ TakeLock(w)
           \/ CheckLock(w) \/ DeleteLock(w) \/ WorkerDies(w)
    PROVE  /\ \A u \in Worker : LoopInv(u)'
           /\ \A n \in Node : NodeInv(n)'
           /\ StreamInv'
<1>0. /\ TypeOK /\ wpc \in [Worker -> WorkerLabel] /\ at \in [Worker -> Node]
      /\ lock \in [Node -> Worker \cup {NoWorker}] /\ NoWorker \notin Worker
  BY ForestAssumption DEF Orderly, TypeOK, WorkerTypeOK
<1>1. /\ UNCHANGED <<node, dispatchStream, todo, current>>
      /\ wpc' = [wpc EXCEPT ![w] = wpc'[w]]
      /\ wpc'[w] \in {"idle", "select", "lock", "check", "unlock"}
      /\ \A u \in Worker \ {w} : at'[u] = at[u]
  BY <1>0 DEF StartSelection, distributed_select, SelectLeaf, SelectUnvisited, Descend,
     TakeLock, CheckLock, DeleteLock, WorkerDies, Abandon, Step, fabricVars, loopVars
<1>2. /\ Grows
      /\ \A u \in Worker \ {w} : Alike(u)
  BY <1>0, <1>1 DEF Grows, Alike
<1>3. \A u \in Worker : LoopInv(u)'
  <2>1. LoopInv(w)'
    BY <1>1 DEF LoopInv, LoopLabel
  <2>. QED BY <1>0, <1>1, <1>2, <2>1, Bystanders DEF Orderly
<1>4. StreamInv'
  BY <1>0, <1>1, <1>2, Bystanders DEF Orderly
<1>5. CASE \/ StartSelection(w) \/ distributed_select(w) \/ CheckLock(w) \/ WorkerDies(w)
  <2>1. UNCHANGED lock
    BY <1>5 DEF StartSelection, distributed_select, CheckLock, WorkerDies, Abandon,
       redisVars
  <2>2. Expanding(w)' => /\ Expanding(w) /\ at'[w] = at[w]
                         /\ wpc[w] \in LoopLabel => wpc'[w] \in LoopLabel
    BY <1>0, <1>5 DEF StartSelection, distributed_select, SelectLeaf, SelectUnvisited,
       Descend, CheckLock, WorkerDies, Abandon, Step, Expanding, LoopLabel
  <2>. QED BY <1>0, <1>1, <1>2, <1>3, <1>4, <2>1, <2>2, NodesKept DEF Orderly
<1>6. CASE TakeLock(w)
  <2>1. /\ UNCHANGED at
        /\ \/ lock[at[w]] = NoWorker /\ lock' = [lock EXCEPT ![at[w]] = w]
           \/ UNCHANGED lock /\ ~Expanding(w)'
    BY <1>0, <1>6 DEF TakeLock, Step, Expanding
  <2>2. CASE UNCHANGED lock /\ ~Expanding(w)'
    BY <1>0, <1>1, <1>2, <1>3, <1>4, <2>2, NodesKept DEF Orderly
  <2>3. CASE lock[at[w]] = NoWorker /\ lock' = [lock EXCEPT ![at[w]] = w]
    <3>. SUFFICES ASSUME NEW n \in Node, Begun(n)'
                  PROVE  NodeInv(n)'
      BY <1>3, <1>4 DEF NodeInv
    <3>1. Begun(n) /\ NodeInv(n)
      BY <1>0, <1>1, <1>2, Bystanders DEF Orderly
    <3>2. CASE n = at[w]
      BY <1>1, <2>3, <3>1, <3>2 DEF NodeInv
    <3>3. CASE n # at[w]
      <4>1. lock'[n] = lock[n]
        BY <1>0, <2>3, <3>3
      <4>2. \A v \in Worker : Expanding(v)' /\ at'[v] = n => Expanding(v) /\ at[v] = n
                                                             /\ wpc'[v] = wpc[v]
        BY <1>0, <1>2, <2>1, <3>3 DEF Alike, Expanding
      <4>. QED BY <1>1, <3>1, <4>1, <4>2 DEF NodeInv
    <3>. QED BY <3>2, <3>3
  <2>. QED BY <2>1, <2>2, <2>3
<1>7. CASE DeleteLock(w)
  <2>1. /\ UNCHANGED at /\ wpc[w] = "unlock" /\ wpc'[w] = "idle"
        /\ lock' = [lock EXCEPT ![at[w]] = NoWorker]
    BY <1>0, <1>7 DEF DeleteLock, Step
  <2>. SUFFICES ASSUME NEW n \in Node, Begun(n)'
                PROVE  NodeInv(n)'
    BY <1>3, <1>4 DEF NodeInv
  <2>2. Begun(n) /\ NodeInv(n)
    BY <1>0, <1>1, <1>2, Bystanders DEF Orderly
  <2>3. CASE n = at[w]
    <3>1. Expanding(w) /\ wpc[w] \notin LoopLabel
      BY <2>1 DEF Expanding, LoopLabel
    <3>. QED BY <1>1, <2>2, <2>3, <3>1 DEF NodeInv
  <2>4. CASE n # at[w]
    <3>1. lock'[n] = lock[n]
      BY <1>0, <2>1, <2>4
    <3>2. \A v \in Worker : Expanding(v)' /\ at'[v] = n => Expanding(v) /\ at[v] = n
                                                           /\ wpc'[v] = wpc[v]
      BY <1>0, <1>2, <2>1, <2>4 DEF Alike, Expanding
    <3>. QED BY <1>1, <2>2, <3>1, <3>2 DEF NodeInv
  <2>. QED BY <2>3, <2>4
<1>. QED BY <1>5, <1>6, <1>7

\* The steps of expand that create and queue nothing.
LEMMA OnceExpand ==
    ASSUME Orderly, NEW w \in Worker, expand(w), ~CreateChild(w), ~QueueExecution(w)
    PROVE  /\ \A u \in Worker : LoopInv(u)'
           /\ \A n \in Node : NodeInv(n)'
           /\ StreamInv'
<1>0. /\ TypeOK /\ wpc \in [Worker -> WorkerLabel] /\ at \in [Worker -> Node]
      /\ todo \in [Worker -> SUBSET Cand] /\ current \in [Worker -> Cand]
      /\ made \in [Worker -> BOOLEAN]
      /\ node \in [Node -> NodeHash] /\ at[w] \in Node /\ LoopInv(w)
  BY ForestAssumption DEF Orderly, TypeOK, WorkerTypeOK, FabricTypeOK
<1>1. /\ UNCHANGED <<dispatchStream, lock, at>>
      /\ wpc' = [wpc EXCEPT ![w] = wpc'[w]]
  BY <1>0 DEF expand, CheckNode, PlanExpansion, SetExhausted, SealSpent, PruneCandidate,
     ReserveBudget, UndoReservation, ShowGenerated, EndLoop, FinishExpansion, Step,
     redisVars, fabricVars
<1>2. \A u \in Worker \ {w} : Alike(u)
  <2>1. \A u \in Worker \ {w} : todo'[u] = todo[u] /\ current'[u] = current[u]
    BY <1>0 DEF expand, CheckNode, PlanExpansion, SetExhausted, SealSpent, PruneCandidate,
       ReserveBudget, UndoReservation, ShowGenerated, EndLoop, FinishExpansion, loopVars
  <2>. QED BY <1>0, <1>1, <2>1 DEF Alike
<1>3. \/ UNCHANGED node
      \/ Seal(at[w])
      \/ FinishExpansion(w)
  BY DEF expand, CheckNode, PlanExpansion, SetExhausted, SealSpent, PruneCandidate,
     ReserveBudget, UndoReservation, ShowGenerated, EndLoop, fabricVars
<1>4. /\ Grows
      /\ FinishExpansion(w) => node'[at[w]].expanded
  <2>1. (~made[w]) \in BOOLEAN
    OBVIOUS
  <2>. QED BY <1>0, <1>3, <2>1, HashEffects DEF Seal, FinishExpansion
<1>5. /\ StreamInv'
      /\ \A u \in Worker \ {w} : LoopInv(u)'
  BY <1>0, <1>1, <1>2, <1>4, Bystanders DEF Orderly
<1>6. \A n \in Node : NodeInv(n)'
  <2>1. /\ Expanding(w)
        /\ wpc[w] \in LoopLabel => wpc'[w] \in LoopLabel \/ FinishExpansion(w)
    BY <1>0 DEF expand, CheckNode, PlanExpansion, SetExhausted, SealSpent, PruneCandidate,
       ReserveBudget, UndoReservation, ShowGenerated, EndLoop, Step, Expanding, LoopLabel,
       FinishExpansion
  <2>. QED BY <1>0, <1>1, <1>2, <1>4, <2>1, NodesKept DEF Orderly
<1>7. /\ \A n \in Node : Begun(n)' <=> Begun(n)
      /\ \A m \in Node : node'[m].exists = node[m].exists
      /\ todo[w] \subseteq Node /\ current[w] \in Node /\ Found(at[w]) \subseteq Node
  BY <1>0, <1>1, <1>4, Bystanders, NodeFacts, FoundFacts DEF Grows
<1>8. LoopInv(w)'
  <2>1. CASE CheckNode(w)
    <3>1. CASE wpc'[w] = "release"
      BY <3>1 DEF LoopInv, LoopLabel
    <3>2. CASE wpc'[w] # "release"
      <4>1. /\ wpc[w] = "check" /\ wpc'[w] = "plan" /\ ~Settled(at[w]) /\ Expanding(w)
        BY <1>0, <2>1, <3>2 DEF CheckNode, Step, Expanding
      <4>2. ~Begun(at[w])
        BY <1>0, <4>1 DEF Orderly, NodeInv, Settled, LoopLabel
      <4>. QED BY <1>0, <1>1, <1>7, <4>1, <4>2 DEF LoopInv, LoopLabel, Settled
    <3>. QED BY <3>1, <3>2
  <2>2. CASE PlanExpansion(w)
    <3>1. wpc[w] = "plan" /\ wpc'[w] \in {"spent", "loop"}
      BY <1>0, <2>2 DEF PlanExpansion, Step
    <3>2. wpc'[w] = "loop" => todo'[w] \subseteq Found(at[w])
      <4>1. CASE UNCHANGED todo /\ wpc'[w] = "spent"
        BY <4>1
      <4>2. ASSUME NEW k,
                   todo' = [todo EXCEPT ![w] = {Patches[at[w]][i] :
                               i \in {j \in DOMAIN Patches[at[w]] : j <= k}}]
            PROVE  todo'[w] \subseteq Found(at[w])
        BY <1>0, <4>2 DEF Found
      <4>. QED BY <1>0, <2>2, <4>1, <4>2 DEF PlanExpansion, Step
    <3>3. ~Begun(at[w]) /\ node[at[w]].exists
      BY <1>0, <3>1 DEF LoopInv
    <3>. QED BY <1>0, <1>1, <1>7, <3>1, <3>2, <3>3 DEF LoopInv, LoopLabel, Begun
  <2>3. CASE SetExhausted(w) \/ SealSpent(w)
    <3>1. /\ UNCHANGED <<todo, current>>
          /\ \/ wpc[w] = "exhaust" /\ wpc'[w] = "finish"
             \/ wpc'[w] \in {"seal", "release"}
      BY <1>0, <2>3 DEF SetExhausted, SealSpent, Step, loopVars
    <3>. QED BY <1>0, <1>1, <1>7, <3>1 DEF LoopInv, LoopLabel
  <2>4. CASE PruneCandidate(w)
    <3>1. /\ wpc[w] = "loop" /\ wpc'[w] = "loop" /\ todo'[w] \subseteq todo[w]
      BY <1>0, <2>4 DEF PruneCandidate, Step
    <3>. QED BY <1>0, <1>1, <1>7, <3>1 DEF LoopInv, LoopLabel
  <2>5. CASE ReserveBudget(w)
    <3>1. PICK c \in todo[w] : /\ todo'[w] = todo[w] \ {c}
                               /\ current'[w] = c
      BY <1>0, <2>5 DEF ReserveBudget
    <3>2. wpc[w] = "loop" /\ wpc'[w] \in {"refused", "granted"}
      BY <1>0, <2>5 DEF ReserveBudget, Step
    <3>. QED BY <1>0, <1>1, <1>7, <3>1, <3>2 DEF LoopInv, LoopLabel
  <2>6. CASE UndoReservation(w) \/ ShowGenerated(w) \/ EndLoop(w)
    <3>1. /\ UNCHANGED <<todo, current>>
          /\ \/ wpc[w] = "refused" /\ wpc'[w] = "exhaust"
             \/ wpc[w] = "granted" /\ wpc'[w] = "child"
             \/ wpc[w] = "loop" /\ wpc'[w] = "finish"
      BY <1>0, <2>6 DEF UndoReservation, ShowGenerated, EndLoop, Step, loopVars
    <3>. QED BY <1>0, <1>1, <1>7, <3>1 DEF LoopInv, LoopLabel
  <2>7. CASE FinishExpansion(w)
    <3>1. wpc'[w] = "release"
      BY <1>0, <2>7 DEF FinishExpansion, Step
    <3>. QED BY <3>1 DEF LoopInv, LoopLabel
  <2>. QED BY <2>1, <2>2, <2>3, <2>4, <2>5, <2>6, <2>7 DEF expand
<1>. QED BY <1>5, <1>6, <1>8

\* A child is created where none existed.
LEMMA OnceCreate ==
    ASSUME Orderly, NEW w \in Worker, CreateChild(w)
    PROVE  /\ \A u \in Worker : LoopInv(u)'
           /\ \A n \in Node : NodeInv(n)'
           /\ StreamInv'
<1>. DEFINE p == at[w]
            c == current[w]
<1>0. /\ TypeOK /\ wpc \in [Worker -> WorkerLabel] /\ at \in [Worker -> Node]
      /\ todo \in [Worker -> SUBSET Cand] /\ current \in [Worker -> Cand]
      /\ node \in [Node -> NodeHash] /\ LoopInv(w) /\ Cand \subseteq Node
      /\ NoWorker \notin Worker /\ \A u \in Worker : Expanding(u) => lock[at[u]] = u
  BY ForestAssumption, NodeFacts DEF Orderly, TypeOK, WorkerTypeOK, FabricTypeOK
<1>1. /\ UNCHANGED <<dispatchStream, lock, at, todo, current>>
      /\ wpc[w] = "child" /\ wpc' = [wpc EXCEPT ![w] = "queue"]
      /\ node' = [node EXCEPT ![c] = FreshHash]
  BY DEF CreateChild, Step
<1>2. /\ p \in Node /\ c \in Node /\ c \in Found(p) /\ c \notin todo[w]
      /\ node[p].exists /\ ~node[c].exists /\ c # p
      /\ \A d \in todo[w] : ~node[d].exists
      /\ todo[w] \subseteq Found(p)
      /\ lock[p] = w
  BY <1>0, <1>1 DEF LoopInv, LoopLabel, Expanding
<1>. HIDE DEF p, c
<1>3. /\ \A m \in Node : m # c => node'[m] = node[m]
      /\ node'[c].exists
  BY <1>0, <1>1, <1>2 DEF FreshHash, NoHash
<1>4. \A n \in Node : n # p => (Begun(n)' <=> Begun(n))
  BY <1>2, <1>3, FoundFacts DEF Begun
<1>5. \A d : Queued(d)' <=> Queued(d)
  BY <1>1 DEF Queued
<1>6. /\ \A i \in DOMAIN dispatchStream : dispatchStream[i].cand \in Node
      /\ \A i \in DOMAIN dispatchStream : node[dispatchStream[i].cand].exists
  <2>1. \A r \in Request : r.cand \in Node
    BY NodeFacts DEF Request
  <2>. QED BY <1>0, <2>1 DEF TypeOK, FabricTypeOK, Orderly, StreamInv
<1>7. StreamInv'
  BY <1>1, <1>3, <1>6 DEF Orderly, StreamInv
<1>8. LoopInv(w)'
  <2>1. ~Queued(c)
    BY <1>2, <1>6 DEF Queued
  <2>2. wpc'[w] = "queue" /\ at'[w] = p /\ current'[w] = c /\ todo'[w] = todo[w]
    BY <1>0, <1>1 DEF p, c
  <2>3. node'[p].exists /\ \A d \in todo[w] : ~node'[d].exists
    BY <1>0, <1>2, <1>3
  <2>. QED BY <1>2, <1>3, <1>5, <2>1, <2>2, <2>3 DEF LoopInv, LoopLabel
<1>9. ASSUME NEW u \in Worker, u # w PROVE LoopInv(u)'
  <2>1. /\ LoopInv(u) /\ at[u] \in Node /\ todo[u] \subseteq Node /\ current[u] \in Node
        /\ wpc'[u] = wpc[u]
    BY <1>0, <1>1, <1>9 DEF Orderly
  <2>2. Expanding(u) => at[u] # p
    BY <1>0, <1>2, <1>9
  <2>3. wpc[u] \in {"plan"} \cup LoopLabel => Expanding(u)
    BY DEF LoopLabel, Expanding
  <2>4. Expanding(u) => c \notin Found(at[u]) /\ (Begun(at[u])' <=> Begun(at[u]))
    <3>. SUFFICES ASSUME Expanding(u), at[u] # p
                  PROVE  c \notin Found(at[u]) /\ (Begun(at[u])' <=> Begun(at[u]))
      BY <2>2
    <3>1. \A n \in Node : n = at[u] => (Begun(n)' <=> Begun(n))
      BY <1>4
    <3>2. \A n \in Node : n = at[u] => (Begun(at[u])' <=> Begun(n)')
      BY <1>1 DEF Begun
    <3>. QED BY <1>2, <2>1, <3>1, <3>2, FoundFacts
  <2>5. wpc[u] \in {"plan"} \cup LoopLabel => node'[at[u]].exists
    BY <1>3, <2>1 DEF LoopInv
  <2>6. wpc[u] \in LoopLabel => /\ todo[u] \subseteq Found(at[u])
                                /\ \A d \in todo[u] : ~node'[d].exists
    BY <1>3, <2>1, <2>3, <2>4 DEF LoopInv
  <2>7. wpc[u] \in {"granted", "child", "queue"} =>
           /\ current[u] \in Found(at[u]) /\ current[u] \notin todo[u]
           /\ node'[current[u]].exists = node[current[u]].exists
    BY <1>3, <2>1, <2>3, <2>4 DEF LoopInv, LoopLabel
  <2>8. wpc[u] = "plan" => ~Begun(at[u])'
    BY <2>1, <2>3, <2>4 DEF LoopInv
  <2>. QED BY <1>1, <1>5, <2>1, <2>5, <2>6, <2>7, <2>8 DEF LoopInv
<1>10. ASSUME NEW n \in Node PROVE NodeInv(n)'
  <2>1. CASE n = p
    <3>1. \A u \in Worker : Expanding(u)' /\ at'[u] = n => wpc'[u] \in LoopLabel
      <4>1. \A u \in Worker \ {w} : wpc'[u] = wpc[u]
        BY <1>0, <1>1
      <4>2. wpc'[w] \in LoopLabel
        BY <1>0, <1>1 DEF LoopLabel
      <4>3. \A u \in Worker \ {w} : ~(Expanding(u) /\ at[u] = n)
        BY <1>0, <1>2, <2>1
      <4>. QED BY <1>1, <4>1, <4>2, <4>3 DEF Expanding
    <3>2. node'[n].exists /\ lock'[n] # NoWorker
      BY <1>0, <1>1, <1>2, <1>3, <2>1
    <3>. QED BY <3>1, <3>2 DEF NodeInv
  <2>2. CASE n = c
    <3>1. ~Begun(n)
      BY <1>2, <2>2 DEF Orderly, NodeInv
    <3>. QED BY <1>2, <1>4, <2>2, <3>1 DEF NodeInv
  <2>3. CASE n # p /\ n # c
    <3>1. node'[n] = node[n] /\ (Begun(n)' <=> Begun(n)) /\ NodeInv(n)
      BY <1>3, <1>4, <2>3 DEF Orderly
    <3>2. \A u \in Worker : Expanding(u)' /\ at'[u] = n => Expanding(u) /\ at[u] = n
                                                           /\ wpc'[u] = wpc[u]
      <4>1. \A u \in Worker \ {w} : wpc'[u] = wpc[u]
        BY <1>0, <1>1
      <4>2. at'[w] # n
        BY <1>1, <2>3 DEF p
      <4>. QED BY <1>1, <4>1, <4>2 DEF Expanding
    <3>. QED BY <1>1, <3>1, <3>2 DEF NodeInv
  <2>. QED BY <2>1, <2>2, <2>3
<1>. QED BY <1>7, <1>8, <1>9, <1>10

\* A candidate is queued that the stream does not hold.
LEMMA OnceQueue ==
    ASSUME Orderly, NEW w \in Worker, QueueExecution(w), TypeOK'
    PROVE  /\ \A u \in Worker : LoopInv(u)'
           /\ \A n \in Node : NodeInv(n)'
           /\ StreamInv'
<1>. DEFINE c == current[w]
            r == [run |-> ticket[w], cand |-> c]
<1>0. /\ TypeOK /\ wpc \in [Worker -> WorkerLabel] /\ at \in [Worker -> Node]
      /\ todo \in [Worker -> SUBSET Cand] /\ current \in [Worker -> Cand]
      /\ LoopInv(w) /\ StreamInv
      /\ dispatchStream \in Seq(Request)
      /\ \A u \in Worker : Expanding(u) => lock[at[u]] = u
  BY DEF Orderly, TypeOK, WorkerTypeOK, FabricTypeOK
<1>1. /\ UNCHANGED <<node, lock, at, todo, current>>
      /\ wpc[w] = "queue" /\ wpc' = [wpc EXCEPT ![w] = "loop"]
      /\ dispatchStream' = Append(dispatchStream, r)
  BY DEF QueueExecution, Step, redisVars, loopVars
<1>2. /\ node[c].exists /\ ~Queued(c) /\ c \in Found(at[w]) /\ r.cand = c
  BY <1>0, <1>1 DEF LoopInv
<1>. HIDE DEF c, r
<1>3. /\ DOMAIN dispatchStream' = DOMAIN dispatchStream \cup {Len(dispatchStream) + 1}
      /\ Len(dispatchStream) + 1 \notin DOMAIN dispatchStream
      /\ dispatchStream'[Len(dispatchStream) + 1] = r
      /\ \A i \in DOMAIN dispatchStream : dispatchStream'[i] = dispatchStream[i]
  <2>1. DOMAIN dispatchStream = 1 .. Len(dispatchStream) /\ Len(dispatchStream) \in Nat
    BY <1>0
  <2>2. DOMAIN Append(dispatchStream, r) = 1 .. Len(dispatchStream) + 1
    BY <1>0
  <2>3. /\ Append(dispatchStream, r)[Len(dispatchStream) + 1] = r
        /\ \A i \in 1 .. Len(dispatchStream) :
              Append(dispatchStream, r)[i] = dispatchStream[i]
    BY <1>0
  <2>. QED BY <1>1, <2>1, <2>2, <2>3
<1>4. StreamInv'
  BY <1>0, <1>1, <1>2, <1>3 DEF StreamInv, Queued
<1>5. \A d : Queued(d)' => Queued(d) \/ d = c
  BY <1>2, <1>3 DEF Queued
<1>6. \A n \in Node : Begun(n)' <=> Begun(n)
  BY <1>1 DEF Begun
<1>7. \A u \in Worker \ {w} : wpc'[u] = wpc[u]
  BY <1>0, <1>1
<1>8. LoopInv(w)'
  <2>1. wpc'[w] = "loop"
    BY <1>0, <1>1
  <2>. QED BY <1>0, <1>1, <2>1 DEF LoopInv, LoopLabel
<1>9. ASSUME NEW u \in Worker, u # w PROVE LoopInv(u)'
  <2>1. LoopInv(u) /\ wpc'[u] = wpc[u] /\ at[u] \in Node /\ at[w] \in Node
    BY <1>0, <1>7, <1>9 DEF Orderly
  <2>2. wpc[u] = "queue" => ~Queued(current[u])'
    <3>. SUFFICES ASSUME wpc[u] = "queue" PROVE ~Queued(current[u])'
      OBVIOUS
    <3>1. Expanding(u) /\ Expanding(w)
      BY <1>1 DEF Expanding
    <3>2. at[u] # at[w]
      BY <1>0, <1>9, <3>1
    <3>3. current[u] \in Found(at[u]) /\ ~Queued(current[u])
      BY <2>1 DEF LoopInv
    <3>4. current[u] # c
      BY <1>2, <2>1, <3>2, <3>3, FoundFacts
    <3>5. \A d : d = current[u] => ~Queued(d)'
      BY <1>5, <3>3, <3>4
    <3>. QED BY <1>1, <3>5 DEF Queued
  <2>3. wpc[u] = "plan" => ~Begun(at[u])'
    BY <1>1, <2>1 DEF LoopInv, Begun
  <2>. QED BY <1>1, <2>1, <2>2, <2>3 DEF LoopInv
<1>10. ASSUME NEW n \in Node PROVE NodeInv(n)'
  <2>1. NodeInv(n) /\ wpc'[w] \in LoopLabel
    BY <1>0, <1>1 DEF Orderly, LoopLabel
  <2>2. \A u \in Worker : Expanding(u)' => u = w \/ (Expanding(u) /\ wpc'[u] = wpc[u])
    BY <1>7 DEF Expanding
  <2>. QED BY <1>1, <1>6, <2>1, <2>2 DEF NodeInv
<1>. QED BY <1>4, <1>8, <1>9, <1>10

\* Results only count visits and make candidates terminal.
LEMMA ResultGrows ==
    ASSUME TypeOK, NEW i \in DOMAIN dispatchStream, NEW passed \in BOOLEAN,
           ResultArrives(i, passed)
    PROVE  Grows
<1>. DEFINE c == dispatchStream[i].cand
<1>1. node \in [Node -> NodeHash]
  BY DEF TypeOK, FabricTypeOK
<1>2. node' = [n \in Node |-> [node[n] EXCEPT
                 !.visits = IF n \in Path[c] THEN @ + 1 ELSE @,
                 !.terminal = @ \/ (passed /\ n = c)]]
  BY DEF ResultArrives
<1>. HIDE DEF c
<1>3. ASSUME NEW n \in Node
      PROVE  /\ node'[n].exists = node[n].exists
             /\ node'[n].expanded = node[n].expanded
             /\ node[n].terminal => node'[n].terminal
  <2>1. node[n] \in NodeHash
    BY <1>1
  <2>2. node'[n] = [node[n] EXCEPT
                 !.visits = IF n \in Path[c] THEN @ + 1 ELSE @,
                 !.terminal = @ \/ (passed /\ n = c)]
    BY <1>2
  <2>. QED BY <2>1, <2>2 DEF NodeHash
<1>. QED BY <1>3 DEF Grows

LEMMA OnceNext ==
    ASSUME TypeOK, BudgetInv, LockExcludes, OnceInv, [Next]_vars
    PROVE  OnceInv'
<1>. SUFFICES ASSUME expiries' = 0, raises' = 0
              PROVE  /\ \A u \in Worker : LoopInv(u)'
                     /\ \A n \in Node : NodeInv(n)'
                     /\ StreamInv'
  BY DEF OnceInv
<1>1. expiries \in Nat /\ raises \in Nat /\ TypeOK
  BY DEF TypeOK, WorkerTypeOK
<1>2. expiries = 0 /\ raises = 0 => Orderly
  BY <1>1, NoneUnprotected DEF OnceInv, Orderly
<1>3. ASSUME NEW w \in Worker, run(w)
      PROVE  /\ \A u \in Worker : LoopInv(u)'
             /\ \A n \in Node : NodeInv(n)'
             /\ StreamInv'
  <2>1. UNCHANGED <<expiries, raises>>
    BY <1>3 DEF run, StartSelection, distributed_select, TakeLock, expand, CheckLock,
       DeleteLock, CheckNode, PlanExpansion, SetExhausted, SealSpent, PruneCandidate,
       ReserveBudget, UndoReservation, ShowGenerated, CreateChild, QueueExecution,
       EndLoop, FinishExpansion, recordVars
  <2>2. TypeOK'
    BY <1>3, WalkType, ExpandType DEF run
  <2>. QED BY <1>2, <1>3, <2>1, <2>2, OnceWalk, OnceExpand, OnceCreate, OnceQueue DEF run
<1>4. ASSUME NEW w \in Worker, WorkerDies(w)
      PROVE  /\ \A u \in Worker : LoopInv(u)'
             /\ \A n \in Node : NodeInv(n)'
             /\ StreamInv'
  BY <1>2, <1>4, OnceWalk DEF WorkerDies, Abandon
<1>5. ASSUME NEW w \in Worker, ExpandRaises(w) PROVE FALSE
  BY <1>1, <1>5 DEF ExpandRaises
<1>6. ASSUME NEW n \in Node, LockExpires(n) PROVE FALSE
  BY <1>1, <1>6 DEF LockExpires
<1>7. ASSUME Grows, UNCHANGED <<dispatchStream, lock, wpc, at, todo, current, expiries, raises>>
      PROVE  /\ \A u \in Worker : LoopInv(u)'
             /\ \A n \in Node : NodeInv(n)'
             /\ StreamInv'
  <2>1. Orderly /\ \A u \in Worker : Alike(u)
    BY <1>2, <1>7 DEF Alike
  <2>2. ASSUME NEW n \in Node PROVE NodeInv(n)'
    <3>1. NodeInv(n) /\ (Begun(n)' <=> Begun(n))
      BY <1>1, <1>7, <2>1, Bystanders DEF Orderly
    <3>2. \A u \in Worker : Expanding(u)' <=> Expanding(u)
      BY <1>7 DEF Expanding
    <3>. QED BY <1>7, <3>1, <3>2 DEF NodeInv, Grows
  <2>. QED BY <1>1, <1>7, <2>1, <2>2, Bystanders DEF Orderly
<1>8. ASSUME NEW w \in Worker, LedgerAction(w)
      PROVE  /\ \A u \in Worker : LoopInv(u)'
             /\ \A n \in Node : NodeInv(n)'
             /\ StreamInv'
  BY <1>7, <1>8 DEF LedgerAction, Grows, fabricVars, redisVars, localVars, recordVars
<1>9. ASSUME NEW i \in DOMAIN dispatchStream, NEW passed \in BOOLEAN,
             ResultArrives(i, passed)
      PROVE  /\ \A u \in Worker : LoopInv(u)'
             /\ \A n \in Node : NodeInv(n)'
             /\ StreamInv'
  <2>1. UNCHANGED <<dispatchStream, lock, wpc, at, todo, current, expiries, raises>>
    BY <1>9 DEF ResultArrives, redisVars, localVars
  <2>. QED BY <1>1, <1>7, <1>9, <2>1, ResultGrows
<1>10. ASSUME UNCHANGED vars
       PROVE  /\ \A u \in Worker : LoopInv(u)'
              /\ \A n \in Node : NodeInv(n)'
              /\ StreamInv'
  BY <1>7, <1>10 DEF vars, Grows, fabricVars, redisVars, localVars, recordVars
<1>. QED BY <1>3, <1>4, <1>5, <1>6, <1>8, <1>9, <1>10 DEF Next

\* Until a lock expires or an expansion raises, no candidate is queued for
\* execution twice, however many workers search the tree and die: the node of
\* a worker that died in its loop stays locked, and every other node that has
\* children is marked before its lock is given back.
THEOREM CandidatesAreQueuedOnce == Spec => []NoCandidateTwice
<1>1. Init => OnceInv
  <2>. SUFFICES ASSUME Init PROVE OnceInv
    OBVIOUS
  <2>1. \A c \in Cand : ~node[c].exists
    <3>1. \A c \in Cand : node[c] = NoHash
      BY FabricAssumption, NodeFacts DEF Init, FabricInit
    <3>2. NoHash.exists = FALSE
      BY DEF NoHash
    <3>. QED BY <3>1, <3>2
  <2>2. \A n \in Node : ~Begun(n)
    BY <2>1, FoundFacts DEF Begun
  <2>. QED BY <2>2 DEF Init, FabricInit, OnceInv, LoopInv, LoopLabel, NodeInv, StreamInv
<1>2. (TypeOK /\ BudgetInv) /\ LockExcludes /\ OnceInv /\ [Next]_vars => OnceInv'
  BY OnceNext
<1>3. TypeOK /\ BudgetInv /\ OnceInv => NoCandidateTwice
  BY DEF OnceInv, StreamInv, NoCandidateTwice, TypeOK, WorkerTypeOK
<1>. QED BY <1>1, <1>2, <1>3, TypeCorrect, LockExclusion, PTL DEF Spec
=============================================================================
