--------------------------- MODULE ProgramsProofs ---------------------------
(***************************************************************************)
(* Proofs about the sequential programs of the repository.                 *)
(***************************************************************************)
EXTENDS Programs, Statistics, FiniteSetTheorems, SequenceTheorems, TLAPS

-----------------------------------------------------------------------------
(* Induction and sums                                                      *)
(*                                                                         *)
(* What a recursive function computes is shown by induction, in the form   *)
(* of the least counterexample: a set of naturals has a least element.     *)

LEMMA LeastNat ==
    ASSUME NEW S \in SUBSET Nat, S # {}
    PROVE  \E m \in S : \A k \in S : m <= k
<1>1. PICK m \in S : \A k \in S : ~(<<k, m>> \in OpToRel(<, Nat))
  BY NatLessThanWellFounded, WFMin
<1>2. \A k \in S : ~(k < m)
  BY <1>1 DEF OpToRel
<1>. QED BY <1>2

\* A set of naturals that holds 0 and every successor holds them all.
LEMMA Induction ==
    ASSUME NEW S \in SUBSET Nat, 0 \in S, \A n \in S : n + 1 \in S
    PROVE  S = Nat
<1>. SUFFICES ASSUME Nat \ S # {} PROVE FALSE
  OBVIOUS
<1>1. PICK m \in Nat \ S : \A k \in Nat \ S : m <= k
  BY LeastNat
<1>2. m # 0 /\ m - 1 \in Nat
  BY <1>1
<1>3. m - 1 \in S
  BY <1>1, <1>2
<1>. QED BY <1>1, <1>2, <1>3

\* A sum over a finite set takes one element after the other, in any order:
\* the one step from f to the function that it is defined by.
SumStep(S, v, pick, f) ==
    [s \in SUBSET S |-> IF s = {} THEN 0 ELSE v[pick[s]] + f[s \ {pick[s]}]]

Picks(S, pick) == \A s \in SUBSET S : s # {} => pick[s] \in s

Additive(V) == V \in SUBSET Int /\ 0 \in V /\ \A i, j \in V : i + j \in V

\* There is such a sum ...
LEMMA SumExists ==
    ASSUME NEW S, IsFiniteSet(S), NEW pick, Picks(S, pick),
           NEW V, Additive(V), NEW v \in [S -> V]
    PROVE  \E f \in [SUBSET S -> V] : f = SumStep(S, v, pick, f)
<1>. USE DEF Picks, Additive
<1>. DEFINE Upto(n) == {s \in SUBSET S : Cardinality(s) <= n}
            Sums(f, n) == \A s \in Upto(n) :
                 f[s] = IF s = {} THEN 0 ELSE v[pick[s]] + f[s \ {pick[s]}]
            N == {n \in Nat : \E f \in [Upto(n) -> V] : Sums(f, n)}
<1>1. \A s \in SUBSET S : IsFiniteSet(s) /\ Cardinality(s) \in Nat
                          /\ (Cardinality(s) = 0 <=> s = {})
  BY FS_Subset, FS_CardinalityType, FS_EmptySet
<1>2. \A s \in SUBSET S : s # {} =>
         s \ {pick[s]} \in SUBSET S /\ Cardinality(s \ {pick[s]}) = Cardinality(s) - 1
  BY <1>1, FS_RemoveElement
<1>3. 0 \in N
  <2>. DEFINE f == [s \in Upto(0) |-> 0]
  <2>1. f \in [Upto(0) -> V] /\ Sums(f, 0)
    BY <1>1
  <2>. QED BY <2>1
<1>4. ASSUME NEW n \in N PROVE n + 1 \in N
  <2>1. PICK f \in [Upto(n) -> V] : Sums(f, n)
    OBVIOUS
  <2>. DEFINE g == [s \in Upto(n + 1) |->
                      IF s \in Upto(n) THEN f[s] ELSE v[pick[s]] + f[s \ {pick[s]}]]
  <2>2. \A s \in Upto(n) : s # {} => s \ {pick[s]} \in Upto(n)
    BY <1>1, <1>2
  <2>3. \A s \in Upto(n + 1) : s \notin Upto(n) =>
            s # {} /\ s \ {pick[s]} \in Upto(n)
    BY <1>1, <1>2
  <2>4. Upto(n) \subseteq Upto(n + 1)
    BY <1>1
  <2>. HIDE DEF Upto
  <2>5. \A s \in Upto(n + 1) : s \notin Upto(n) =>
           v[pick[s]] \in V /\ f[s \ {pick[s]}] \in V
    <3>1. \A s \in Upto(n + 1) : s # {} => pick[s] \in S
      BY DEF Upto
    <3>. QED BY <2>3, <3>1
  <2>6. g \in [Upto(n + 1) -> V]
    BY <2>5
  <2>7. \A s \in Upto(n) : g[s] = f[s]
    BY <2>4
  <2>8. ASSUME NEW s \in Upto(n + 1), s # {}
        PROVE  g[s] = v[pick[s]] + g[s \ {pick[s]}]
    <3>1. CASE s \in Upto(n)
      BY <2>1, <2>2, <2>7, <2>8, <3>1
    <3>2. CASE s \notin Upto(n)
      BY <2>3, <2>7, <3>2
    <3>. QED BY <3>1, <3>2
  <2>9. g[{}] = 0 /\ {} \in Upto(n)
    <3>1. {} \in Upto(n)
      BY FS_EmptySet DEF Upto
    <3>. QED BY <2>1, <2>7, <3>1
  <2>10. Sums(g, n + 1)
    BY <2>8, <2>9
  <2>. HIDE DEF g, Sums
  <2>11. \E h \in [Upto(n + 1) -> V] : Sums(h, n + 1)
    BY <2>6, <2>10
  <2>. QED BY <2>11
<1>5. Cardinality(S) \in N
  <2>. HIDE DEF N
  <2>1. N \in SUBSET Nat
    BY DEF N
  <2>2. N = Nat
    BY <1>3, <1>4, <2>1, Induction
  <2>. QED BY <1>1, <2>2
<1>6. Upto(Cardinality(S)) = SUBSET S
  BY FS_Subset
<1>7. PICK f \in [SUBSET S -> V] : Sums(f, Cardinality(S))
  BY <1>5, <1>6
<1>8. f = SumStep(S, v, pick, f)
  BY <1>6, <1>7 DEF SumStep
<1>. QED BY <1>8

\* ... and there is only one.
LEMMA SumUnique ==
    ASSUME NEW S, IsFiniteSet(S), NEW pick, Picks(S, pick), NEW v,
           NEW f, f = SumStep(S, v, pick, f),
           NEW g, g = SumStep(S, v, pick, g)
    PROVE  f = g
<1>. DEFINE N == {n \in Nat : \A s \in SUBSET S : Cardinality(s) = n => f[s] = g[s]}
<1>0. \A s \in SUBSET S :
         /\ f[s] = IF s = {} THEN 0 ELSE v[pick[s]] + f[s \ {pick[s]}]
         /\ g[s] = IF s = {} THEN 0 ELSE v[pick[s]] + g[s \ {pick[s]}]
  BY DEF SumStep
<1>1. \A s \in SUBSET S : IsFiniteSet(s) /\ Cardinality(s) \in Nat
                          /\ (Cardinality(s) = 0 <=> s = {})
  BY FS_Subset, FS_CardinalityType, FS_EmptySet
<1>2. 0 \in N
  BY <1>0, <1>1
<1>3. ASSUME NEW n \in N PROVE n + 1 \in N
  <2>. SUFFICES ASSUME NEW s \in SUBSET S, Cardinality(s) = n + 1
       PROVE  f[s] = g[s]
    OBVIOUS
  <2>1. s # {} /\ s \ {pick[s]} \in SUBSET S /\ pick[s] \in s
    BY <1>1 DEF Picks
  <2>2. Cardinality(s \ {pick[s]}) = n
    BY <1>1, <2>1, FS_RemoveElement
  <2>3. f[s \ {pick[s]}] = g[s \ {pick[s]}]
    BY <2>1, <2>2
  <2>. QED BY <1>0, <2>1, <2>3
<1>4. N = Nat
  <2>. HIDE DEF N
  <2>1. N \in SUBSET Nat
    BY DEF N
  <2>. QED BY <1>2, <1>3, <2>1, Induction
<1>5. \A s \in SUBSET S : f[s] = g[s]
  BY <1>1, <1>4
<1>6. f = [s \in SUBSET S |-> f[s]] /\ g = [s \in SUBSET S |-> g[s]]
  <2>1. \A h : h = SumStep(S, v, pick, h) => h = [s \in SUBSET S |-> h[s]]
    BY DEF SumStep
  <2>. QED BY <2>1
<1>. QED BY <1>5, <1>6

\* What a definition by recursion makes of it.
LEMMA SumDefined ==
    ASSUME NEW S, IsFiniteSet(S), NEW pick, Picks(S, pick),
           NEW V, Additive(V), NEW v \in [S -> V],
           NEW it, it = CHOOSE f : f = SumStep(S, v, pick, f)
    PROVE  /\ it \in [SUBSET S -> V]
           /\ it = SumStep(S, v, pick, it)
<1>1. PICK f \in [SUBSET S -> V] : f = SumStep(S, v, pick, f)
  BY SumExists
<1>2. it = SumStep(S, v, pick, it)
  BY <1>1
<1>3. it = f
  BY <1>1, <1>2, SumUnique
<1>. QED BY <1>1, <1>2, <1>3

-----------------------------------------------------------------------------
(* Funnel: how many commands have run at each stage, and what they said    *)

\* The counts of pytest's output add up to a natural number.
LEMMA CountIsNatural ==
    ASSUME NEW output \in Outputs, NEW labels
    PROVE  CountOf(output, labels) \in Nat
<1>. DEFINE S == {i \in DOMAIN output : output[i].label \in labels}
            pick == [s \in SUBSET S |-> CHOOSE x \in s : TRUE]
            v == [i \in S |-> output[i].count]
<1>1. PICK n \in 0..MaxLabels :
         output \in [1..n -> [count : 0..MaxCount,
                              label : {"passed", "failed", "errors"}]]
  BY DEF Outputs
<1>2. n \in Nat /\ MaxCount \in Nat
  BY FunnelAssumption
<1>3. IsFiniteSet(S)
  <2>1. S \subseteq 1..n
    BY <1>1
  <2>. QED BY <1>2, <2>1, FS_Interval, FS_Subset
<1>4. v \in [S -> Nat]
  BY <1>1, <1>2
<1>5. Picks(S, pick) /\ Additive(Nat)
  BY DEF Picks, Additive
<1>6. CountOf(output, labels) =
         (CHOOSE f : f = [s \in SUBSET S |->
             IF s = {} THEN 0 ELSE output[CHOOSE x \in s : TRUE].count
                                   + f[s \ {CHOOSE x \in s : TRUE}]])[S]
  BY DEF CountOf, MapThenSumSet, MapThenFoldSet
<1>7. ASSUME NEW f
      PROVE  [s \in SUBSET S |->
                IF s = {} THEN 0 ELSE output[CHOOSE x \in s : TRUE].count
                                      + f[s \ {CHOOSE x \in s : TRUE}]]
             = SumStep(S, v, pick, f)
  <2>1. \A s \in SUBSET S : pick[s] = CHOOSE x \in s : TRUE
    OBVIOUS
  <2>2. ASSUME NEW s \in SUBSET S, s # {}
        PROVE  v[pick[s]] = output[CHOOSE x \in s : TRUE].count
    BY <1>5, <2>1, <2>2 DEF Picks
  <2>. HIDE DEF S, v, pick
  <2>3. ASSUME NEW s \in SUBSET S
        PROVE  (IF s = {} THEN 0 ELSE output[CHOOSE x \in s : TRUE].count
                                      + f[s \ {CHOOSE x \in s : TRUE}])
               = IF s = {} THEN 0 ELSE v[pick[s]] + f[s \ {pick[s]}]
    <3>1. CASE s = {}
      BY <3>1
    <3>2. CASE s # {}
      <4>1. v[pick[s]] = output[CHOOSE x \in s : TRUE].count
        BY <2>2, <3>2
      <4>2. pick[s] = CHOOSE x \in s : TRUE
        BY <2>1
      <4>. QED BY <3>2, <4>1, <4>2, Zenon
    <3>. QED BY <3>1, <3>2
  <2>. QED BY <2>3, Zenon DEF SumStep
<1>8. (CHOOSE f : f = [s \in SUBSET S |->
             IF s = {} THEN 0 ELSE output[CHOOSE x \in s : TRUE].count
                                   + f[s \ {CHOOSE x \in s : TRUE}]])
      = CHOOSE f : f = SumStep(S, v, pick, f)
  BY <1>7
<1>. HIDE DEF S, v, pick
<1>9. (CHOOSE f : f = SumStep(S, v, pick, f)) \in [SUBSET S -> Nat]
  <2>1. PICK it : it = CHOOSE f : f = SumStep(S, v, pick, f)
    OBVIOUS
  <2>2. it \in [SUBSET S -> Nat]
    BY <1>3, <1>4, <1>5, <2>1, SumDefined
  <2>. QED BY <2>1, <2>2
<1>. QED BY <1>6, <1>8, <1>9

\* The verdict, told apart by whether the last command that ran passed.
Verdict(n) ==
    /\ n \in 1..4
    /\ \A i \in 1..n - 1 : run_cmd(ran[i])
    /\ run_cmd(ran[n]) => n = 4 /\ result.success = TRUE
    /\ ~run_cmd(ran[n]) => /\ result.success = FALSE
                          /\ result.failed_stage = Stages[n]
                          /\ result.tests_failed \in Nat \ {0}
    /\ n = 4 => result.full_suite_attempted = TRUE
    /\ n # 4 => result.full_suite_attempted = FALSE

FunnelInv ==
    /\ ran \in Seq(Command)
    /\ stage \in {"lint", "typecheck", "targeted_pytest", "full_suite"} =>
          \A i \in 1..Len(ran) : run_cmd(ran[i])
    /\ stage = "lint"            => Len(ran) = 0
    /\ stage = "typecheck"       => Len(ran) = 1
    /\ stage = "targeted_pytest" => Len(ran) = 2
    /\ stage = "full_suite"      => Len(ran) = 3
    /\ stage = "returned"        => Verdict(Len(ran))

LEMMA CommandOutput ==
    ASSUME NEW c \in Command
    PROVE  c.output \in Outputs
<1>1. <<>> \in Outputs
  <2>1. 0 \in 0..MaxLabels
    BY FunnelAssumption
  <2>2. <<>> \in [1..0 -> [count : 0..MaxCount,
                           label : {"passed", "failed", "errors"}]]
    OBVIOUS
  <2>. QED BY <2>1, <2>2 DEF Outputs
<1>2. CASE c \in [timeout : {FALSE}, code : {0, 1}, output : Outputs]
  BY <1>2
<1>3. CASE c = [timeout |-> TRUE, code |-> 1, output |-> <<>>]
  BY <1>1, <1>3
<1>. QED BY <1>2, <1>3 DEF Command

\* One more command has run.
LEMMA RanOneMore ==
    ASSUME ran \in Seq(Command), NEW c \in Command, ran' = Append(ran, c)
    PROVE  /\ ran' \in Seq(Command)
           /\ Len(ran') = Len(ran) + 1
           /\ ran'[Len(ran) + 1] = c
           /\ \A i \in 1..Len(ran) : ran'[i] = ran[i]
BY AppendProperties

\* A stage that passes, if it is not the last one.
LEMMA StagePasses ==
    ASSUME FunnelInv, NEW c \in Command, ran' = Append(ran, c), run_cmd(c),
           \/ stage = "lint" /\ stage' = "typecheck"
           \/ stage = "typecheck" /\ stage' = "targeted_pytest"
           \/ stage = "targeted_pytest" /\ stage' = "full_suite"
    PROVE  FunnelInv'
<1>1. /\ ran' \in Seq(Command) /\ Len(ran') = Len(ran) + 1 /\ Len(ran) \in Nat
      /\ ran'[Len(ran) + 1] = c
      /\ \A i \in 1..Len(ran) : ran'[i] = ran[i]
  BY RanOneMore DEF FunnelInv
<1>2. \A i \in 1..Len(ran) : run_cmd(ran[i])
  BY DEF FunnelInv
<1>3. \A i \in 1..Len(ran') : run_cmd(ran'[i])
  BY <1>1, <1>2
<1>4. Len(ran') = IF stage' = "typecheck" THEN 1
                  ELSE IF stage' = "targeted_pytest" THEN 2 ELSE 3
  BY <1>1 DEF FunnelInv
<1>. QED BY <1>1, <1>3, <1>4 DEF FunnelInv

\* A stage that returns, by failing or as the last one.
LEMMA StageReturns ==
    ASSUME FunnelInv, NEW c \in Command, ran' = Append(ran, c),
           stage' = "returned",
           NEW n \in 1..4, stage = Stages[n],
           run_cmd(c) => n = 4 /\ result'.success = TRUE,
           ~run_cmd(c) => /\ result'.success = FALSE
                         /\ result'.failed_stage = Stages[n]
                         /\ result'.tests_failed \in Nat \ {0},
           n = 4 => result'.full_suite_attempted = TRUE,
           n # 4 => result'.full_suite_attempted = FALSE
    PROVE  FunnelInv'
<1>1. /\ ran' \in Seq(Command) /\ Len(ran') = Len(ran) + 1 /\ Len(ran) \in Nat
      /\ ran'[Len(ran) + 1] = c
      /\ \A i \in 1..Len(ran) : ran'[i] = ran[i]
  BY RanOneMore DEF FunnelInv
<1>2. Len(ran) = n - 1 /\ stage \in {"lint", "typecheck", "targeted_pytest", "full_suite"}
  BY DEF FunnelInv, Stages
<1>3. \A i \in 1..Len(ran) : run_cmd(ran[i])
  BY <1>2 DEF FunnelInv
<1>4. Len(ran') = n /\ ran'[n] = c /\ \A i \in 1..n - 1 : run_cmd(ran'[i])
  BY <1>1, <1>2, <1>3
<1>5. Verdict(n)'
  BY <1>4 DEF Verdict
<1>6. Verdict(Len(ran))'
  BY <1>4, <1>5 DEF Verdict
<1>. QED BY <1>1, <1>6 DEF FunnelInv

LEMMA FunnelStep ==
    ASSUME FunnelInv, FunnelNext \/ UNCHANGED funnelVars
    PROVE  FunnelInv'
<1>1. ASSUME NEW n \in 1..2, StaticStage(Stages[n], Stages[n + 1])
      PROVE  FunnelInv'
  <2>1. PICK c \in Quiet :
           /\ ran' = Append(ran, c)
           /\ IF run_cmd(c) THEN stage' = Stages[n + 1] /\ UNCHANGED result
                            ELSE Return(fail(Stages[n], 0, 999))
    BY <1>1 DEF StaticStage
  <2>2. c \in Command /\ stage = Stages[n]
    BY <1>1, CommandOutput DEF StaticStage, Quiet
  <2>3. CASE run_cmd(c)
    BY <2>1, <2>2, <2>3, StagePasses DEF Stages
  <2>4. CASE ~run_cmd(c)
    <3>1. /\ stage' = "returned"
          /\ result'.success = FALSE
          /\ result'.failed_stage = Stages[n]
          /\ result'.tests_failed = 999
          /\ result'.full_suite_attempted = FALSE
      <4>1. stage' = "returned" /\ result' = fail(Stages[n], 0, 999)
        BY <2>1, <2>2, <2>4 DEF Return
      <4>2. Stages[n] # "full_suite"
        BY DEF Stages
      <4>3. /\ result'.success = FALSE
            /\ result'.failed_stage = Stages[n]
            /\ result'.tests_failed = 999
        BY <4>1 DEF fail
      <4>4. result'.full_suite_attempted = (Stages[n] = "full_suite")
        BY <4>1 DEF fail
      <4>5. result'.full_suite_attempted = FALSE
        BY <4>2, <4>4, Zenon
      <4>. QED BY <4>1, <4>3, <4>5, Zenon
    <3>2. n \in 1..4 /\ n # 4 /\ 999 \in Nat \ {0}
      OBVIOUS
    <3>3. result'.tests_failed \in Nat \ {0}
      BY <3>1, <3>2
    <3>4. ran' = Append(ran, c) /\ stage = Stages[n] /\ c \in Command
      BY <2>1, <2>2
    <3>5. run_cmd(c) => n = 4 /\ result'.success = TRUE
      BY <2>4
    <3>6. ~run_cmd(c) => /\ result'.success = FALSE
                        /\ result'.failed_stage = Stages[n]
                        /\ result'.tests_failed \in Nat \ {0}
      BY <3>1, <3>3, Zenon
    <3>7. /\ n = 4 => result'.full_suite_attempted = TRUE
          /\ n # 4 => result'.full_suite_attempted = FALSE
      <4>1. n # 4
        OBVIOUS
      <4>2. result'.full_suite_attempted = FALSE
        BY <3>1, Zenon
      <4>. QED BY <4>1, <4>2, Zenon
    <3>8. stage' = "returned" /\ n \in 1..4
      BY <3>1, <3>2
    <3>. QED BY <3>4, <3>5, <3>6, <3>7, <3>8, StageReturns, Zenon
  <2>. QED BY <2>3, <2>4
<1>2. CASE TargetedStage
  <2>1. PICK c \in Command :
           /\ ran' = Append(ran, c)
           /\ IF run_cmd(c) THEN stage' = "full_suite" /\ UNCHANGED result
                            ELSE Return(TargetedFailure(c))
    BY <1>2 DEF TargetedStage
  <2>2. /\ stage = "targeted_pytest" /\ Stages[3] = stage
        /\ c.output \in Outputs
    BY <1>2, CommandOutput DEF TargetedStage, Stages
  <2>3. CASE run_cmd(c)
    BY <2>1, <2>2, <2>3, StagePasses
  <2>4. CASE ~run_cmd(c)
    <3>. DEFINE failures == CountOf(c.output, {"failed", "errors"})
    <3>1. failures \in Nat
      BY <2>2, CountIsNatural
    <3>2. TargetedFailure(c) = fail("targeted_pytest", CountOf(c.output, {"passed"}),
                                    OrElse(failures, 1))
      BY DEF TargetedFailure, parse_pytest_counts
    <3>. HIDE DEF failures
    <3>3. OrElse(failures, 1) \in Nat \ {0}
      BY <3>1 DEF OrElse
    <3>4. /\ stage' = "returned"
          /\ result'.success = FALSE
          /\ result'.failed_stage = "targeted_pytest"
          /\ result'.tests_failed = OrElse(failures, 1)
          /\ result'.full_suite_attempted = FALSE
      <4>1. stage' = "returned" /\ result' = TargetedFailure(c)
        BY <2>1, <2>2, <2>4 DEF Return
      <4>2. "targeted_pytest" # "full_suite"
        OBVIOUS
      <4>3. /\ result'.success = FALSE
            /\ result'.failed_stage = "targeted_pytest"
            /\ result'.tests_failed = OrElse(failures, 1)
        BY <3>2, <4>1 DEF fail
      <4>4. result'.full_suite_attempted = ("targeted_pytest" = "full_suite")
        BY <3>2, <4>1 DEF fail
      <4>5. result'.full_suite_attempted = FALSE
        BY <4>2, <4>4, Zenon
      <4>. QED BY <4>1, <4>3, <4>5, Zenon
    <3>5. 3 \in 1..4 /\ 3 # 4
      OBVIOUS
    <3>. QED BY <2>1, <2>2, <2>4, <3>3, <3>4, <3>5, StageReturns, Zenon
  <2>. QED BY <2>3, <2>4
<1>3. CASE FullSuiteStage
  <2>1. PICK c \in Command : ran' = Append(ran, c) /\ Return(FullSuiteVerdict(c))
    BY <1>3 DEF FullSuiteStage
  <2>2. /\ stage = "full_suite" /\ Stages[4] = stage
        /\ c.output \in Outputs
    BY <1>3, CommandOutput DEF FullSuiteStage, Stages
  <2>. DEFINE failures == CountOf(c.output, {"failed", "errors"})
  <2>3. failures \in Nat
    BY <2>2, CountIsNatural
  <2>4. /\ stage' = "returned"
        /\ result'.success = run_cmd(c)
        /\ result'.tests_failed = OrElse(failures, IF run_cmd(c) THEN 0 ELSE 1)
        /\ result'.failed_stage = IF run_cmd(c) THEN "none" ELSE "full_suite"
        /\ result'.full_suite_attempted = TRUE
    BY <2>1 DEF Return, FullSuiteVerdict, parse_pytest_counts
  <2>. HIDE DEF failures
  <2>5. ~run_cmd(c) => OrElse(failures, IF run_cmd(c) THEN 0 ELSE 1) \in Nat \ {0}
    BY <2>3 DEF OrElse
  <2>6. 4 \in 1..4
    OBVIOUS
  <2>7. CASE run_cmd(c)
    <3>1. result'.success = TRUE
      BY <2>2, <2>4, <2>7 DEF run_cmd
    <3>. QED BY <2>1, <2>2, <2>4, <2>6, <2>7, <3>1, StageReturns, Zenon
  <2>8. CASE ~run_cmd(c)
    <3>1. /\ result'.success = FALSE
          /\ result'.failed_stage = "full_suite"
          /\ result'.tests_failed \in Nat \ {0}
      BY <2>2, <2>4, <2>5, <2>8 DEF run_cmd
    <3>. QED BY <2>1, <2>2, <2>4, <2>6, <2>8, <3>1, StageReturns, Zenon
  <2>. QED BY <2>7, <2>8
<1>4. CASE UNCHANGED funnelVars
  BY <1>4 DEF funnelVars, FunnelInv, Verdict
<1>5. /\ Stages[1] = "lint" /\ Stages[2] = "typecheck"
      /\ Stages[3] = "targeted_pytest"
  BY DEF Stages
<1>6. StaticStage("lint", "typecheck") => StaticStage(Stages[1], Stages[2])
  BY <1>5
<1>7. StaticStage("typecheck", "targeted_pytest") => StaticStage(Stages[2], Stages[3])
  BY <1>5
<1>. QED BY <1>1, <1>2, <1>3, <1>4, <1>6, <1>7 DEF FunnelNext

LEMMA VerdictFollows == FunnelInv => VerdictMatchesExitCodes
<1>. SUFFICES ASSUME FunnelInv, stage = "returned" PROVE VerdictMatchesExitCodes
  BY DEF VerdictMatchesExitCodes
<1>. DEFINE bad == {i \in DOMAIN ran : ran[i].timeout \/ ran[i].code # 0}
            n == Len(ran)
<1>1. ran \in Seq(Command) /\ Verdict(n)
  BY DEF FunnelInv
<1>2. DOMAIN ran = 1..n /\ n \in 1..4
  BY <1>1 DEF Verdict
<1>3. bad = {i \in 1..n : ~run_cmd(ran[i])}
  BY <1>2 DEF run_cmd
<1>. HIDE DEF n, bad
<1>4. CASE run_cmd(ran[n])
  <2>1. bad = {} /\ n = 4 /\ result.success = TRUE
    BY <1>1, <1>2, <1>3, <1>4 DEF Verdict
  <2>. QED BY <1>1, <2>1 DEF Verdict, VerdictMatchesExitCodes, bad, n
<1>5. CASE ~run_cmd(ran[n])
  <2>1. bad = {n} /\ result.success = FALSE
    BY <1>1, <1>2, <1>3, <1>5 DEF Verdict
  <2>2. result.failed_stage = Stages[n] /\ result.tests_failed > 0
    BY <1>1, <1>5 DEF Verdict
  <2>3. result.full_suite_attempted = (n = 4)
    BY <1>1 DEF Verdict
  <2>4. bad # {}
    BY <2>1
  <2>. QED BY <2>1, <2>2, <2>3, <2>4 DEF VerdictMatchesExitCodes, bad, n
<1>. QED BY <1>4, <1>5

LEMMA FunnelBegins == FunnelInit \/ FunnelIdle => FunnelInv
<1>. SUFFICES ASSUME FunnelInit \/ FunnelIdle PROVE FunnelInv
  OBVIOUS
<1>1. ran = <<>> /\ stage \in {"lint", "idle"}
  BY DEF FunnelInit, FunnelIdle
<1>2. ran \in Seq(Command) /\ Len(ran) = 0
  BY <1>1
<1>. QED BY <1>1, <1>2 DEF FunnelInv

\* The verdict of funnel.py is success exactly when all four commands ran and
\* exited with 0 in time, and otherwise names the first one that did not and
\* reports a failed test: for outputs with any number of counts of any size.
THEOREM FunnelVerdict == Spec => []VerdictMatchesExitCodes
<1>1. Init => FunnelInv
  BY FunnelBegins DEF Init
<1>2. FunnelInv /\ [Next]_vars => FunnelInv'
  BY FunnelStep DEF Next, vars
<1>. QED BY <1>1, <1>2, VerdictFollows, PTL DEF Spec

-----------------------------------------------------------------------------
(* Audit: which children may be alive, and which of them the finally       *)
(* clause knows, at each place of main                                     *)

ChildState == {"none", "running", "terminating", "exited", "killed"}

\* Places from which the finally clause is still to come.
InTry == {"health", "seed", "wait", "collect", "dashboard", "write", "terminate"}

AuditTypeOK ==
    /\ child \in [Child -> ChildState]
    /\ handles \subseteq Child
    /\ next \in Nat
    /\ pc \in BeforeTry \cup InTry \cup {"join", "ended", "idle"}
    /\ failed \in BeforeTry \cup InTry \cup {"nowhere", "log"}

\* Before the try statement nothing else has failed; from there on, failed is
\* where the body raised.
FailedInv ==
    /\ pc \in BeforeTry \cup {"idle"} => failed = "nowhere"
    /\ pc \in InTry \cup {"join"} => failed \notin BeforeTry \cup {"log"}

\* The child that the current step of start_daemons may have started without
\* having put it into its list.
Unlisted == IF pc = "poll" THEN {Services[next]} ELSE {}

ChildInv ==
    /\ pc \in Ready \cup {"simulator", "idle"} => \A p \in Child : ~Alive(p)
    /\ pc = "key" => \A p \in Child \ {Simulator} : ~Alive(p)
    /\ pc \in {"spawn", "poll"} \cup InTry \cup {"join"} =>
          \A p \in Child : Alive(p) => p \in handles \cup Unlisted
    /\ pc = "poll" => next \in DOMAIN Services
    /\ pc = "join" => \A p \in Child : child[p] # "running"
    /\ pc = "ended" =>
          /\ failed \notin BeforeTry \cup {"log"} => \A p \in Child : ~Alive(p)
          /\ failed \notin {"log", "spawn", "poll"} => \A p \in Child : child[p] # "running"

AuditInv == AuditTypeOK /\ FailedInv /\ ChildInv

LEMMA AuditPrograms ==
    /\ Simulator \in Child
    /\ \A i \in DOMAIN Services : Services[i] \in Child
BY DEF Child

\* One child's process changes, and nobody else's.
LEMMA ChildChanges ==
    ASSUME child \in [Child -> ChildState], NEW q \in Child, NEW s \in ChildState,
           child' = [child EXCEPT ![q] = s]
    PROVE  /\ child' \in [Child -> ChildState]
           /\ child'[q] = s
           /\ \A p \in Child \ {q} : child'[p] = child[p] /\ (Alive(p)' <=> Alive(p))
           /\ Alive(q)' <=> s \in {"running", "terminating"}
BY DEF Alive

\* A child that exits, or that its parent tells to stop, is no hazard.
LEMMA FewerAlive ==
    ASSUME AuditInv, child' \in [Child -> ChildState],
           \A p \in Child : /\ Alive(p)' => Alive(p)
                            /\ child'[p] = "running" => child[p] = "running",
           UNCHANGED <<pc, handles, next, failed>>
    PROVE  AuditInv'
<1>1. AuditTypeOK' /\ FailedInv'
  BY DEF AuditInv, AuditTypeOK, FailedInv
<1>2. Unlisted' = Unlisted
  BY DEF Unlisted
<1>3. ChildInv'
  BY <1>2 DEF AuditInv, ChildInv
<1>. QED BY <1>1, <1>3 DEF AuditInv

\* Main leaves a place of the try statement for another one, by raising or not.
LEMMA StaysInTry ==
    ASSUME AuditInv, pc \in InTry, pc' \in InTry,
           failed' \in {failed, pc}, next' \in Nat,
           UNCHANGED <<child, handles>>
    PROVE  AuditInv'
<1>1. AuditTypeOK'
  BY DEF AuditInv, AuditTypeOK
<1>2. FailedInv'
  BY DEF AuditInv, FailedInv, InTry, BeforeTry, Ready
<1>3. Unlisted = {} /\ Unlisted' = {}
  BY DEF Unlisted, InTry
<1>4. \A p \in Child : Alive(p)' <=> Alive(p)
  BY DEF Alive
<1>5. ChildInv'
  BY <1>3, <1>4 DEF AuditInv, ChildInv, InTry, Ready
<1>. QED BY <1>1, <1>2, <1>5 DEF AuditInv

LEMMA PrepareKeeps == AuditInv /\ Prepare => AuditInv'
<1>. SUFFICES ASSUME AuditInv, Prepare PROVE AuditInv'
  OBVIOUS
<1>. USE DEF Prepare
<1>1. /\ UNCHANGED <<child, handles, next>>
      /\ pc \in Ready /\ pc \notin InTry /\ pc \in BeforeTry
      /\ \/ pc' \in Ready \cup {"simulator"} /\ failed' = failed
         \/ pc' = "ended" /\ failed' = pc
  BY DEF Raise, Goto, Ready, BeforeTry, InTry
<1>2. \A p \in Child : ~Alive(p)
  BY <1>1 DEF AuditInv, ChildInv
<1>3. \A p \in Child : ~Alive(p)' /\ child'[p] # "running"
  BY <1>1, <1>2 DEF Alive
<1>4. AuditTypeOK'
  BY <1>1 DEF AuditInv, AuditTypeOK, BeforeTry
<1>5. FailedInv' /\ ChildInv'
  BY <1>1, <1>3 DEF AuditInv, FailedInv, ChildInv, BeforeTry, InTry, Ready
<1>. QED BY <1>4, <1>5 DEF AuditInv

\* Main raises at a place where nothing is said about the children.
LEMMA RaisesEarly ==
    ASSUME AuditInv, child' \in [Child -> ChildState], pc' = "ended",
           failed' \in {"log", "spawn"}, UNCHANGED <<handles, next>>
    PROVE  AuditInv'
<1>1. AuditTypeOK'
  BY DEF AuditInv, AuditTypeOK, BeforeTry
<1>2. FailedInv' /\ ChildInv'
  BY DEF FailedInv, ChildInv, BeforeTry, InTry, Ready
<1>. QED BY <1>1, <1>2 DEF AuditInv

LEMMA StartSimulatorKeeps == AuditInv /\ StartSimulator => AuditInv'
<1>. SUFFICES ASSUME AuditInv, StartSimulator PROVE AuditInv'
  OBVIOUS
<1>1. /\ pc = "simulator" /\ "simulator" \in BeforeTry /\ UNCHANGED <<handles, next>>
      /\ child \in [Child -> ChildState]
      /\ \A p \in Child : ~Alive(p)
  BY DEF StartSimulator, AuditInv, AuditTypeOK, ChildInv, BeforeTry
<1>2. Spawn(Simulator) => /\ child' \in [Child -> ChildState]
                          /\ \A p \in Child \ {Simulator} : ~Alive(p)'
  BY <1>1, AuditPrograms, ChildChanges DEF ChildState, Spawn
<1>3. CASE Spawn(Simulator) /\ Goto("key") /\ UNCHANGED failed
  <2>1. AuditTypeOK'
    BY <1>1, <1>2, <1>3 DEF AuditInv, AuditTypeOK, BeforeTry, Goto
  <2>2. FailedInv' /\ ChildInv'
    BY <1>1, <1>2, <1>3
    DEF AuditInv, FailedInv, ChildInv, BeforeTry, InTry, Ready, Goto
  <2>. QED BY <2>1, <2>2 DEF AuditInv
<1>4. CASE Spawn(Simulator) /\ LogFails
  BY <1>1, <1>2, <1>4, RaisesEarly DEF LogFails, Goto
<1>5. CASE Raise /\ UNCHANGED child
  <2>1. pc' = "ended" /\ failed' = "simulator"
    BY <1>1, <1>5 DEF Raise, Goto
  <2>2. \A p \in Child : ~Alive(p)' /\ child'[p] # "running"
    BY <1>1, <1>5 DEF Alive
  <2>3. AuditTypeOK'
    BY <1>1, <1>5, <2>1 DEF AuditInv, AuditTypeOK
  <2>4. FailedInv' /\ ChildInv'
    BY <1>1, <2>1, <2>2 DEF FailedInv, ChildInv, BeforeTry, InTry, Ready
  <2>. QED BY <2>3, <2>4 DEF AuditInv
<1>. QED BY <1>3, <1>4, <1>5 DEF StartSimulator

LEMMA ReadLineKeeps == AuditInv /\ ReadLine => AuditInv'
<1>. SUFFICES ASSUME AuditInv, ReadLine PROVE AuditInv'
  OBVIOUS
<1>1. pc = "key" /\ UNCHANGED next /\ failed = "nowhere" /\ "key" \in BeforeTry
      /\ child \in [Child -> ChildState]
      /\ \A p \in Child \ {Simulator} : ~Alive(p)
  BY DEF ReadLine, AuditInv, AuditTypeOK, FailedInv, ChildInv, BeforeTry
<1>2. CASE handles' = {Simulator} /\ pc' = "spawn" /\ UNCHANGED <<child, failed>>
  <2>1. \A p \in Child : Alive(p)' => p \in handles'
    BY <1>1, <1>2 DEF Alive
  <2>2. AuditTypeOK'
    BY <1>1, <1>2, AuditPrograms DEF AuditInv, AuditTypeOK, BeforeTry
  <2>3. FailedInv' /\ ChildInv'
    BY <1>1, <1>2, <2>1 DEF AuditInv, FailedInv, ChildInv, BeforeTry, InTry, Ready
  <2>. QED BY <2>2, <2>3 DEF AuditInv
<1>3. CASE UNCHANGED <<pc, child, handles, failed>>
  BY <1>1, <1>3, FewerAlive DEF Alive
<1>4. CASE /\ child' = [child EXCEPT ![Simulator] =
                           IF @ = "running" THEN "terminating" ELSE @]
           /\ UNCHANGED handles /\ failed' = "key" /\ pc' = "ended"
  <2>. DEFINE s == IF child[Simulator] = "running" THEN "terminating"
                   ELSE child[Simulator]
  <2>1. s \in ChildState /\ s # "running" /\ child' = [child EXCEPT ![Simulator] = s]
    BY <1>1, <1>4, AuditPrograms DEF ChildState
  <2>2. /\ child' \in [Child -> ChildState]
        /\ child'[Simulator] = s
        /\ \A p \in Child \ {Simulator} : child'[p] = child[p]
    BY <1>1, <2>1, AuditPrograms, ChildChanges
  <2>3. \A p \in Child : child'[p] # "running"
    BY <1>1, <2>1, <2>2 DEF Alive
  <2>4. AuditTypeOK'
    BY <1>1, <1>4, <2>2 DEF AuditInv, AuditTypeOK, BeforeTry
  <2>5. FailedInv' /\ ChildInv'
    BY <1>1, <1>4, <2>3 DEF AuditInv, FailedInv, ChildInv, BeforeTry, InTry, Ready
  <2>. QED BY <2>4, <2>5 DEF AuditInv
<1>5. CASE ~Alive(Simulator) /\ UNCHANGED <<child, handles>>
           /\ failed' = "key" /\ pc' = "ended"
  <2>1. \A p \in Child : child'[p] # "running"
    BY <1>1, <1>5 DEF Alive
  <2>2. AuditTypeOK'
    BY <1>1, <1>5 DEF AuditInv, AuditTypeOK, BeforeTry
  <2>3. FailedInv' /\ ChildInv'
    BY <1>1, <1>5, <2>1 DEF AuditInv, FailedInv, ChildInv, BeforeTry, InTry, Ready
  <2>. QED BY <2>2, <2>3 DEF AuditInv
<1>6. CASE LogFails /\ UNCHANGED <<child, handles>>
  BY <1>1, <1>6, RaisesEarly DEF LogFails, Goto
<1>. QED BY <1>1, <1>2, <1>3, <1>4, <1>5, <1>6 DEF ReadLine, Raise, Goto

LEMMA StartDaemonKeeps == AuditInv /\ StartDaemon => AuditInv'
<1>. SUFFICES ASSUME AuditInv, StartDaemon PROVE AuditInv'
  OBVIOUS
<1>1. /\ pc = "spawn" /\ UNCHANGED handles /\ failed = "nowhere"
      /\ child \in [Child -> ChildState] /\ next \in Nat
      /\ \A p \in Child : Alive(p) => p \in handles
  BY DEF StartDaemon, AuditInv, AuditTypeOK, FailedInv, ChildInv, BeforeTry, Unlisted
<1>2. CASE /\ next \in DOMAIN Services /\ Spawn(Services[next]) /\ Goto("poll")
           /\ UNCHANGED <<next, failed>>
  <2>1. /\ child' \in [Child -> ChildState]
        /\ \A p \in Child \ {Services[next]} : Alive(p)' <=> Alive(p)
    BY <1>1, <1>2, AuditPrograms, ChildChanges DEF Spawn, ChildState
  <2>2. pc' = "poll" /\ Unlisted' = {Services[next]}
    BY <1>2 DEF Goto, Unlisted
  <2>3. \A p \in Child : Alive(p)' => p \in handles' \cup Unlisted'
    BY <1>1, <2>1, <2>2
  <2>4. AuditTypeOK'
    BY <1>1, <1>2, <2>1, <2>2 DEF AuditInv, AuditTypeOK, BeforeTry
  <2>5. FailedInv' /\ ChildInv'
    BY <1>1, <1>2, <2>2, <2>3 DEF FailedInv, ChildInv, BeforeTry, InTry, Ready
  <2>. QED BY <2>4, <2>5 DEF AuditInv
<1>3. CASE next' = 1 /\ Goto("health") /\ UNCHANGED <<child, failed>>
  <2>1. pc' = "health" /\ \A p \in Child : Alive(p)' => p \in handles'
    BY <1>1, <1>3 DEF Goto, Alive
  <2>2. AuditTypeOK'
    BY <1>1, <1>3, <2>1 DEF AuditInv, AuditTypeOK, InTry
  <2>3. FailedInv' /\ ChildInv'
    BY <1>1, <1>3, <2>1 DEF FailedInv, ChildInv, BeforeTry, InTry, Ready
  <2>. QED BY <2>2, <2>3 DEF AuditInv
<1>4. CASE /\ next \in DOMAIN Services
           /\ UNCHANGED child \/ Spawn(Services[next])
           /\ Raise /\ UNCHANGED next
  <2>1. child' \in [Child -> ChildState]
    BY <1>1, <1>4, AuditPrograms, ChildChanges DEF Spawn, ChildState
  <2>2. pc' = "ended" /\ failed' = "spawn"
    BY <1>1, <1>4 DEF Raise, Goto, BeforeTry
  <2>. QED BY <1>1, <1>4, <2>1, <2>2, RaisesEarly
<1>. QED BY <1>2, <1>3, <1>4 DEF StartDaemon

LEMMA PollDaemonKeeps == AuditInv /\ PollDaemon => AuditInv'
<1>. SUFFICES ASSUME AuditInv, PollDaemon PROVE AuditInv'
  OBVIOUS
<1>1. /\ pc = "poll" /\ UNCHANGED child /\ failed = "nowhere"
      /\ child \in [Child -> ChildState] /\ next \in Nat /\ next \in DOMAIN Services
      /\ \A p \in Child : Alive(p) => p \in handles \cup {Services[next]}
      /\ "poll" \in BeforeTry
  BY DEF PollDaemon, AuditInv, AuditTypeOK, FailedInv, ChildInv, BeforeTry, Unlisted
<1>2. CASE /\ handles' = handles \cup {Services[next]} /\ next' = next + 1
           /\ Goto("spawn") /\ UNCHANGED failed
  <2>1. pc' = "spawn" /\ \A p \in Child : Alive(p)' => p \in handles'
    BY <1>1, <1>2 DEF Goto, Alive
  <2>2. AuditTypeOK'
    BY <1>1, <1>2, <2>1, AuditPrograms DEF AuditInv, AuditTypeOK, BeforeTry
  <2>3. FailedInv' /\ ChildInv'
    BY <1>1, <1>2, <2>1 DEF FailedInv, ChildInv, BeforeTry, InTry, Ready
  <2>. QED BY <2>2, <2>3 DEF AuditInv
<1>3. CASE Raise /\ UNCHANGED <<handles, next>>
  <2>1. pc' = "ended" /\ failed' = "poll"
    BY <1>1, <1>3 DEF Raise, Goto
  <2>2. AuditTypeOK'
    BY <1>1, <1>3, <2>1 DEF AuditInv, AuditTypeOK
  <2>3. FailedInv' /\ ChildInv'
    BY <1>1, <2>1 DEF FailedInv, ChildInv, BeforeTry, InTry, Ready
  <2>. QED BY <2>2, <2>3 DEF AuditInv
<1>. QED BY <1>2, <1>3 DEF PollDaemon

\* The steps of the try statement's body.
LEMMA BodyKeeps ==
    ASSUME AuditInv,
           \/ WaitForHttp \/ seed_task \/ wait_for_terminal_task
           \/ collect_fixture_metrics \/ WriteReport \/ QueryFails
    PROVE  AuditInv'
<1>1. next \in Nat
  BY DEF AuditInv, AuditTypeOK
<1>2. UNCHANGED <<child, handles>> /\ pc \in InTry
  BY DEF WaitForHttp, seed_task, wait_for_terminal_task, collect_fixture_metrics,
     WriteReport, QueryFails, bodyFrame, InTry
<1>3. next' \in Nat
  BY <1>1 DEF WaitForHttp, seed_task, wait_for_terminal_task,
     collect_fixture_metrics, WriteReport, QueryFails
<1>4. Raise => pc' \in InTry /\ failed' = pc
  BY <1>2 DEF Raise, Goto, InTry, BeforeTry, Ready
<1>5. pc' \in InTry /\ failed' \in {failed, pc}
  BY <1>4 DEF WaitForHttp, seed_task, wait_for_terminal_task,
     collect_fixture_metrics, WriteReport, QueryFails, Goto, InTry
<1>. QED BY <1>2, <1>3, <1>5, StaysInTry

LEMMA TerminateKeeps == AuditInv /\ Terminate => AuditInv'
<1>. SUFFICES ASSUME AuditInv, Terminate PROVE AuditInv'
  OBVIOUS
<1>1. /\ pc = "terminate" /\ pc' = "join" /\ UNCHANGED <<handles, next, failed>>
      /\ child' = [p \in Child |-> IF p \in handles /\ child[p] = "running"
                                   THEN "terminating" ELSE child[p]]
  BY DEF Terminate, Goto
<1>2. /\ failed \notin BeforeTry \cup {"log"} /\ child \in [Child -> ChildState]
      /\ \A p \in Child : Alive(p) => p \in handles
  BY <1>1 DEF AuditInv, AuditTypeOK, FailedInv, ChildInv, InTry, Unlisted
<1>3. /\ child' \in [Child -> ChildState]
      /\ \A p \in Child : (Alive(p)' => p \in handles) /\ child'[p] # "running"
  BY <1>1, <1>2 DEF Alive, ChildState
<1>4. AuditTypeOK'
  BY <1>1, <1>3 DEF AuditInv, AuditTypeOK
<1>5. FailedInv' /\ ChildInv'
  BY <1>1, <1>2, <1>3 DEF FailedInv, ChildInv, BeforeTry, InTry, Ready
<1>. QED BY <1>4, <1>5 DEF AuditInv

LEMMA JoinKeeps == AuditInv /\ Join => AuditInv'
<1>. SUFFICES ASSUME AuditInv, Join PROVE AuditInv'
  OBVIOUS
<1>1. /\ pc = "join" /\ pc' = "ended" /\ UNCHANGED <<handles, next, failed>>
      /\ child' = [p \in Child |-> IF p \in handles /\ Alive(p)
                                   THEN "killed" ELSE child[p]]
  BY DEF Join, Goto
<1>2. /\ failed \notin BeforeTry \cup {"log"} /\ child \in [Child -> ChildState]
      /\ \A p \in Child : Alive(p) => p \in handles
  BY <1>1 DEF AuditInv, AuditTypeOK, FailedInv, ChildInv, Unlisted
<1>3. /\ child' \in [Child -> ChildState]
      /\ \A p \in Child : ~Alive(p)' /\ child'[p] # "running"
  BY <1>1, <1>2 DEF Alive, ChildState
<1>4. AuditTypeOK'
  BY <1>1, <1>3 DEF AuditInv, AuditTypeOK
<1>5. FailedInv' /\ ChildInv'
  BY <1>1, <1>3 DEF FailedInv, ChildInv, BeforeTry, InTry, Ready
<1>. QED BY <1>4, <1>5 DEF AuditInv

LEMMA EnvironmentKeeps == AuditInv /\ Environment => AuditInv'
<1>. SUFFICES ASSUME AuditInv, Environment PROVE AuditInv'
  OBVIOUS
<1>0. child \in [Child -> ChildState]
  BY DEF AuditInv, AuditTypeOK
<1>1. CASE \/ DeadlinePasses \/ CallHangs \/ SimulatorPrints
           \/ (\E f \in Fixture : TaskMoves(f))
  <2>1. UNCHANGED <<pc, child, handles, next, failed>>
    BY <1>1 DEF DeadlinePasses, CallHangs, SimulatorPrints, TaskMoves
  <2>. QED BY <1>0, <2>1, FewerAlive DEF Alive
<1>2. ASSUME NEW q \in Child, ChildExits(q) \/ ChildObeys(q)
      PROVE  AuditInv'
  <2>1. /\ child' = [child EXCEPT ![q] = "exited"]
        /\ UNCHANGED <<pc, handles, next, failed>>
    BY <1>2 DEF ChildExits, ChildObeys
  <2>2. /\ child' \in [Child -> ChildState]
        /\ \A p \in Child \ {q} : child'[p] = child[p] /\ (Alive(p)' <=> Alive(p))
        /\ child'[q] = "exited" /\ ~Alive(q)'
    BY <1>0, <2>1, ChildChanges DEF ChildState
  <2>. QED BY <2>1, <2>2, FewerAlive
<1>. QED BY <1>1, <1>2 DEF Environment

LEMMA AuditStep ==
    ASSUME AuditInv, AuditNext \/ UNCHANGED auditVars
    PROVE  AuditInv'
<1>1. CASE main
  BY <1>1, PrepareKeeps, StartSimulatorKeeps, ReadLineKeeps, StartDaemonKeeps,
     PollDaemonKeeps, BodyKeeps, TerminateKeeps, JoinKeeps DEF main, Step
<1>2. CASE QueryFails \/ Environment
  BY <1>2, BodyKeeps, EnvironmentKeeps
<1>3. CASE UNCHANGED auditVars
  BY <1>3, FewerAlive DEF auditVars, Alive, AuditInv, AuditTypeOK
<1>. QED BY <1>1, <1>2, <1>3 DEF AuditNext

LEMMA AuditBegins == AuditInit \/ AuditIdle => AuditInv
<1>. SUFFICES ASSUME AuditInit \/ AuditIdle PROVE AuditInv
  OBVIOUS
<1>1. /\ pc \in {"infra", "idle"} /\ handles = {} /\ next = 1 /\ failed = "nowhere"
      /\ child = [p \in Child |-> "none"]
  BY DEF AuditInit, AuditIdle
<1>2. /\ child \in [Child -> ChildState]
      /\ \A p \in Child : ~Alive(p)
  BY <1>1 DEF Alive, ChildState
<1>3. AuditTypeOK
  BY <1>1, <1>2 DEF AuditTypeOK, BeforeTry, Ready
<1>4. FailedInv /\ ChildInv
  BY <1>1, <1>2 DEF FailedInv, ChildInv, BeforeTry, InTry, Ready
<1>. QED BY <1>3, <1>4 DEF AuditInv

\* However the audit script ends, a child of it is left only if an exception
\* was raised before the try statement, and one that nobody told to stop only
\* if start_daemons raised or the simulator's log failed; for any list of
\* daemons, and whichever of them exit, hang or ignore SIGTERM.
THEOREM AuditLeavesNoChild == Spec => []NoChildLeftBehind
<1>1. Init => AuditInv
  BY AuditBegins DEF Init
<1>2. AuditInv /\ [Next]_vars => AuditInv'
  BY AuditStep DEF Next, vars
<1>3. AuditInv => NoChildLeftBehind
  BY DEF AuditInv, ChildInv, NoChildLeftBehind
<1>. QED BY <1>1, <1>2, <1>3, PTL DEF Spec

-----------------------------------------------------------------------------
(* Statistics: what a definition by recursion yields, for Walk and Total   *)

\* rec[<<d, f>>] looks only at what f yields below the rank of d.
Grounded(D, V, rank, rec) ==
    \A d \in D : \A f, g \in [D -> V] :
        (\A e \in D : rank[e] < rank[d] => f[e] = g[e])
           => rec[<<d, f>>] = rec[<<d, g>>]

Recursion(D, V, rank, top, rec, start) ==
    /\ rank \in [D -> Nat] /\ top \in Nat /\ \A d \in D : rank[d] < top
    /\ rec \in [D \X [D -> V] -> V] /\ Grounded(D, V, rank, rec)
    /\ start \in [D -> V]

Solves(D, V, rec, f) == f \in [D -> V] /\ \A d \in D : f[d] = rec[<<d, f>>]

\* A recursion along a bounded rank defines a function.
LEMMA RecursionDefines ==
    ASSUME NEW D, NEW V, NEW rank, NEW top, NEW rec, NEW start,
           Recursion(D, V, rank, top, rec, start)
    PROVE  \E f : Solves(D, V, rec, f)
<1>. USE DEF Recursion
<1>. DEFINE Fits(f, n) == \A d \in D : rank[d] < n => f[d] = rec[<<d, f>>]
            N == {n \in Nat : \E f \in [D -> V] : Fits(f, n)}
<1>1. 0 \in N
  <2>1. Fits(start, 0)
    OBVIOUS
  <2>. QED BY <2>1
<1>2. ASSUME NEW n \in N PROVE n + 1 \in N
  <2>1. PICK f \in [D -> V] : Fits(f, n)
    OBVIOUS
  <2>. DEFINE g == [d \in D |-> rec[<<d, f>>]]
  <2>2. g \in [D -> V]
    OBVIOUS
  <2>3. ASSUME NEW d \in D, rank[d] < n + 1
        PROVE  g[d] = rec[<<d, g>>]
    <3>1. \A e \in D : rank[e] < rank[d] => f[e] = g[e]
      BY <2>1, <2>3
    <3>2. rec[<<d, f>>] = rec[<<d, g>>]
      <4>. HIDE DEF g
      <4>. QED BY <2>2, <3>1 DEF Grounded
    <3>. QED BY <3>2
  <2>4. Fits(g, n + 1)
    BY <2>3
  <2>. HIDE DEF g, Fits
  <2>. QED BY <2>2, <2>4
<1>3. N = Nat
  <2>. HIDE DEF N
  <2>1. N \in SUBSET Nat
    BY DEF N
  <2>. QED BY <1>1, <1>2, <2>1, Induction
<1>4. PICK f \in [D -> V] : Fits(f, top)
  BY <1>3
<1>. QED BY <1>4 DEF Solves

\* The walk from a node: the node, and the walk from its parent.
LEMMA WalkStep ==
    /\ Walk \in [Node -> Seq(Node)]
    /\ Walk[Root] = <<Root>>
    /\ \A c \in Cand : Walk[c] = <<c>> \o Walk[Parent[c]]
<1>. DEFINE V == Seq(Node)
            rec == [x \in Node \X [Node -> V] |->
                       IF x[1] = Root THEN <<x[1]>>
                                      ELSE <<x[1]>> \o x[2][Parent[x[1]]]]
<1>1. PICK rank \in [Node -> 0..Cardinality(Cand)] :
         \A c \in Cand : rank[Parent[c]] < rank[c]
  BY StatisticsAssumption
<1>2. Cardinality(Cand) \in Nat
  BY StatisticsAssumption, FS_CardinalityType
<1>3. rank \in [Node -> Nat] /\ \A n \in Node : rank[n] < Cardinality(Cand) + 1
  BY <1>1, <1>2
<1>4. \A n \in Node : n # Root => n \in Cand /\ Parent[n] \in Node
  BY StatisticsAssumption DEF Node
<1>5. rec \in [Node \X [Node -> V] -> V]
  <2>1. ASSUME NEW n \in Node, NEW f \in [Node -> V]
        PROVE  (IF n = Root THEN <<n>> ELSE <<n>> \o f[Parent[n]]) \in V
    BY <1>4
  <2>. HIDE DEF V
  <2>. QED BY <2>1
<1>6. Grounded(Node, V, rank, rec)
  <2>. HIDE DEF V
  <2>1. ASSUME NEW n \in Node, NEW f \in [Node -> V], NEW g \in [Node -> V],
               \A e \in Node : rank[e] < rank[n] => f[e] = g[e]
        PROVE  rec[<<n, f>>] = rec[<<n, g>>]
    <3>1. n # Root => f[Parent[n]] = g[Parent[n]]
      BY <1>1, <1>4, <2>1
    <3>. QED BY <3>1
  <2>. HIDE DEF rec
  <2>. QED BY <2>1, Zenon DEF Grounded
<1>. DEFINE start == [n \in Node |-> <<>>]
            top == Cardinality(Cand) + 1
<1>7. start \in [Node -> V] /\ top \in Nat /\ \A n \in Node : rank[n] < top
  BY <1>2, <1>3
<1>8. PICK f : Solves(Node, V, rec, f)
  <2>. HIDE DEF rec, V, start, top
  <2>1. Recursion(Node, V, rank, top, rec, start)
    BY <1>3, <1>5, <1>6, <1>7 DEF Recursion
  <2>. QED BY <2>1, RecursionDefines, Zenon
<1>9. f = [n \in Node |-> IF n = Root THEN <<n>> ELSE <<n>> \o f[Parent[n]]]
  BY <1>8 DEF Solves
<1>10. Walk = [n \in Node |-> IF n = Root THEN <<n>> ELSE <<n>> \o Walk[Parent[n]]]
  BY <1>9, Zenon DEF Walk
<1>. HIDE DEF rec, V, start, top
<1>11. /\ \A n \in Node : n # Root => Walk[n] = <<n>> \o Walk[Parent[n]]
       /\ Walk[Root] = <<Root>> /\ Root \in Node
  BY <1>10 DEF Node
<1>12. \A n \in Node : Walk[n] \in Seq(Node)
  <2>. DEFINE N == {k \in Nat : \A n \in Node : rank[n] < k => Walk[n] \in Seq(Node)}
  <2>1. 0 \in N
    BY <1>3
  <2>2. ASSUME NEW k \in N PROVE k + 1 \in N
    <3>. SUFFICES ASSUME NEW n \in Node, rank[n] < k + 1 PROVE Walk[n] \in Seq(Node)
      OBVIOUS
    <3>1. CASE n = Root
      <4>1. <<Root>> \in Seq(Node)
        BY <1>11
      <4>. QED BY <1>11, <3>1, <4>1
    <3>2. CASE n # Root
      <4>1. rank[Parent[n]] < k /\ Parent[n] \in Node
        BY <1>1, <1>3, <1>4, <3>2
      <4>2. Walk[Parent[n]] \in Seq(Node)
        BY <4>1
      <4>3. <<n>> \o Walk[Parent[n]] \in Seq(Node)
        BY <4>2
      <4>. QED BY <1>11, <3>2, <4>3, Zenon
    <3>. QED BY <3>1, <3>2
  <2>3. N = Nat
    <3>. HIDE DEF N
    <3>1. N \in SUBSET Nat
      BY DEF N
    <3>. QED BY <2>1, <2>2, <3>1, Induction
  <2>4. \A n \in Node : rank[n] + 1 \in N
    BY <1>3, <2>3
  <2>. QED BY <1>3, <2>4
<1>13. Walk = [n \in Node |-> Walk[n]]
  <2>1. \A h : h = [n \in Node |-> IF n = Root THEN <<n>> ELSE <<n>> \o h[Parent[n]]]
               => h = [n \in Node |-> h[n]]
    OBVIOUS
  <2>. QED BY <1>10, <2>1
<1>14. \A c \in Cand : c \in Node /\ c # Root
  BY StatisticsAssumption DEF Node
<1>. QED BY <1>11, <1>12, <1>13, <1>14

\* Every walk ends at the root.
LEMMA WalkReachesRoot == \A n \in Node : Contains(Ancestors(n), Root)
<1>1. PICK rank \in [Node -> 0..Cardinality(Cand)] :
         \A c \in Cand : rank[Parent[c]] < rank[c]
  BY StatisticsAssumption
<1>2. Cardinality(Cand) \in Nat
  BY StatisticsAssumption, FS_CardinalityType
<1>3. rank \in [Node -> Nat]
  BY <1>1, <1>2
<1>4. \A n \in Node : n # Root => n \in Cand /\ Parent[n] \in Node
  BY StatisticsAssumption DEF Node
<1>. DEFINE N == {k \in Nat : \A n \in Node : rank[n] < k => Contains(Walk[n], Root)}
<1>5. 0 \in N
  BY <1>3
<1>6. ASSUME NEW k \in N PROVE k + 1 \in N
  <2>. SUFFICES ASSUME NEW n \in Node, rank[n] < k + 1 PROVE Contains(Walk[n], Root)
    OBVIOUS
  <2>1. CASE n = Root
    BY <2>1, WalkStep DEF Contains
  <2>2. CASE n # Root
    <3>1. rank[Parent[n]] < k /\ Parent[n] \in Node /\ n \in Cand
      BY <1>1, <1>3, <1>4, <2>2
    <3>. DEFINE w == Walk[Parent[n]]
    <3>2. w \in Seq(Node) /\ Walk[n] = <<n>> \o w
      BY <3>1, WalkStep
    <3>3. PICK i \in 1..Len(w) : w[i] = Root
      BY <3>1 DEF Contains
    <3>. HIDE DEF w
    <3>4. i + 1 \in 1..Len(Walk[n]) /\ Walk[n][i + 1] = Root
      BY <3>2, <3>3
    <3>. QED BY <3>4 DEF Contains
  <2>. QED BY <2>1, <2>2
<1>7. N = Nat
  <2>. HIDE DEF N
  <2>1. N \in SUBSET Nat
    BY DEF N
  <2>. QED BY <1>5, <1>6, <2>1, Induction
<1>8. \A n \in Node : rank[n] + 1 \in N
  BY <1>3, <1>7
<1>. QED BY <1>3, <1>8 DEF Ancestors

\* The sums of the beginnings of a sequence, of which the last is its total.
PrefixSums(s, f) ==
    /\ f \in [0..Len(s) -> Int]
    /\ f[0] = 0
    /\ \A i \in 1..Len(s) : f[i] = f[i - 1] + s[i]

LEMMA TotalIsLastSum ==
    ASSUME NEW s \in Seq(Int)
    PROVE  \E f : PrefixSums(s, f) /\ Total(s) = f[Len(s)]
<1>. DEFINE D == 0..Len(s)
            rec == [x \in D \X [D -> Int] |->
                      IF x[1] = 0 THEN 0 ELSE x[2][x[1] - 1] + s[x[1]]]
            rank == [i \in D |-> i]
            top == Len(s) + 1
            start == [i \in D |-> 0]
<1>0. Len(s) \in Nat /\ \A i \in 1..Len(s) : s[i] \in Int
  OBVIOUS
<1>1. rec \in [D \X [D -> Int] -> Int]
  <2>1. ASSUME NEW i \in D, NEW f \in [D -> Int]
        PROVE  (IF i = 0 THEN 0 ELSE f[i - 1] + s[i]) \in Int
    <3>1. i # 0 => i - 1 \in D /\ s[i] \in Int
      BY <1>0
    <3>2. i # 0 => f[i - 1] \in Int
      <4>. HIDE DEF D
      <4>. QED BY <3>1
    <3>. QED BY <3>1, <3>2
  <2>. HIDE DEF D
  <2>. QED BY <2>1
<1>2. Grounded(D, Int, rank, rec)
  <2>1. ASSUME NEW i \in D, NEW f \in [D -> Int], NEW g \in [D -> Int],
               \A j \in D : rank[j] < rank[i] => f[j] = g[j]
        PROVE  rec[<<i, f>>] = rec[<<i, g>>]
    <3>1. i # 0 => f[i - 1] = g[i - 1]
      BY <1>0, <2>1
    <3>. HIDE DEF D
    <3>. QED BY <3>1
  <2>. HIDE DEF rec, D, rank
  <2>. QED BY <2>1, Zenon DEF Grounded
<1>3. /\ rank \in [D -> Nat] /\ top \in Nat /\ start \in [D -> Int]
      /\ \A i \in D : rank[i] < top
  BY <1>0
<1>4. PICK f : Solves(D, Int, rec, f)
  <2>. HIDE DEF rec, D, rank, start, top
  <2>1. Recursion(D, Int, rank, top, rec, start)
    BY <1>1, <1>2, <1>3 DEF Recursion
  <2>. QED BY <2>1, RecursionDefines, Zenon
<1>5. f = [i \in 0..Len(s) |-> IF i = 0 THEN 0 ELSE f[i - 1] + s[i]]
  <2>1. f \in [D -> Int] /\ \A i \in D : f[i] = rec[<<i, f>>]
    BY <1>4 DEF Solves
  <2>2. \A i \in D : f[i] = IF i = 0 THEN 0 ELSE f[i - 1] + s[i]
    <3>. HIDE DEF D
    <3>. QED BY <2>1
  <2>. QED BY <2>1, <2>2
<1>. HIDE DEF rec, D, rank, start, top
<1>6. PICK g : g = CHOOSE h : h = [i \in 0..Len(s) |-> IF i = 0 THEN 0 ELSE h[i - 1] + s[i]]
  OBVIOUS
<1>7. g = [i \in 0..Len(s) |-> IF i = 0 THEN 0 ELSE g[i - 1] + s[i]]
  BY <1>5, <1>6, Zenon
<1>8. Total(s) = g[Len(s)]
  BY <1>6, Zenon DEF Total
<1>9. g[0] = 0 /\ \A i \in 1..Len(s) : g[i] = g[i - 1] + s[i]
  BY <1>0, <1>7
<1>. DEFINE N == {n \in Nat : n \in 0..Len(s) => g[n] \in Int}
<1>10. N = Nat
  <2>1. 0 \in N
    BY <1>9
  <2>2. ASSUME NEW n \in N PROVE n + 1 \in N
    <3>. SUFFICES ASSUME n + 1 \in 0..Len(s) PROVE g[n + 1] \in Int
      OBVIOUS
    <3>1. g[n] \in Int /\ g[n + 1] = g[n] + s[n + 1] /\ s[n + 1] \in Int
      BY <1>0, <1>9
    <3>. QED BY <3>1
  <2>3. N \in SUBSET Nat
    OBVIOUS
  <2>. HIDE DEF N
  <2>. QED BY <2>1, <2>2, <2>3, Induction
<1>11. \A n \in 0..Len(s) : g[n] \in Int
  BY <1>0, <1>10
<1>12. \A h : h = [i \in 0..Len(s) |-> IF i = 0 THEN 0 ELSE h[i - 1] + s[i]]
               => h = [i \in 0..Len(s) |-> h[i]]
  OBVIOUS
<1>13. g = [i \in 0..Len(s) |-> g[i]]
  BY <1>7, <1>12, Zenon
<1>14. PrefixSums(s, g)
  BY <1>9, <1>11, <1>13 DEF PrefixSums
<1>. QED BY <1>8, <1>14

\* The total of a concatenation.
LEMMA TotalConcat ==
    ASSUME NEW s \in Seq(Int), NEW t \in Seq(Int)
    PROVE  Total(s) \in Int /\ Total(s \o t) = Total(s) + Total(t)
<1>0. /\ s \o t \in Seq(Int) /\ Len(s \o t) = Len(s) + Len(t)
      /\ Len(s) \in Nat /\ Len(t) \in Nat
      /\ \A i \in 1..Len(s) : (s \o t)[i] = s[i] /\ s[i] \in Int
      /\ \A i \in 1..Len(t) : (s \o t)[Len(s) + i] = t[i] /\ t[i] \in Int
  OBVIOUS
<1>1. PICK f : PrefixSums(s, f) /\ Total(s) = f[Len(s)]
  BY TotalIsLastSum
<1>2. PICK g : PrefixSums(t, g) /\ Total(t) = g[Len(t)]
  BY TotalIsLastSum
<1>3. PICK h : PrefixSums(s \o t, h) /\ Total(s \o t) = h[Len(s \o t)]
  BY <1>0, TotalIsLastSum
<1>. DEFINE M == {n \in Nat : n <= Len(s) => h[n] = f[n]}
            N == {n \in Nat : n <= Len(t) => h[Len(s) + n] = f[Len(s)] + g[n]}
<1>. HIDE DEF M, N
<1>4. M = Nat
  <2>1. 0 \in M
    BY <1>1, <1>3 DEF M, PrefixSums
  <2>2. ASSUME NEW n \in M PROVE n + 1 \in M
    BY <1>0, <1>1, <1>3 DEF M, PrefixSums
  <2>3. M \in SUBSET Nat
    BY DEF M
  <2>. QED BY <2>1, <2>2, <2>3, Induction
<1>5. h[Len(s)] = f[Len(s)] /\ f[Len(s)] \in Int
  BY <1>0, <1>1, <1>4 DEF M, PrefixSums
<1>6. N = Nat
  <2>1. 0 \in N
    BY <1>0, <1>2, <1>5 DEF N, PrefixSums
  <2>2. ASSUME NEW n \in N PROVE n + 1 \in N
    <3>. SUFFICES ASSUME n + 1 <= Len(t)
         PROVE  h[Len(s) + (n + 1)] = f[Len(s)] + g[n + 1]
      BY DEF N
    <3>0. n \in Nat /\ h[Len(s) + n] = f[Len(s)] + g[n]
      BY <1>0 DEF N
    <3>1. g[n + 1] = g[n] + t[n + 1] /\ g[n] \in Int /\ t[n + 1] \in Int
      BY <1>0, <1>2, <3>0 DEF PrefixSums
    <3>2. h[Len(s) + (n + 1)] = h[Len(s) + n] + (s \o t)[Len(s) + (n + 1)]
      <4>1. /\ Len(s) + (n + 1) \in 1..Len(s \o t)
            /\ (Len(s) + (n + 1)) - 1 = Len(s) + n
        BY <1>0, <3>0
      <4>. QED BY <1>3, <4>1 DEF PrefixSums
    <3>3. (s \o t)[Len(s) + (n + 1)] = t[n + 1]
      BY <1>0, <3>0
    <3>. QED BY <1>5, <3>0, <3>1, <3>2, <3>3
  <2>3. N \in SUBSET Nat
    BY DEF N
  <2>. QED BY <2>1, <2>2, <2>3, Induction
<1>7. h[Len(s) + Len(t)] = f[Len(s)] + g[Len(t)]
  BY <1>0, <1>6 DEF N
<1>. QED BY <1>0, <1>1, <1>2, <1>3, <1>5, <1>7

\* A set of positions has a last one.
LEMMA LastPosition ==
    ASSUME NEW n \in Nat, NEW I \in SUBSET (1..n), I # {}
    PROVE  Max(I) \in I /\ \A i \in I : i <= Max(I)
<1>. DEFINE S == {n - i : i \in I}
<1>1. S \in SUBSET Nat /\ S # {}
  <2>1. \A i \in I : i \in 1..n /\ n - i \in Nat
    OBVIOUS
  <2>. QED BY <2>1
<1>2. PICK m \in S : \A k \in S : m <= k
  BY <1>1, LeastNat
<1>3. PICK i \in I : m = n - i
  BY <1>2
<1>4. \A j \in I : n - j \in S /\ j \in Int
  OBVIOUS
<1>5. \A j \in I : i >= j
  <2>. HIDE DEF S
  <2>. QED BY <1>2, <1>3, <1>4
<1>6. Max(I) \in I /\ \A j \in I : Max(I) >= j
  BY <1>5 DEF Max
<1>. QED BY <1>6

-----------------------------------------------------------------------------
(* Statistics: the invariant                                               *)

Queued == [cand : Cand, failed : Nat, reward : Int,
           raises : BOOLEAN, deepens : BOOLEAN]

Hash == [exists : BOOLEAN, visits : Nat, value : Int, failed : Nat]

FiguresTypeOK ==
    /\ results \in Seq([cand : Cand, out : Outcome])
    /\ batch \in Seq([cand : Cand, out : Outcome])
    /\ delivered \in Nat
    /\ pipe \in Seq(Queued)
    /\ hash \in [Node -> Hash]
    /\ best \in Int /\ depthSeen \in Int /\ totalEvals \in Nat
    /\ recent \in Seq(Int) /\ applied \in Seq(Int)
    /\ expanding = NoNode \/ expanding \in Node \X Nat

\* Redis still has the figures that the queued writes were decided with.
DecidedInv ==
    \A i \in DOMAIN pipe :
        /\ pipe[i].raises  => pipe[i].reward > best
        /\ pipe[i].deepens => Depth(pipe[i].cand) > depthSeen

Payload == [read : 0..3, runs : Nat, forest : Int, metrics : Nat]

\* What a request has read so far is covered by the total of now, and by the
\* total it shows once it has read that.
RequestInv ==
    /\ request \in Payload
    /\ request.read \in {1, 2} => request.runs <= totalEvals
    /\ request.read = 2 /\ request.forest > 0 => totalEvals > 0
    /\ PayloadIsConsistent

FiguresInv ==
    /\ FiguresTypeOK /\ DecidedInv /\ RequestInv /\ CountersAgree
    /\ best > 0 => totalEvals > 0

LEMMA HashTypes ==
    Absent \in Hash /\ \A i \in Nat : Fresh(i) \in Hash
BY DEF Absent, Fresh, Hash

LEMMA WorkerKeeps ==
    ASSUME FiguresInv,
           \/ \E n \in Node : ReadNode(n)
           \/ \E c \in Cand : CreateChild(c)
           \/ \E c \in Cand, o \in Outcome : Publish(c, o)
    PROVE  FiguresInv' /\ UNCHANGED <<best, depthSeen>>
<1>1. UNCHANGED <<delivered, batch, pipe, shownVars, request>>
  BY DEF ReadNode, CreateChild, Publish, memoryVars
<1>2. results' \in Seq([cand : Cand, out : Outcome])
  <2>1. CASE \E c \in Cand, o \in Outcome : Publish(c, o)
    BY <2>1 DEF Publish, FiguresInv, FiguresTypeOK
  <2>2. CASE UNCHANGED results
    BY <2>2 DEF FiguresInv, FiguresTypeOK
  <2>. QED BY <2>1, <2>2 DEF ReadNode, CreateChild, memoryVars
<1>3. expanding' = NoNode \/ expanding' \in Node \X Nat
  <2>1. ASSUME NEW n \in Node, ReadNode(n)
        PROVE  expanding' \in Node \X Nat
    BY <2>1 DEF ReadNode, FiguresInv, FiguresTypeOK, Hash
  <2>2. CASE UNCHANGED expanding
    BY <2>2 DEF FiguresInv, FiguresTypeOK
  <2>. QED BY <2>1, <2>2 DEF CreateChild, Publish
<1>4. /\ hash' \in [Node -> Hash]
      /\ hash'[Root].visits = hash[Root].visits
      /\ hash'[Root].value = hash[Root].value
  <2>1. hash \in [Node -> Hash]
    BY DEF FiguresInv, FiguresTypeOK
  <2>2. ASSUME NEW c \in Cand, CreateChild(c)
        PROVE  hash' \in [Node -> Hash] /\ hash'[Root] = hash[Root]
    <3>1. expanding[2] \in Nat
      BY <2>2 DEF CreateChild, FiguresInv, FiguresTypeOK
    <3>2. Fresh(expanding[2]) \in Hash
      BY <3>1, HashTypes
    <3>3. hash' = [hash EXCEPT ![c] = Fresh(expanding[2])]
      BY <2>2 DEF CreateChild
    <3>4. c \in Node /\ Root \in Node /\ c # Root
      BY StatisticsAssumption DEF Node
    <3>. QED BY <2>1, <3>2, <3>3, <3>4
  <2>3. CASE UNCHANGED hash
    BY <2>1, <2>3
  <2>4. CASE \E c \in Cand : CreateChild(c)
    BY <2>2, <2>4
  <2>. QED BY <2>3, <2>4 DEF ReadNode, Publish
<1>5. FiguresTypeOK'
  BY <1>1, <1>2, <1>3, <1>4 DEF FiguresInv, FiguresTypeOK, shownVars
<1>6. DecidedInv' /\ RequestInv' /\ (best > 0 => totalEvals > 0)'
  BY <1>1 DEF FiguresInv, DecidedInv, RequestInv, PayloadIsConsistent, shownVars
<1>7. CountersAgree'
  BY <1>1, <1>4 DEF FiguresInv, CountersAgree, shownVars
<1>. QED BY <1>1, <1>5, <1>6, <1>7 DEF FiguresInv, shownVars

LEMMA ReadKeeps ==
    ASSUME FiguresInv, XReadGroup \/ Restart \/ UNCHANGED figuresVars
    PROVE  FiguresInv' /\ UNCHANGED <<best, depthSeen>>
<1>1. UNCHANGED <<results, shownVars, request, hash, expanding>>
  BY DEF XReadGroup, Restart, figuresVars, memoryVars
<1>2. pipe' = pipe \/ pipe' = <<>>
  BY DEF XReadGroup, Restart, figuresVars, memoryVars
<1>3. delivered' \in Nat /\ batch' \in Seq([cand : Cand, out : Outcome])
  <2>0. delivered \in Nat /\ Len(results) \in Nat /\ BatchMax \in Nat
    BY StatisticsAssumption DEF FiguresInv, FiguresTypeOK
  <2>1. CASE XReadGroup
    <3>1. /\ delivered' \in Nat /\ delivered' <= Len(results)
          /\ batch' = SubSeq(results, delivered + 1, delivered')
      BY <2>0, <2>1 DEF XReadGroup, Least
    <3>2. results \in Seq([cand : Cand, out : Outcome])
      BY DEF FiguresInv, FiguresTypeOK
    <3>3. batch' \in Seq([cand : Cand, out : Outcome])
      <4>. DEFINE R == [cand : Cand, out : Outcome]
      <4>. HIDE DEF R
      <4>1. results \in Seq(R)
        BY <3>2 DEF R
      <4>2. SubSeq(results, delivered + 1, delivered') \in Seq(R)
        BY <2>0, <3>1, <4>1, SubSeqProperties
      <4>. QED BY <3>1, <4>2 DEF R
    <3>. QED BY <3>1, <3>3
  <2>2. CASE Restart \/ UNCHANGED figuresVars
    <3>1. delivered' = delivered /\ batch' \in {batch, <<>>}
      BY <2>2 DEF Restart, figuresVars, memoryVars
    <3>2. <<>> \in Seq([cand : Cand, out : Outcome])
      OBVIOUS
    <3>. QED BY <2>0, <3>1, <3>2 DEF FiguresInv, FiguresTypeOK
  <2>. QED BY <2>1, <2>2
<1>4. FiguresTypeOK'
  <2>1. <<>> \in Seq(Queued)
    OBVIOUS
  <2>2. pipe' \in Seq(Queued)
    BY <1>2, <2>1 DEF FiguresInv, FiguresTypeOK
  <2>. QED BY <1>1, <1>3, <2>2 DEF FiguresInv, FiguresTypeOK, shownVars
<1>5. DecidedInv'
  BY <1>1, <1>2 DEF FiguresInv, DecidedInv, shownVars
<1>6. RequestInv' /\ (best > 0 => totalEvals > 0)' /\ CountersAgree'
  BY <1>1 DEF FiguresInv, RequestInv, PayloadIsConsistent, shownVars, CountersAgree
<1>. QED BY <1>1, <1>4, <1>5, <1>6 DEF FiguresInv, shownVars

LEMMA HandleKeeps ==
    ASSUME FiguresInv, Handle
    PROVE  FiguresInv' /\ UNCHANGED <<best, depthSeen>>
<1>. DEFINE c == Head(batch).cand
            o == Head(batch).out
            reward == compute_reward(o, hash[Parent[c]].failed)
            p == [cand |-> c, failed |-> o.failed, reward |-> reward,
                  raises |-> Raises(reward), deepens |-> Deepens(c)]
<1>1. /\ batch # <<>> /\ batch' = Tail(batch) /\ pipe' = Append(pipe, p)
      /\ UNCHANGED <<results, delivered, shownVars, hash, expanding, request>>
  BY DEF Handle
<1>2. /\ batch' \in Seq([cand : Cand, out : Outcome])
      /\ c \in Cand /\ o \in [passed : Nat, failed : Nat, runtime : Nat]
  <2>1. batch \in Seq([cand : Cand, out : Outcome])
    BY DEF FiguresInv, FiguresTypeOK
  <2>2. /\ Head(batch) \in [cand : Cand, out : Outcome]
        /\ Tail(batch) \in Seq([cand : Cand, out : Outcome])
    <3>. DEFINE R == [cand : Cand, out : Outcome]
    <3>. HIDE DEF R
    <3>1. batch \in Seq(R) /\ batch # <<>>
      BY <1>1, <2>1 DEF R
    <3>2. Head(batch) \in R /\ Tail(batch) \in Seq(R)
      BY <3>1, HeadTailProperties
    <3>. QED BY <3>2 DEF R
  <2>3. c \in Cand /\ o \in Outcome
    BY <2>2
  <2>. QED BY <1>1, <2>2, <2>3, StatisticsAssumption
<1>. HIDE DEF c, o
<1>3. hash[Parent[c]].failed \in Nat
  BY <1>2, StatisticsAssumption DEF FiguresInv, FiguresTypeOK, Hash
<1>4. reward \in Int
  <2>1. o.passed \in Nat /\ o.failed \in Nat /\ o.runtime \in Nat
    BY <1>2
  <2>2. \A i \in Int : Pos(i) \in Int
    BY DEF Pos
  <2>3. Pos(hash[Parent[c]].failed - o.failed) \in Int
    BY <1>3, <2>1, <2>2
  <2>. QED BY <2>1, <2>3 DEF compute_reward
<1>. HIDE DEF reward
<1>5. p \in Queued
  <2>1. Raises(reward) \in BOOLEAN /\ Deepens(c) \in BOOLEAN
    BY DEF Raises, Deepens
  <2>. QED BY <1>2, <1>4, <2>1 DEF Queued
<1>6. /\ p.raises => p.reward > best
      /\ p.deepens => Depth(p.cand) > depthSeen
  BY DEF Raises, Deepens
<1>. HIDE DEF p
<1>7. pipe \in Seq(Queued)
  BY DEF FiguresInv, FiguresTypeOK
<1>8. pipe' \in Seq(Queued)
  BY <1>1, <1>5, <1>7
<1>9. FiguresTypeOK'
  BY <1>1, <1>2, <1>8 DEF FiguresInv, FiguresTypeOK, shownVars
<1>10. DecidedInv'
  <2>. SUFFICES ASSUME NEW i \in DOMAIN pipe'
       PROVE  /\ pipe'[i].raises  => pipe'[i].reward > best
              /\ pipe'[i].deepens => Depth(pipe'[i].cand) > depthSeen
    BY <1>1 DEF DecidedInv, shownVars, Depth
  <2>1. pipe'[i] = p \/ (i \in DOMAIN pipe /\ pipe'[i] = pipe[i])
    BY <1>1, <1>7
  <2>2. CASE pipe'[i] = p
    BY <1>6, <2>2
  <2>3. CASE i \in DOMAIN pipe /\ pipe'[i] = pipe[i]
    BY <2>3 DEF FiguresInv, DecidedInv
  <2>. QED BY <2>1, <2>2, <2>3
<1>11. RequestInv' /\ (best > 0 => totalEvals > 0)' /\ CountersAgree'
  BY <1>1 DEF FiguresInv, RequestInv, PayloadIsConsistent, shownVars, CountersAgree
<1>. QED BY <1>1, <1>9, <1>10, <1>11 DEF FiguresInv, shownVars

\* What the results of a batch say about the nodes, and about the root.
LEMMA PipeFacts ==
    ASSUME FiguresInv
    PROVE  /\ pipe \in Seq(Queued) /\ Len(pipe) \in Nat /\ DOMAIN pipe = 1..Len(pipe)
           /\ Rewards \in Seq(Int) /\ Len(Rewards) = Len(pipe)
           /\ Failures \in [DOMAIN pipe -> Nat] /\ Depths \in [DOMAIN pipe -> Int]
           /\ \A n \in Node : /\ Cardinality(Below(n)) \in Nat
                              /\ Total(Increments(n)) \in Int
           /\ Cardinality(Below(Root)) = Len(pipe)
           /\ Increments(Root) = Rewards
<1>1. /\ pipe \in Seq(Queued) /\ Len(pipe) \in Nat /\ DOMAIN pipe = 1..Len(pipe)
      /\ \A i \in DOMAIN pipe : pipe[i] \in Queued
  BY DEF FiguresInv, FiguresTypeOK
<1>0. IsFiniteSet(1..Len(pipe)) /\ Cardinality(1..Len(pipe)) = Len(pipe)
  <2>1. \A n \in Nat : IsFiniteSet(1..n) /\ Cardinality(1..n) = n
    BY FS_Interval
  <2>. QED BY <1>1, <2>1
<1>2. \A i \in DOMAIN pipe :
         pipe[i].cand \in Cand /\ pipe[i].failed \in Nat /\ pipe[i].reward \in Int
  BY <1>1 DEF Queued
<1>3. Rewards \in Seq(Int) /\ Len(Rewards) = Len(pipe)
  <2>1. Rewards = [i \in 1..Len(pipe) |-> pipe[i].reward]
    BY <1>1 DEF Rewards
  <2>. QED BY <1>1, <1>2, <2>1
<1>4. Failures \in [DOMAIN pipe -> Nat]
  BY <1>2 DEF Failures
<1>5. Depths \in [DOMAIN pipe -> Int]
  <2>1. \A n \in Node : Depth(n) \in Int
    <3>1. \A n \in Node : Walk[n] \in Seq(Node)
      BY WalkStep
    <3>2. \A n \in Node : Len(Walk[n]) \in Nat
      BY <3>1, LenProperties
    <3>. QED BY <3>2 DEF Depth
  <2>2. \A c \in Cand : c \in Node
    BY DEF Node
  <2>3. \A i \in DOMAIN pipe : Depth(pipe[i].cand) \in Int
    BY <1>2, <2>1, <2>2
  <2>. QED BY <2>3 DEF Depths
<1>6. ASSUME NEW n \in Node
      PROVE  Cardinality(Below(n)) \in Nat /\ Total(Increments(n)) \in Int
  <2>1. Below(n) \subseteq 1..Len(pipe)
    BY <1>1 DEF Below
  <2>2. IsFiniteSet(Below(n))
    BY <1>0, <2>1, FS_Subset
  <2>3. Increments(n) = [i \in 1..Len(pipe) |-> IF i \in Below(n) THEN pipe[i].reward ELSE 0]
    BY <1>1 DEF Increments
  <2>4. Increments(n) \in Seq(Int)
    BY <1>1, <1>2, <2>3
  <2>5. <<>> \in Seq(Int)
    OBVIOUS
  <2>6. Total(Increments(n)) \in Int
    BY <2>4, <2>5, TotalConcat
  <2>. QED BY <2>2, <2>6, FS_CardinalityType
<1>7. Below(Root) = 1..Len(pipe)
  <2>1. \A i \in DOMAIN pipe : Contains(Ancestors(pipe[i].cand), Root)
    BY <1>2, WalkReachesRoot DEF Node
  <2>. QED BY <1>1, <2>1 DEF Below
<1>8. Cardinality(Below(Root)) = Len(pipe)
  BY <1>0, <1>7
<1>9. Increments(Root) = Rewards
  BY <1>1, <1>7 DEF Increments, Rewards
<1>. QED BY <1>1, <1>3, <1>4, <1>5, <1>6, <1>8, <1>9

\* The last of some writes is one of them.
LEMMA LastWriteStays ==
    ASSUME FiguresInv, NEW writes \in SUBSET DOMAIN pipe, NEW values, NEW old
    PROVE  \/ LastWrite(writes, values, old) = old
           \/ \E i \in writes : LastWrite(writes, values, old) = values[i]
<1>1. CASE writes = {}
  BY <1>1 DEF LastWrite
<1>2. CASE writes # {}
  <2>1. Max(writes) \in writes
    BY <1>2, PipeFacts, LastPosition
  <2>. QED BY <1>2, <2>1 DEF LastWrite
<1>. QED BY <1>1, <1>2

LEMMA Beginning ==
    ASSUME NEW r \in Seq(Int), NEW n \in Nat, n <= Len(r)
    PROVE  /\ SubSeq(r, 1, n) \in Seq(Int) /\ Len(SubSeq(r, 1, n)) = n
           /\ \A i \in 1..n : SubSeq(r, 1, n)[i] = r[i]
<1>1. Len(r) \in Nat /\ \A i \in 1..n : i \in 1..Len(r) /\ r[i] \in Int
  OBVIOUS
<1>. QED BY <1>1

\* The end of a history, latest first.
Latest(s) == SubSeq(Reverse(s), 1, Least(Len(s), RecentMax))

\* The list of recent runs, after some more.
LEMMA RecentStaysEnd ==
    ASSUME NEW s \in Seq(Int), NEW t \in Seq(Int)
    PROVE  /\ Trim(Reverse(t) \o Latest(s)) \in Seq(Int)
           /\ Trim(Reverse(t) \o Latest(s)) = Latest(s \o t)
<1>. DEFINE u == Latest(s)
            k == Least(Len(s), RecentMax)
            m == Least(Len(s) + Len(t), RecentMax)
<1>1. RecentMax \in Nat \ {0} /\ Len(s) \in Nat /\ Len(t) \in Nat
  BY StatisticsAssumption
<1>2. /\ k \in Nat /\ k <= Len(s) /\ m \in Nat /\ m <= Len(s) + Len(t)
      /\ m <= Len(t) + k /\ m = Least(Len(t) + k, RecentMax)
  BY <1>1 DEF Least
<1>. HIDE DEF k, m
<1>3. /\ Reverse(s) \in Seq(Int) /\ Len(Reverse(s)) = Len(s)
      /\ \A i \in 1..Len(s) : Reverse(s)[i] = s[(Len(s) - i) + 1]
  BY <1>1 DEF Reverse
<1>4. /\ Reverse(t) \in Seq(Int) /\ Len(Reverse(t)) = Len(t)
      /\ \A i \in 1..Len(t) : Reverse(t)[i] = t[(Len(t) - i) + 1]
  BY <1>1 DEF Reverse
<1>5. /\ s \o t \in Seq(Int) /\ Len(s \o t) = Len(s) + Len(t)
      /\ \A i \in 1..Len(s) + Len(t) :
            (s \o t)[i] = IF i <= Len(s) THEN s[i] ELSE t[i - Len(s)]
  BY ConcatProperties
<1>6. /\ Reverse(s \o t) \in Seq(Int) /\ Len(Reverse(s \o t)) = Len(s) + Len(t)
      /\ \A i \in 1..Len(s) + Len(t) :
            Reverse(s \o t)[i] = (s \o t)[((Len(s) + Len(t)) - i) + 1]
  BY <1>1, <1>5 DEF Reverse
<1>7. u \in Seq(Int) /\ Len(u) = k /\ \A i \in 1..k : u[i] = Reverse(s)[i]
  <2>1. k <= Len(Reverse(s)) /\ u = SubSeq(Reverse(s), 1, k)
    BY <1>2, <1>3 DEF Latest, k
  <2>. QED BY <1>2, <1>3, <2>1, Beginning
<1>. HIDE DEF u
<1>. DEFINE w == Reverse(t) \o u
<1>8. /\ w \in Seq(Int) /\ Len(w) = Len(t) + k
      /\ \A i \in 1..Len(t) + k :
            w[i] = IF i <= Len(t) THEN Reverse(t)[i] ELSE u[i - Len(t)]
  <2>1. \A p, q \in Seq(Int) :
           /\ p \o q \in Seq(Int) /\ Len(p \o q) = Len(p) + Len(q)
           /\ \A i \in 1..Len(p) + Len(q) :
                 (p \o q)[i] = IF i <= Len(p) THEN p[i] ELSE q[i - Len(p)]
    BY ConcatProperties
  <2>. DEFINE r == Reverse(t)
  <2>2. r \in Seq(Int) /\ Len(r) = Len(t) /\ u \in Seq(Int) /\ Len(u) = k /\ w = r \o u
    BY <1>4, <1>7
  <2>. HIDE DEF r, w
  <2>3. /\ w \in Seq(Int) /\ Len(w) = Len(t) + k
        /\ \A i \in 1..Len(t) + k : w[i] = IF i <= Len(t) THEN r[i] ELSE u[i - Len(t)]
    <3>1. /\ r \o u \in Seq(Int) /\ Len(r \o u) = Len(r) + Len(u)
          /\ \A i \in 1..Len(r) + Len(u) :
                 (r \o u)[i] = IF i <= Len(r) THEN r[i] ELSE u[i - Len(r)]
      BY <2>1, <2>2, Zenon
    <3>. QED BY <2>2, <3>1, Zenon
  <2>. QED BY <2>3 DEF r
<1>. HIDE DEF w
<1>9. \A i \in 1..m : w[i] = Reverse(s \o t)[i] /\ w[i] \in Int
  <2>. TAKE i \in 1..m
  <2>1. i \in 1..Len(t) + k /\ i \in 1..Len(s) + Len(t)
    BY <1>1, <1>2
  <2>2. w[i] \in Int
    BY <1>8, <2>1
  <2>3. CASE i <= Len(t)
    <3>1. w[i] = t[(Len(t) - i) + 1]
      <4>1. w[i] = Reverse(t)[i]
        BY <1>8, <2>1, <2>3
      <4>2. i \in 1..Len(t)
        BY <1>1, <2>1, <2>3
      <4>. QED BY <1>4, <4>1, <4>2
    <3>2. ((Len(s) + Len(t)) - i) + 1 \in 1..Len(s) + Len(t) /\
          ((Len(s) + Len(t)) - i) + 1 > Len(s) /\
          (((Len(s) + Len(t)) - i) + 1) - Len(s) = (Len(t) - i) + 1
      BY <1>1, <2>1, <2>3
    <3>3. Reverse(s \o t)[i] = t[(Len(t) - i) + 1]
      BY <1>1, <1>5, <1>6, <2>1, <3>2
    <3>. QED BY <2>2, <3>1, <3>3
  <2>4. CASE i > Len(t)
    <3>1. i - Len(t) \in 1..k /\ i - Len(t) \in 1..Len(s)
      BY <1>1, <1>2, <2>1, <2>4
    <3>2. w[i] = s[(Len(s) - (i - Len(t))) + 1]
      <4>1. ~(i <= Len(t))
        BY <1>1, <2>1, <2>4
      <4>2. w[i] = u[i - Len(t)]
        BY <1>8, <2>1, <4>1
      <4>3. u[i - Len(t)] = Reverse(s)[i - Len(t)]
        BY <1>7, <3>1
      <4>. QED BY <1>3, <3>1, <4>2, <4>3
    <3>3. ((Len(s) + Len(t)) - i) + 1 \in 1..Len(s) + Len(t) /\
          ((Len(s) + Len(t)) - i) + 1 <= Len(s) /\
          ((Len(s) + Len(t)) - i) + 1 = (Len(s) - (i - Len(t))) + 1
      BY <1>1, <2>1, <2>4
    <3>4. Reverse(s \o t)[i] = s[(Len(s) - (i - Len(t))) + 1]
      BY <1>5, <1>6, <2>1, <3>3
    <3>. QED BY <2>2, <3>2, <3>4
  <2>. QED BY <1>1, <2>1, <2>3, <2>4
<1>10. Trim(w) = SubSeq(w, 1, m)
  BY <1>2, <1>8 DEF Trim
<1>11. /\ Trim(w) \in Seq(Int) /\ Len(Trim(w)) = m
       /\ \A i \in 1..m : Trim(w)[i] = w[i]
  BY <1>2, <1>8, <1>10, Beginning
<1>. DEFINE z == SubSeq(Reverse(s \o t), 1, m)
<1>12. z \in Seq(Int) /\ Len(z) = m /\ \A i \in 1..m : z[i] = Reverse(s \o t)[i]
  BY <1>2, <1>6, Beginning
<1>. HIDE DEF z
<1>13. Trim(w) = z
  BY <1>2, <1>9, <1>11, <1>12, SeqEqual
<1>. QED BY <1>5, <1>11, <1>13 DEF u, w, z, m, Latest

LEMMA ExecutePipeKeeps ==
    ASSUME FiguresInv, ExecutePipe
    PROVE  FiguresInv' /\ best' >= best /\ depthSeen' >= depthSeen
<1>1. /\ pipe # <<>> /\ pipe' = <<>>
      /\ best' = LastWrite(BestWrites, Rewards, best)
      /\ depthSeen' = LastWrite(DepthWrites, Depths, depthSeen)
      /\ totalEvals' = totalEvals + Len(pipe)
      /\ recent' = Trim(Reverse(Rewards) \o recent)
      /\ applied' = applied \o Rewards
      /\ UNCHANGED <<results, delivered, batch, expanding, request>>
      /\ hash' = [n \in Node |->
            [exists |-> hash[n].exists,
             visits |-> hash[n].visits + Cardinality(Below(n)),
             value  |-> hash[n].value + Total(Increments(n)),
             failed |-> LastWrite(Reports(n), Failures, hash[n].failed)]]
  BY Zenon DEF ExecutePipe
<1>2. /\ best \in Int /\ depthSeen \in Int /\ totalEvals \in Nat
      /\ applied \in Seq(Int) /\ hash \in [Node -> Hash] /\ Root \in Node
  BY DEF FiguresInv, FiguresTypeOK, Node
<1>3. /\ pipe \in Seq(Queued) /\ Len(pipe) \in Nat \ {0} /\ DOMAIN pipe = 1..Len(pipe)
  BY <1>1, PipeFacts, EmptySeq
<1>4. best' \in Int /\ best' >= best
  <2>1. BestWrites \in SUBSET DOMAIN pipe
    BY DEF BestWrites
  <2>2. ASSUME NEW i \in BestWrites PROVE Rewards[i] \in Int /\ Rewards[i] > best
    <3>1. i \in DOMAIN pipe /\ pipe[i].raises
      BY DEF BestWrites
    <3>2. pipe[i].reward > best
      BY <3>1 DEF FiguresInv, DecidedInv
    <3>3. Rewards[i] = pipe[i].reward
      BY <3>1 DEF Rewards
    <3>4. Rewards[i] \in Int
      BY <1>3, <2>1, PipeFacts
    <3>. QED BY <3>2, <3>3, <3>4
  <2>3. best' = best \/ \E i \in BestWrites : best' = Rewards[i]
    BY <1>1, <2>1, LastWriteStays
  <2>. QED BY <1>2, <2>2, <2>3
<1>5. depthSeen' \in Int /\ depthSeen' >= depthSeen
  <2>1. DepthWrites \in SUBSET DOMAIN pipe
    BY DEF DepthWrites
  <2>2. ASSUME NEW i \in DepthWrites PROVE Depths[i] \in Int /\ Depths[i] > depthSeen
    <3>1. i \in DOMAIN pipe /\ pipe[i].deepens
      BY DEF DepthWrites
    <3>2. Depth(pipe[i].cand) > depthSeen
      BY <3>1 DEF FiguresInv, DecidedInv
    <3>3. Depths[i] = Depth(pipe[i].cand)
      BY <3>1 DEF Depths
    <3>4. Depths[i] \in Int
      BY <2>1, PipeFacts
    <3>. QED BY <3>2, <3>3, <3>4
  <2>3. depthSeen' = depthSeen \/ \E i \in DepthWrites : depthSeen' = Depths[i]
    BY <1>1, <2>1, LastWriteStays
  <2>. QED BY <1>2, <2>2, <2>3
<1>6. ASSUME NEW n \in Node
      PROVE  /\ hash'[n] \in Hash
             /\ hash'[n].visits = hash[n].visits + Cardinality(Below(n))
             /\ hash'[n].value = hash[n].value + Total(Increments(n))
  <2>. DEFINE v == Cardinality(Below(n))
              w == Total(Increments(n))
              l == LastWrite(Reports(n), Failures, hash[n].failed)
  <2>1. hash[n] \in Hash /\ v \in Nat /\ w \in Int
    BY <1>2, PipeFacts
  <2>2. l \in Nat
    <3>1. Reports(n) \in SUBSET DOMAIN pipe
      BY DEF Reports
    <3>2. l = hash[n].failed \/ \E i \in Reports(n) : l = Failures[i]
      BY <3>1, LastWriteStays
    <3>3. \A i \in Reports(n) : Failures[i] \in Nat
      BY <3>1, PipeFacts
    <3>4. hash[n].failed \in Nat
      BY <2>1 DEF Hash
    <3>. HIDE DEF l
    <3>. QED BY <3>2, <3>3, <3>4
  <2>3. hash'[n] = [exists |-> hash[n].exists, visits |-> hash[n].visits + v,
                    value |-> hash[n].value + w, failed |-> l]
    BY <1>1
  <2>. HIDE DEF v, w, l
  <2>4. hash'[n].visits = hash[n].visits + v /\ hash'[n].value = hash[n].value + w
    BY <2>3
  <2>5. hash'[n] \in Hash
    <3>1. /\ hash[n].exists \in BOOLEAN /\ hash[n].visits + v \in Nat
          /\ hash[n].value + w \in Int
      BY <2>1 DEF Hash
    <3>. QED BY <2>2, <2>3, <3>1 DEF Hash
  <2>. QED BY <2>4, <2>5 DEF v, w
<1>7. hash' \in [Node -> Hash]
  <2>1. hash' = [n \in Node |-> hash'[n]]
    BY <1>1
  <2>. QED BY <1>6, <2>1
<1>8. /\ applied' \in Seq(Int) /\ Len(applied') = Len(applied) + Len(pipe)
      /\ Total(applied') = Total(applied) + Total(Rewards)
  <2>1. Rewards \in Seq(Int) /\ Len(Rewards) = Len(pipe)
    BY PipeFacts
  <2>2. /\ applied \o Rewards \in Seq(Int)
        /\ Len(applied \o Rewards) = Len(applied) + Len(Rewards)
    BY <1>2, <2>1, ConcatProperties
  <2>3. Total(applied \o Rewards) = Total(applied) + Total(Rewards)
    BY <1>2, <2>1, TotalConcat
  <2>4. applied' = applied \o Rewards
    BY <1>1
  <2>. QED BY <2>1, <2>2, <2>3, <2>4
<1>9. /\ recent' \in Seq(Int)
      /\ recent' = SubSeq(Reverse(applied'), 1, Least(Len(applied'), RecentMax))
  <2>1. recent = SubSeq(Reverse(applied), 1, Least(Len(applied), RecentMax))
    BY DEF FiguresInv, CountersAgree
  <2>2. Rewards \in Seq(Int)
    BY PipeFacts
  <2>. QED BY <1>1, <1>2, <2>1, <2>2, RecentStaysEnd DEF Latest
<1>10. CountersAgree'
  <2>1. /\ totalEvals = Len(applied) /\ hash[Root].visits = Len(applied)
        /\ hash[Root].value = Total(applied)
    BY DEF FiguresInv, CountersAgree
  <2>2. totalEvals' = Len(applied')
    BY <1>1, <1>8, <2>1
  <2>3. hash'[Root].visits = Len(applied')
    BY <1>2, <1>6, <1>8, <2>1, PipeFacts
  <2>4. hash'[Root].value = Total(applied')
    BY <1>2, <1>6, <1>8, <2>1, PipeFacts
  <2>. QED BY <1>9, <2>2, <2>3, <2>4 DEF CountersAgree
<1>11. totalEvals' \in Nat /\ totalEvals' >= totalEvals /\ totalEvals' > 0
  BY <1>1, <1>2, <1>3
<1>12. FiguresTypeOK'
  BY <1>1, <1>4, <1>5, <1>7, <1>8, <1>9, <1>11, EmptySeq DEF FiguresInv, FiguresTypeOK
<1>13. DecidedInv'
  BY <1>1 DEF DecidedInv
<1>14. RequestInv'
  <2>1. request' = request
    BY <1>1
  <2>2. request.runs \in Nat
    BY DEF FiguresInv, RequestInv, Payload
  <2>. QED BY <1>2, <1>11, <2>1, <2>2 DEF FiguresInv, RequestInv, PayloadIsConsistent
<1>. QED BY <1>4, <1>5, <1>10, <1>11, <1>12, <1>13, <1>14 DEF FiguresInv

WithForest(r, j) == [r EXCEPT !.read = 2, !.forest = j]
WithMetrics(r, j) == [r EXCEPT !.read = 3, !.metrics = j]

LEMMA ForestIsRead ==
    ASSUME NEW r \in Payload, NEW j \in Int
    PROVE  /\ WithForest(r, j) \in Payload /\ WithForest(r, j).read = 2
           /\ WithForest(r, j).forest = j /\ WithForest(r, j).runs = r.runs
<1>1. PICK q : q = [r EXCEPT !.read = 2, !.forest = j]
  OBVIOUS
<1>2. q \in Payload
  <2>1. \A i \in 0..3 : [r EXCEPT !.read = i, !.forest = j] \in Payload
    BY DEF Payload
  <2>2. 2 \in 0..3
    OBVIOUS
  <2>. QED BY <1>1, <2>1, <2>2, Zenon
<1>3. q.read = 2 /\ q.forest = j
  BY <1>1 DEF Payload
<1>4. q.runs = r.runs
  BY <1>1 DEF Payload
<1>. QED BY <1>1, <1>2, <1>3, <1>4, Zenon DEF WithForest

LEMMA MetricsAreRead ==
    ASSUME NEW r \in Payload, NEW j \in Nat
    PROVE  /\ WithMetrics(r, j) \in Payload /\ WithMetrics(r, j).read = 3
           /\ WithMetrics(r, j).metrics = j /\ WithMetrics(r, j).runs = r.runs
           /\ WithMetrics(r, j).forest = r.forest
<1>1. PICK q : q = [r EXCEPT !.read = 3, !.metrics = j]
  OBVIOUS
<1>2. q \in Payload
  <2>1. \A i \in 0..3 : [r EXCEPT !.read = i, !.metrics = j] \in Payload
    BY DEF Payload
  <2>2. 3 \in 0..3
    OBVIOUS
  <2>. QED BY <1>1, <2>1, <2>2, Zenon
<1>3. q.read = 3 /\ q.metrics = j
  BY <1>1 DEF Payload
<1>4. q.runs = r.runs /\ q.forest = r.forest
  BY <1>1 DEF Payload
<1>. QED BY <1>1, <1>2, <1>3, <1>4, Zenon DEF WithMetrics

LEMMA PayloadKeeps ==
    ASSUME FiguresInv, StartPayload \/ ReadOn
    PROVE  FiguresInv' /\ UNCHANGED <<best, depthSeen>>
<1>1. UNCHANGED <<memoryVars, shownVars, hash, expanding>>
  BY DEF StartPayload, ReadOn
<1>2. /\ request \in Payload
      /\ best \in Int /\ totalEvals \in Nat
  BY DEF FiguresInv, RequestInv, FiguresTypeOK
<1>3. /\ PayloadOrder[1] = "runs" /\ PayloadOrder[2] = "forest"
      /\ PayloadOrder[3] = "metrics" /\ Len(PayloadOrder) = 3
  BY DEF PayloadOrder
<1>4. /\ Figure.runs \in Nat /\ Figure.runs <= totalEvals
      /\ Figure.forest = best /\ Figure.metrics = totalEvals
  <2>1. Len(recent) <= totalEvals /\ Len(recent) \in Nat
    <3>1. /\ recent = SubSeq(Reverse(applied), 1, Least(Len(applied), RecentMax))
          /\ totalEvals = Len(applied)
      BY DEF FiguresInv, CountersAgree
    <3>2. applied \in Seq(Int) /\ RecentMax \in Nat \ {0}
      BY StatisticsAssumption DEF FiguresInv, FiguresTypeOK
    <3>3. Reverse(applied) \in Seq(Int) /\ Len(Reverse(applied)) = Len(applied)
      BY <3>2 DEF Reverse
    <3>4. /\ Least(Len(applied), RecentMax) \in Nat
          /\ Least(Len(applied), RecentMax) <= Len(applied)
      BY <3>2 DEF Least
    <3>5. Len(recent) = Least(Len(applied), RecentMax)
      BY <3>1, <3>3, <3>4, Beginning
    <3>. QED BY <3>1, <3>4, <3>5
  <2>2. LiveRuns \in Nat
    BY StatisticsAssumption
  <2>. QED BY <1>2, <2>1, <2>2 DEF Figure, Least
<1>5. RequestInv'
  <2>1. CASE StartPayload
    <3>1. request' = [NoRequest EXCEPT !.read = 1, !.runs = Figure.runs]
      BY <1>3, <2>1 DEF StartPayload
    <3>2. /\ request' \in Payload
          /\ request'.read = 1 /\ request'.runs = Figure.runs
      <4>1. request' = [read |-> 1, runs |-> Figure.runs, forest |-> 0, metrics |-> 0]
        BY <3>1 DEF NoRequest
      <4>. QED BY <1>4, <4>1 DEF Payload
    <3>. QED BY <1>1, <1>3, <1>4, <3>2 DEF RequestInv, PayloadIsConsistent, shownVars
  <2>2. CASE ReadOn /\ request.read = 1
    <3>0. request.read + 1 = 2
      BY <2>2
    <3>1. request' = WithForest(request, best)
      BY <1>3, <1>4, <2>2, <3>0, Zenon DEF ReadOn, WithForest
    <3>2. /\ request' \in Payload
          /\ request'.read = 2 /\ request'.forest = best
          /\ request'.runs = request.runs
      BY <1>2, <3>1, ForestIsRead
    <3>. QED BY <1>1, <1>3, <2>2, <3>2
         DEF FiguresInv, RequestInv, Payload, PayloadIsConsistent, shownVars
  <2>3. CASE ReadOn /\ request.read = 2
    <3>0. request.read + 1 = 3
      BY <2>3
    <3>1. request' = WithMetrics(request, totalEvals)
      BY <1>3, <1>4, <2>3, <3>0, Zenon DEF ReadOn, WithMetrics
    <3>2. /\ request' \in Payload
          /\ request'.read = 3 /\ request'.metrics = totalEvals
          /\ request'.runs = request.runs /\ request'.forest = request.forest
      BY <1>2, <3>1, MetricsAreRead
    <3>. QED BY <1>1, <1>3, <2>3, <3>2
         DEF FiguresInv, RequestInv, Payload, PayloadIsConsistent, shownVars
  <2>. QED BY <1>2, <1>3, <2>1, <2>2, <2>3 DEF ReadOn
<1>6. FiguresTypeOK'
  BY <1>1 DEF FiguresInv, FiguresTypeOK, memoryVars, shownVars
<1>7. DecidedInv' /\ CountersAgree' /\ (best > 0 => totalEvals > 0)'
  BY <1>1 DEF FiguresInv, DecidedInv, CountersAgree, memoryVars, shownVars, Depth
<1>. QED BY <1>1, <1>5, <1>6, <1>7 DEF FiguresInv, shownVars

LEMMA FiguresBegin == FiguresInit => FiguresInv
<1>. SUFFICES ASSUME FiguresInit PROVE FiguresInv
  OBVIOUS
<1>. USE DEF FiguresInit
<1>1. hash \in [Node -> Hash]
  BY HashTypes, StatisticsAssumption
<1>2. FiguresTypeOK
  BY <1>1, EmptySeq DEF FiguresTypeOK
<1>3. RequestInv
  BY DEF RequestInv, Payload, NoRequest, PayloadIsConsistent, PayloadOrder
<1>4. CountersAgree
  <2>1. hash[Root].visits = 0 /\ hash[Root].value = 0
    BY DEF Fresh, Node
  <2>2. Total(<<>>) = 0
    <3>1. <<>> \in Seq(Int) /\ Len(<<>>) = 0
      OBVIOUS
    <3>. QED BY <3>1, TotalIsLastSum DEF PrefixSums
  <2>3. SubSeq(Reverse(<<>>), 1, Least(Len(<<>>), RecentMax)) = <<>>
    BY StatisticsAssumption DEF Reverse, Least
  <2>. QED BY <2>1, <2>2, <2>3 DEF CountersAgree
<1>. QED BY <1>2, <1>3, <1>4 DEF FiguresInv, DecidedInv

LEMMA FiguresStep ==
    ASSUME FiguresInv, [FiguresNext]_figuresVars
    PROVE  FiguresInv' /\ best' >= best /\ depthSeen' >= depthSeen
<1>1. best \in Int /\ depthSeen \in Int
  BY DEF FiguresInv, FiguresTypeOK
<1>. QED BY <1>1, WorkerKeeps, ReadKeeps, HandleKeeps, ExecutePipeKeeps, PayloadKeeps
     DEF FiguresNext

\* The total, the visits and the value of the root, and the list of recent
\* runs agree with the results that took effect, for any tree of candidates,
\* any outcomes and any size of a batch, and wherever global memory dies.
THEOREM FiguresAgree == FiguresSpec => []CountersAgree
<1>1. FiguresInv /\ [FiguresNext]_figuresVars => FiguresInv'
  BY FiguresStep
<1>2. FiguresInv => CountersAgree
  BY DEF FiguresInv
<1>. QED BY FiguresBegin, <1>1, <1>2, PTL DEF FiguresSpec

\* No payload of the dashboard lists a run or a reward that its total does
\* not count, although the figures move between the reads.
THEOREM PayloadsConsistent == FiguresSpec => []PayloadIsConsistent
<1>1. FiguresInv /\ [FiguresNext]_figuresVars => FiguresInv'
  BY FiguresStep
<1>2. FiguresInv => PayloadIsConsistent
  BY DEF FiguresInv, RequestInv
<1>. QED BY FiguresBegin, <1>1, <1>2, PTL DEF FiguresSpec

\* best_reward and max_depth_seen never fall, although a handler compares
\* with figures that its own batch has made out of date: what it writes is
\* higher than what Redis had when the batch began, and that is what counts.
THEOREM FiguresNeverFall == FiguresSpec => ShownFiguresNeverFall
<1>1. FiguresInv /\ [FiguresNext]_figuresVars => FiguresInv'
  BY FiguresStep
<1>2. FiguresInv /\ [FiguresNext]_figuresVars
         => [best' >= best /\ depthSeen' >= depthSeen]_figuresVars
  BY FiguresStep
<1>. QED BY FiguresBegin, <1>1, <1>2, PTL DEF FiguresSpec, ShownFiguresNeverFall

-----------------------------------------------------------------------------
(* Localization: places in an order                                        *)

StrictOrder(S, before) ==
    /\ before \in [S -> SUBSET S]
    /\ \A i \in S : i \notin before[i]
    /\ \A i \in S : \A j \in before[i] : before[j] \subseteq before[i]
    /\ \A i, j \in S : i = j \/ i \in before[j] \/ j \in before[i]

\* Counting what is before an element numbers a finite set in its order.
LEMMA PlacesInOrder ==
    ASSUME NEW S, IsFiniteSet(S), NEW before, StrictOrder(S, before)
    PROVE  /\ Cardinality(S) \in Nat
           /\ \A i \in S : Cardinality(before[i]) \in 0..Cardinality(S) - 1
           /\ \A i, j \in S :
                 j \in before[i] <=> Cardinality(before[j]) < Cardinality(before[i])
           /\ \A i, j \in S :
                 Cardinality(before[j]) = Cardinality(before[i]) => i = j
           /\ \A r \in 0..Cardinality(S) - 1 :
                 \E i \in S : Cardinality(before[i]) = r
<1>. DEFINE n == Cardinality(S)
<1>0. n \in Nat
  BY FS_CardinalityType
<1>1. ASSUME NEW i \in S
      PROVE  /\ IsFiniteSet(before[i]) /\ Cardinality(before[i]) \in Nat
             /\ Cardinality(before[i]) <= n /\ Cardinality(before[i]) # n
  <2>1. before[i] \in SUBSET S /\ before[i] # S
    BY DEF StrictOrder
  <2>. QED BY <1>0, <2>1, FS_Subset, FS_CardinalityType
<1>2. ASSUME NEW i \in S, NEW j \in before[i]
      PROVE  Cardinality(before[j]) < Cardinality(before[i])
  <2>1. j \in S /\ before[j] \in SUBSET before[i] /\ before[j] # before[i]
    BY DEF StrictOrder
  <2>2. /\ Cardinality(before[j]) <= Cardinality(before[i])
        /\ Cardinality(before[i]) # Cardinality(before[j])
    BY <1>1, <2>1, FS_Subset
  <2>. QED BY <1>1, <2>1, <2>2
<1>3. ASSUME NEW i \in S, NEW j \in S,
             Cardinality(before[j]) <= Cardinality(before[i])
      PROVE  i = j \/ j \in before[i]
  <2>1. i \in before[j] => FALSE
    BY <1>1, <1>2, <1>3
  <2>. QED BY <2>1 DEF StrictOrder
<1>4. \A i, j \in S :
         j \in before[i] <=> Cardinality(before[j]) < Cardinality(before[i])
  <2>. TAKE i, j \in S
  <2>1. Cardinality(before[i]) \in Nat /\ Cardinality(before[j]) \in Nat
    BY <1>1
  <2>. QED BY <1>2, <1>3, <2>1
<1>5. \A i, j \in S : Cardinality(before[j]) = Cardinality(before[i]) => i = j
  <2>. SUFFICES ASSUME NEW i \in S, NEW j \in S,
                       Cardinality(before[j]) = Cardinality(before[i])
       PROVE  i = j
    OBVIOUS
  <2>1. Cardinality(before[i]) \in Nat /\ Cardinality(before[j]) \in Nat
    BY <1>1
  <2>2. j \notin before[i]
    BY <1>4, <2>1
  <2>. QED BY <1>3, <2>1, <2>2
<1>6. \A r \in 0..n - 1 : \E i \in S : Cardinality(before[i]) = r
  <2>. DEFINE T == 0..n - 1
              f == [i \in S |-> Cardinality(before[i])]
  <2>1. IsFiniteSet(T) /\ Cardinality(T) = n
    <3>1. \A k \in Nat : IsFiniteSet(0..k - 1) /\ Cardinality(0..k - 1) = k
      BY FS_Interval
    <3>. QED BY <1>0, <3>1
  <2>2. f \in Injection(S, T)
    <3>1. f \in [S -> T]
      BY <1>0, <1>1
    <3>2. \A i, j \in S : f[i] = f[j] => i = j
      BY <1>5
    <3>. HIDE DEF f, T
    <3>. QED BY <3>1, <3>2 DEF Injection, IsInjective
  <2>3. f \in Surjection(S, T)
    <3>. HIDE DEF f, T
    <3>. QED BY <2>1, <2>2, FS_Injection
  <2>4. \A r \in T : \E i \in S : f[i] = r
    <3>. HIDE DEF f, T
    <3>. QED BY <2>3 DEF Surjection
  <2>. QED BY <2>4
<1>. QED BY <1>0, <1>1, <1>4, <1>5, <1>6

\* Comparing scores, as fractions x / u of naturals.
LEMMA ScoresCompare ==
    ASSUME NEW x \in Nat, NEW y \in Nat, NEW z \in Nat,
           NEW u \in Nat \ {0}, NEW v \in Nat \ {0}, NEW w \in Nat \ {0},
           x * v >= y * u, y * w >= z * v
    PROVE  /\ x * w >= z * u
           /\ x * v > y * u => x * w > z * u
           /\ y * w > z * v => x * w > z * u
<1>1. \A a, b \in Nat : \A c \in Nat \ {0} :
         a * c \in Nat /\ (a >= b => a * c >= b * c) /\ (a > b => a * c > b * c)
  OBVIOUS
<1>2. /\ x * v \in Nat /\ y * u \in Nat /\ y * w \in Nat
      /\ z * v \in Nat /\ x * w \in Nat /\ z * u \in Nat
  BY <1>1
<1>3. /\ (x * v) * w >= (y * u) * w /\ (y * w) * u >= (z * v) * u
      /\ x * v > y * u => (x * v) * w > (y * u) * w
      /\ y * w > z * v => (y * w) * u > (z * v) * u
  BY <1>1, <1>2
<1>4. /\ (x * v) * w = (x * w) * v /\ (y * u) * w = (y * w) * u
      /\ (z * v) * u = (z * u) * v
  OBVIOUS
<1>5. /\ (x * w) * v \in Nat /\ (z * u) * v \in Nat /\ (y * w) * u \in Nat
  BY <1>1, <1>2
<1>6. /\ (x * w) * v >= (z * u) * v
      /\ x * v > y * u => (x * w) * v > (z * u) * v
      /\ y * w > z * v => (x * w) * v > (z * u) * v
  BY <1>3, <1>4, <1>5
<1>7. /\ x * w < z * u => (x * w) * v < (z * u) * v
      /\ x * w <= z * u => (x * w) * v <= (z * u) * v
  BY <1>1, <1>2
<1>. QED BY <1>2, <1>5, <1>6, <1>7

\* The elements of a set of lines in ascending order.
LEMMA AscendingLists ==
    ASSUME NEW S \in SUBSET (1..Lines)
    PROVE  /\ Cardinality(S) \in Nat
           /\ Ascending(S) \in [1..Cardinality(S) -> S]
           /\ \A i, j \in 1..Cardinality(S) :
                 Ascending(S)[i] = Ascending(S)[j] => i = j
           /\ \A x \in S : \E i \in 1..Cardinality(S) : Ascending(S)[i] = x
<1>. DEFINE before == [x \in S |-> {y \in S : y < x}]
            n == Cardinality(S)
<1>1. IsFiniteSet(S) /\ \A x \in S : x \in Int
  <2>1. Lines \in Nat
    BY LocalizationAssumption
  <2>2. \A k \in Nat : IsFiniteSet(1..k)
    BY FS_Interval
  <2>3. IsFiniteSet(S)
    BY <2>1, <2>2, FS_Subset
  <2>. QED BY <2>1, <2>3
<1>2. StrictOrder(S, before) /\ \A x \in S : before[x] = {y \in S : y < x}
  <2>1. \A x \in S : before[x] = {y \in S : y < x}
    OBVIOUS
  <2>2. before \in [S -> SUBSET S]
    OBVIOUS
  <2>. HIDE DEF before
  <2>3. \A x \in S : x \notin before[x]
    BY <1>1, <2>1
  <2>4. \A x \in S : \A y \in before[x] : before[y] \subseteq before[x]
    <3>1. ASSUME NEW x \in S, NEW y \in before[x], NEW z \in before[y]
          PROVE  z \in before[x]
      <4>1. y \in S /\ y < x
        BY <2>1
      <4>2. z \in S /\ z < y
        BY <2>1, <4>1
      <4>3. z < x
        BY <1>1, <4>1, <4>2
      <4>. QED BY <2>1, <4>2, <4>3
    <3>. QED BY <3>1
  <2>5. \A x, y \in S : x = y \/ x \in before[y] \/ y \in before[x]
    BY <1>1, <2>1
  <2>. QED BY <2>1, <2>2, <2>3, <2>4, <2>5 DEF StrictOrder
<1>. HIDE DEF before
<1>. DEFINE place == [x \in S |-> Cardinality(before[x])]
<1>3. /\ n \in Nat
      /\ \A x \in S : place[x] \in 0..n - 1
      /\ \A x, y \in S : place[x] = place[y] => x = y
      /\ \A r \in 0..n - 1 : \E x \in S : place[x] = r
  <2>1. \A x \in S : place[x] = Cardinality(before[x])
    OBVIOUS
  <2>2. /\ n \in Nat
        /\ \A x \in S : Cardinality(before[x]) \in 0..n - 1
        /\ \A x, y \in S : Cardinality(before[y]) = Cardinality(before[x]) => x = y
        /\ \A r \in 0..n - 1 : \E x \in S : Cardinality(before[x]) = r
    BY <1>1, <1>2, PlacesInOrder
  <2>. HIDE DEF place
  <2>. QED BY <2>1, <2>2
<1>4. ASSUME NEW x \in S PROVE Cardinality({y \in S : y <= x}) = place[x] + 1
  <2>1. {y \in S : y <= x} = before[x] \cup {x} /\ x \notin before[x]
    <3>1. \A y \in S : y <= x <=> y < x \/ y = x
      BY <1>1
    <3>2. \A y : y \in before[x] <=> y \in S /\ y < x
      BY <1>2
    <3>3. ~(x < x)
      BY <1>1
    <3>. QED BY <3>1, <3>2, <3>3, Zenon
  <2>2. IsFiniteSet(before[x]) /\ Cardinality(before[x]) \in Nat
    BY <1>1, <1>2, FS_Subset, FS_CardinalityType
  <2>. QED BY <2>1, <2>2, FS_AddElement
<1>. HIDE DEF place
<1>5. ASSUME NEW i \in 1..n
      PROVE  Ascending(S)[i] \in S /\ place[Ascending(S)[i]] = i - 1
  <2>1. Ascending(S)[i] = CHOOSE x \in S : Cardinality({y \in S : y <= x}) = i
    BY DEF Ascending
  <2>2. i - 1 \in 0..n - 1
    BY <1>3
  <2>3. PICK x \in S : place[x] = i - 1
    BY <1>3, <2>2
  <2>4. Cardinality({y \in S : y <= x}) = i
    BY <1>3, <1>4, <2>3
  <2>5. /\ Ascending(S)[i] \in S
        /\ Cardinality({y \in S : y <= Ascending(S)[i]}) = i
    BY <2>1, <2>4
  <2>6. PICK a : a = Ascending(S)[i]
    OBVIOUS
  <2>7. a \in S /\ Cardinality({y \in S : y <= a}) = i
    BY <2>5, <2>6
  <2>8. place[a] + 1 = i
    BY <1>4, <2>7
  <2>9. place[a] \in Int
    BY <1>3, <2>7
  <2>. QED BY <2>6, <2>7, <2>8, <2>9
<1>6. Ascending(S) \in [1..n -> S]
  <2>1. Ascending(S) = [i \in 1..n |-> Ascending(S)[i]]
    BY DEF Ascending
  <2>. QED BY <1>5, <2>1
<1>7. \A i, j \in 1..n : Ascending(S)[i] = Ascending(S)[j] => i = j
  BY <1>3, <1>5
<1>8. ASSUME NEW x \in S PROVE \E i \in 1..n : Ascending(S)[i] = x
  <2>1. place[x] + 1 \in 1..n /\ (place[x] + 1) - 1 = place[x]
    BY <1>3
  <2>2. /\ Ascending(S)[place[x] + 1] \in S
        /\ place[Ascending(S)[place[x] + 1]] = place[x]
    BY <1>5, <2>1
  <2>. QED BY <1>3, <2>1, <2>2
<1>. QED BY <1>3, <1>6, <1>7, <1>8

-----------------------------------------------------------------------------
(* Localization: the rows of the matrix count what the tests did           *)

Row == [line : 1..Lines, passed : Nat, failed : Nat]

RowsCount ==
    /\ matrix \in Seq(Row)
    /\ \A i, j \in DOMAIN matrix : matrix[i].line = matrix[j].line => i = j
    /\ \A i \in DOMAIN matrix : /\ matrix[i].passed = RunsOf(matrix[i].line, TRUE)
                                /\ matrix[i].failed = RunsOf(matrix[i].line, FALSE)

LocalizationInv ==
    /\ runs \in Seq(TestRun)
    /\ suspicious_line_count \in Nat \ {0}
    /\ RowsCount
    /\ \A i \in DOMAIN runs : runs[i].executed \subseteq InMatrix
    /\ phase \in {"idle", "cover", "refused", "seeded"}
    /\ phase # "cover" => plan.focus = get_top_k_lines
    /\ phase = "seeded" => plan = build_task_plan

Hit(run, l, ok) == IF run.ok = ok /\ l \in run.executed THEN 1 ELSE 0

\* RunsOf, of any list of runs.
RunsIn(rs, l, ok) ==
    Cardinality({i \in DOMAIN rs : rs[i].ok = ok /\ l \in rs[i].executed})

LEMMA RunsAreCounted ==
    ASSUME NEW rs \in Seq(TestRun), NEW l, NEW ok
    PROVE  /\ RunsIn(rs, l, ok) \in Nat
           /\ IsFiniteSet({i \in DOMAIN rs : rs[i].ok = ok /\ l \in rs[i].executed})
<1>1. Len(rs) \in Nat /\ DOMAIN rs = 1..Len(rs)
  OBVIOUS
<1>2. \A k \in Nat : IsFiniteSet(1..k)
  BY FS_Interval
<1>. QED BY <1>1, <1>2, FS_Subset, FS_CardinalityType DEF RunsIn

\* One more run.
LEMMA OneMoreRun ==
    ASSUME NEW rs \in Seq(TestRun), NEW run \in TestRun, NEW l, NEW ok
    PROVE  RunsIn(Append(rs, run), l, ok) = RunsIn(rs, l, ok) + Hit(run, l, ok)
<1>. DEFINE Of == {i \in DOMAIN rs : rs[i].ok = ok /\ l \in rs[i].executed}
            n == Len(rs) + 1
            all == Append(rs, run)
            New == {i \in DOMAIN all : all[i].ok = ok /\ l \in all[i].executed}
<1>1. IsFiniteSet(Of) /\ RunsIn(rs, l, ok) = Cardinality(Of) /\ Cardinality(Of) \in Nat
  BY RunsAreCounted DEF RunsIn
<1>2. RunsIn(all, l, ok) = Cardinality(New)
  BY DEF RunsIn
<1>3. /\ n \in Nat /\ n \notin DOMAIN rs /\ DOMAIN all = DOMAIN rs \cup {n}
      /\ all[n] = run /\ \A i \in DOMAIN rs : all[i] = rs[i]
  OBVIOUS
<1>. HIDE DEF n, all
<1>4. CASE run.ok = ok /\ l \in run.executed
  <2>1. New = Of \cup {n} /\ n \notin Of
    BY <1>3, <1>4
  <2>2. Hit(run, l, ok) = 1
    BY <1>4 DEF Hit
  <2>. HIDE DEF New, Of
  <2>3. Cardinality(Of \cup {n}) = Cardinality(Of) + 1
    BY <1>1, <2>1, FS_AddElement
  <2>. QED BY <1>1, <1>2, <2>1, <2>2, <2>3 DEF all
<1>5. CASE ~(run.ok = ok /\ l \in run.executed)
  <2>1. New = Of
    BY <1>3, <1>5
  <2>2. Hit(run, l, ok) = 0
    BY <1>5 DEF Hit
  <2>. HIDE DEF New, Of
  <2>. QED BY <1>1, <1>2, <2>1, <2>2 DEF all
<1>. QED BY <1>4, <1>5

LEMMA CountedRow ==
    ASSUME NEW row \in Row, NEW ok \in BOOLEAN
    PROVE  /\ Counted(row, ok) \in Row /\ Counted(row, ok).line = row.line
           /\ ok = TRUE  => /\ Counted(row, ok).passed = row.passed + 1
                            /\ Counted(row, ok).failed = row.failed
           /\ ok = FALSE => /\ Counted(row, ok).passed = row.passed
                            /\ Counted(row, ok).failed = row.failed + 1
<1>1. CASE ok = TRUE
  <2>1. PICK q : q = [row EXCEPT !.passed = row.passed + 1]
    OBVIOUS
  <2>2. q \in Row /\ q.line = row.line
    BY <2>1 DEF Row
  <2>3. q.passed = row.passed + 1 /\ q.failed = row.failed
    BY <2>1 DEF Row
  <2>4. Counted(row, ok) = q
    BY <1>1, <2>1, Zenon DEF Counted
  <2>. QED BY <1>1, <2>2, <2>3, <2>4
<1>2. CASE ok = FALSE
  <2>1. PICK q : q = [row EXCEPT !.failed = row.failed + 1]
    OBVIOUS
  <2>2. q \in Row /\ q.line = row.line
    BY <2>1 DEF Row
  <2>3. q.failed = row.failed + 1 /\ q.passed = row.passed
    BY <2>1 DEF Row
  <2>4. Counted(row, ok) = q
    BY <1>2, <2>1, Zenon DEF Counted
  <2>. QED BY <1>2, <2>2, <2>3, <2>4
<1>. QED BY <1>1, <1>2

LEMMA CountedHit ==
    ASSUME NEW row \in Row, NEW run \in TestRun, row.line \in run.executed
    PROVE  /\ Counted(row, run.ok) \in Row
           /\ Counted(row, run.ok).line = row.line
           /\ Counted(row, run.ok).passed = row.passed + Hit(run, row.line, TRUE)
           /\ Counted(row, run.ok).failed = row.failed + Hit(run, row.line, FALSE)
<1>1. row.passed \in Nat /\ row.failed \in Nat
  BY DEF Row
<1>2. PICK ok \in BOOLEAN : ok = run.ok
  BY DEF TestRun
<1>3. CASE ok = TRUE
  <2>1. Hit(run, row.line, TRUE) = 1 /\ Hit(run, row.line, FALSE) = 0
    BY <1>2, <1>3 DEF Hit
  <2>2. /\ Counted(row, ok) \in Row /\ Counted(row, ok).line = row.line
        /\ Counted(row, ok).passed = row.passed + 1
        /\ Counted(row, ok).failed = row.failed
    BY <1>3, CountedRow
  <2>3. row.failed + 0 = row.failed
    BY <1>1
  <2>. QED BY <1>2, <2>1, <2>2, <2>3, Zenon
<1>4. CASE ok = FALSE
  <2>1. Hit(run, row.line, TRUE) = 0 /\ Hit(run, row.line, FALSE) = 1
    BY <1>2, <1>4 DEF Hit
  <2>2. /\ Counted(row, ok) \in Row /\ Counted(row, ok).line = row.line
        /\ Counted(row, ok).passed = row.passed
        /\ Counted(row, ok).failed = row.failed + 1
    BY <1>4, CountedRow
  <2>3. row.passed + 0 = row.passed
    BY <1>1
  <2>. QED BY <1>2, <2>1, <2>2, <2>3, Zenon
<1>. QED BY <1>3, <1>4

LEMMA RunTestKeeps ==
    ASSUME LocalizationInv, NEW run \in TestRun, RunTest(run)
    PROVE  LocalizationInv'
<1>. DEFINE fresh == run.executed \ InMatrix
            new == Ascending(fresh)
            n == Cardinality(fresh)
            m == Len(matrix)
            ok == run.ok
<1>1. /\ phase = "cover" /\ phase' = phase /\ UNCHANGED suspicious_line_count
      /\ runs' = Append(runs, run) /\ matrix' = CountRows(run) \o AddRows(run)
  BY DEF RunTest
<1>2. /\ runs \in Seq(TestRun) /\ matrix \in Seq(Row) /\ m \in Nat /\ DOMAIN matrix = 1..m
      /\ \A i \in 1..m : matrix[i] \in Row
  BY DEF LocalizationInv, RowsCount
<1>3. ok \in BOOLEAN /\ run.executed \in SUBSET (1..Lines)
  BY DEF TestRun
<1>4. /\ n \in Nat /\ new \in [1..n -> fresh]
      /\ \A i, j \in 1..n : new[i] = new[j] => i = j
      /\ \A x \in fresh : \E i \in 1..n : new[i] = x
  <2>1. fresh \in SUBSET (1..Lines)
    BY <1>3
  <2>. HIDE DEF fresh
  <2>. QED BY <2>1, AscendingLists
<1>5. \A i \in 1..m : matrix[i].line \in InMatrix
  BY <1>2 DEF InMatrix
<1>. HIDE DEF new, n
<1>6. /\ CountRows(run) = [i \in 1..m |-> IF matrix[i].line \in run.executed
                            THEN Counted(matrix[i], ok) ELSE matrix[i]]
      /\ AddRows(run) = [i \in 1..n |-> Counted(NewRow(new[i]), ok)]
  <2>1. DOMAIN new = 1..n
    BY <1>4
  <2>. QED BY <1>2, <2>1, Zenon DEF CountRows, AddRows, new
<1>7. ASSUME NEW i \in 1..m
      PROVE  /\ CountRows(run)[i] \in Row
             /\ CountRows(run)[i].line = matrix[i].line
             /\ CountRows(run)[i].passed = matrix[i].passed + Hit(run, matrix[i].line, TRUE)
             /\ CountRows(run)[i].failed = matrix[i].failed + Hit(run, matrix[i].line, FALSE)
  <2>1. matrix[i] \in Row /\ matrix[i].passed \in Nat /\ matrix[i].failed \in Nat
    BY <1>2 DEF Row
  <2>2. CASE matrix[i].line \in run.executed
    <3>1. CountRows(run)[i] = Counted(matrix[i], run.ok)
      BY <1>6, <2>2
    <3>. QED BY <2>1, <2>2, <3>1, CountedHit, Zenon
  <2>3. CASE matrix[i].line \notin run.executed
    <3>1. CountRows(run)[i] = matrix[i]
      BY <1>6, <2>3
    <3>2. Hit(run, matrix[i].line, TRUE) = 0 /\ Hit(run, matrix[i].line, FALSE) = 0
      BY <2>3 DEF Hit
    <3>3. \A k \in Nat : k + 0 = k
      OBVIOUS
    <3>. QED BY <2>1, <3>1, <3>2, <3>3, Zenon
  <2>. QED BY <2>2, <2>3
<1>8. ASSUME NEW i \in 1..n
      PROVE  /\ AddRows(run)[i] \in Row
             /\ AddRows(run)[i].line = new[i]
             /\ new[i] \in run.executed /\ new[i] \notin InMatrix
             /\ AddRows(run)[i].passed = Hit(run, new[i], TRUE)
             /\ AddRows(run)[i].failed = Hit(run, new[i], FALSE)
  <2>1. new[i] \in run.executed /\ new[i] \notin InMatrix
    BY <1>4
  <2>2. /\ NewRow(new[i]) \in Row /\ NewRow(new[i]).line = new[i]
        /\ NewRow(new[i]).passed = 0 /\ NewRow(new[i]).failed = 0
    BY <1>3, <2>1 DEF NewRow, Row
  <2>3. AddRows(run)[i] = Counted(NewRow(new[i]), ok)
    BY <1>6
  <2>4. PICK row : row = NewRow(new[i])
    OBVIOUS
  <2>5. row \in Row /\ row.line = new[i] /\ row.passed = 0 /\ row.failed = 0
    BY <2>2, <2>4
  <2>6. PICK q : q = Counted(row, run.ok)
    OBVIOUS
  <2>7. /\ q \in Row /\ q.line = row.line
        /\ q.passed = row.passed + Hit(run, row.line, TRUE)
        /\ q.failed = row.failed + Hit(run, row.line, FALSE)
    BY <2>1, <2>5, <2>6, CountedHit, Zenon
  <2>8. \A l, o : Hit(run, l, o) \in Nat /\ 0 + Hit(run, l, o) = Hit(run, l, o)
    BY DEF Hit
  <2>9. q = AddRows(run)[i]
    BY <2>3, <2>4, <2>6, Zenon
  <2>. QED BY <2>1, <2>5, <2>7, <2>8, <2>9, Zenon
<1>. HIDE DEF fresh, ok
<1>9. /\ matrix' \in Seq(Row) /\ Len(matrix') = m + n /\ DOMAIN matrix' = 1..m + n
      /\ \A i \in 1..m : matrix'[i] = CountRows(run)[i]
      /\ \A i \in 1..m + n : i > m => i - m \in 1..n /\ matrix'[i] = AddRows(run)[i - m]
  <2>1. CountRows(run) \in Seq(Row) /\ Len(CountRows(run)) = m
    <3>1. PICK a : a = CountRows(run)
      OBVIOUS
    <3>2. a = [i \in 1..m |-> a[i]]
      BY <1>6, <3>1
    <3>3. \A i \in 1..m : a[i] \in Row
      BY <1>7, <3>1
    <3>4. a \in Seq(Row) /\ Len(a) = m
      BY <1>2, <3>2, <3>3
    <3>. QED BY <3>1, <3>4
  <2>2. AddRows(run) \in Seq(Row) /\ Len(AddRows(run)) = n
    <3>1. PICK a : a = AddRows(run)
      OBVIOUS
    <3>2. a = [i \in 1..n |-> a[i]]
      BY <1>6, <3>1
    <3>3. \A i \in 1..n : a[i] \in Row
      BY <1>8, <3>1
    <3>4. a \in Seq(Row) /\ Len(a) = n
      BY <1>4, <3>2, <3>3
    <3>. QED BY <3>1, <3>4
  <2>. DEFINE a == CountRows(run)
              b == AddRows(run)
  <2>. HIDE DEF a, b
  <2>3. a \in Seq(Row) /\ Len(a) = m /\ b \in Seq(Row) /\ Len(b) = n /\ matrix' = a \o b
    BY <1>1, <2>1, <2>2 DEF a, b
  <2>4. /\ matrix' \in Seq(Row) /\ Len(matrix') = m + n
        /\ \A i \in 1..m + n : matrix'[i] = IF i <= m THEN a[i] ELSE b[i - m]
    <3>1. /\ a \o b \in Seq(Row) /\ Len(a \o b) = Len(a) + Len(b)
          /\ \A i \in 1..Len(a) + Len(b) : (a \o b)[i] = IF i <= Len(a) THEN a[i] ELSE b[i - Len(a)]
      BY <2>3, ConcatProperties
    <3>. QED BY <2>3, <3>1
  <2>5. DOMAIN matrix' = 1..m + n
    BY <2>4
  <2>6. \A i \in 1..m : i \in 1..m + n /\ i <= m
    BY <1>2, <1>4
  <2>7. \A i \in 1..m + n : i > m => i - m \in 1..n /\ ~(i <= m)
    BY <1>2, <1>4
  <2>. QED BY <2>4, <2>5, <2>6, <2>7 DEF a, b
<1>10. \A i \in 1..m + n : i \in 1..m \/ (i > m /\ i - m \in 1..n)
  BY <1>2, <1>4
<1>11. \A l, o : /\ RunsIn(runs', l, o) = RunsIn(runs, l, o) + Hit(run, l, o)
               /\ RunsIn(runs, l, o) \in Nat
  BY <1>1, <1>2, OneMoreRun, RunsAreCounted
<1>12. \A l, o : l \notin InMatrix => RunsIn(runs, l, o) = 0
  <2>. SUFFICES ASSUME NEW l, NEW o, l \notin InMatrix
       PROVE  RunsIn(runs, l, o) = 0
    OBVIOUS
  <2>1. \A i \in DOMAIN runs : l \notin runs[i].executed
    BY DEF LocalizationInv
  <2>2. {i \in DOMAIN runs : runs[i].ok = o /\ l \in runs[i].executed} = {}
    BY <2>1
  <2>. QED BY <2>2, FS_EmptySet, Zenon DEF RunsIn
<1>13. \A l, o : Hit(run, l, o) \in Nat
  BY DEF Hit
<1>14. ASSUME NEW i \in 1..m + n
       PROVE  /\ matrix'[i].passed = RunsIn(runs', matrix'[i].line, TRUE)
              /\ matrix'[i].failed = RunsIn(runs', matrix'[i].line, FALSE)
  <2>1. CASE i \in 1..m
    <3>1. /\ matrix[i].passed = RunsIn(runs, matrix[i].line, TRUE)
          /\ matrix[i].failed = RunsIn(runs, matrix[i].line, FALSE)
      BY <1>2, <2>1 DEF LocalizationInv, RowsCount, RunsOf, RunsIn
    <3>2. PICK l : l = matrix[i].line
      OBVIOUS
    <3>3. /\ matrix'[i].line = l
          /\ matrix'[i].passed = RunsIn(runs, l, TRUE) + Hit(run, l, TRUE)
          /\ matrix'[i].failed = RunsIn(runs, l, FALSE) + Hit(run, l, FALSE)
      BY <1>7, <1>9, <2>1, <3>1, <3>2, Zenon
    <3>. QED BY <1>11, <3>3, Zenon
  <2>2. CASE i > m /\ i - m \in 1..n
    <3>1. PICK l : l = new[i - m]
      OBVIOUS
    <3>2. /\ matrix'[i].line = l /\ l \notin InMatrix
          /\ matrix'[i].passed = Hit(run, l, TRUE)
          /\ matrix'[i].failed = Hit(run, l, FALSE)
      BY <1>8, <1>9, <2>2, <3>1, Zenon
    <3>3. \A o : RunsIn(runs', l, o) = Hit(run, l, o)
      BY <1>11, <1>12, <1>13, <3>2
    <3>. QED BY <3>2, <3>3, Zenon
  <2>. QED BY <1>10, <2>1, <2>2
<1>15. ASSUME NEW i \in 1..m + n, NEW j \in 1..m + n, matrix'[i].line = matrix'[j].line
       PROVE  i = j
  <2>1. CASE i \in 1..m /\ j \in 1..m
    <3>1. matrix[i].line = matrix[j].line
      BY <1>7, <1>9, <1>15, <2>1
    <3>. QED BY <1>2, <2>1, <3>1 DEF LocalizationInv, RowsCount
  <2>2. CASE i \in 1..m /\ (j > m /\ j - m \in 1..n)
    <3>1. matrix'[i].line \in InMatrix
      BY <1>5, <1>7, <1>9, <2>2, Zenon
    <3>2. matrix'[j].line \notin InMatrix
      BY <1>8, <1>9, <2>2, Zenon
    <3>. QED BY <1>15, <3>1, <3>2
  <2>3. CASE (i > m /\ i - m \in 1..n) /\ j \in 1..m
    <3>1. matrix'[j].line \in InMatrix
      BY <1>5, <1>7, <1>9, <2>3, Zenon
    <3>2. matrix'[i].line \notin InMatrix
      BY <1>8, <1>9, <2>3, Zenon
    <3>. QED BY <1>15, <3>1, <3>2
  <2>4. CASE (i > m /\ i - m \in 1..n) /\ (j > m /\ j - m \in 1..n)
    <3>1. new[i - m] = new[j - m]
      BY <1>8, <1>9, <1>15, <2>4
    <3>2. i - m = j - m
      BY <1>4, <2>4, <3>1
    <3>. QED BY <1>2, <3>2
  <2>. QED BY <1>10, <2>1, <2>2, <2>3, <2>4
<1>16. RowsCount'
  <2>1. \A i \in DOMAIN matrix' : /\ matrix'[i].passed = RunsIn(runs', matrix'[i].line, TRUE)
                                  /\ matrix'[i].failed = RunsIn(runs', matrix'[i].line, FALSE)
    BY <1>9, <1>14
  <2>. QED BY <1>9, <1>15, <2>1 DEF RowsCount, RunsOf, RunsIn
<1>17. InMatrix \subseteq InMatrix' /\ run.executed \subseteq InMatrix'
  <2>1. ASSUME NEW i \in 1..m + n PROVE matrix'[i].line \in InMatrix'
    BY <1>9 DEF InMatrix
  <2>2. ASSUME NEW l \in InMatrix PROVE l \in InMatrix'
    <3>1. PICK i \in 1..m : l = matrix[i].line
      BY <1>2 DEF InMatrix
    <3>2. i \in 1..m + n
      BY <1>2, <1>4
    <3>3. matrix'[i].line = l
      BY <1>7, <1>9, <3>1, Zenon
    <3>. QED BY <2>1, <3>2, <3>3
  <2>3. ASSUME NEW l \in run.executed, l \notin InMatrix PROVE l \in InMatrix'
    <3>1. PICK i \in 1..n : new[i] = l
      BY <1>4, <2>3 DEF fresh
    <3>2. i + m \in 1..m + n /\ i + m > m /\ (i + m) - m = i
      BY <1>2, <1>4
    <3>3. matrix'[i + m] = AddRows(run)[i]
      BY <1>9, <3>2
    <3>4. matrix'[i + m].line = l
      BY <1>8, <3>1, <3>3
    <3>. QED BY <2>1, <3>2, <3>4
  <2>. QED BY <2>2, <2>3
<1>18. \A i \in DOMAIN runs' : runs'[i].executed \subseteq InMatrix'
  <2>1. \A i \in DOMAIN runs' : runs'[i] = run \/ (i \in DOMAIN runs /\ runs'[i] = runs[i])
    BY <1>1, <1>2
  <2>2. \A i \in DOMAIN runs : runs[i].executed \subseteq InMatrix
    BY DEF LocalizationInv
  <2>. QED BY <1>17, <2>1, <2>2
<1>19. runs' \in Seq(TestRun)
  BY <1>1, <1>2
<1>. QED BY <1>1, <1>16, <1>18, <1>19 DEF LocalizationInv

-----------------------------------------------------------------------------
(* Localization: the ranking                                               *)

\* Sorting by score, and by position where scores are equal.
LEMMA StableSort ==
    ASSUME NEW R \in SUBSET Nat, NEW X \in [R -> Nat], NEW U \in [R -> Nat \ {0}],
           NEW before \in [R -> SUBSET R],
           \A i, j \in R : j \in before[i] <=>
              \/ X[j] * U[i] > X[i] * U[j]
              \/ ~(X[i] * U[j] > X[j] * U[i]) /\ j < i
    PROVE  /\ StrictOrder(R, before)
           /\ \A i \in R : \A j \in before[i] : X[j] * U[i] >= X[i] * U[j]
<1>1. \A i, j \in R : X[i] * U[j] \in Nat /\ i \in Nat
  <2>1. \A a, b \in Nat : a * b \in Nat
    OBVIOUS
  <2>. QED BY <2>1
<1>2. ASSUME NEW i \in R, NEW j \in R, j \in before[i]
      PROVE  X[j] * U[i] >= X[i] * U[j]
  BY <1>1, <1>2
<1>3. \A i \in R : i \notin before[i]
  BY <1>1
<1>4. \A i, j \in R : i = j \/ i \in before[j] \/ j \in before[i]
  BY <1>1
<1>5. ASSUME NEW i \in R, NEW j \in before[i], NEW k \in before[j]
      PROVE  k \in before[i]
  <2>0. j \in R /\ k \in R
    OBVIOUS
  <2>1. X[k] * U[j] >= X[j] * U[k] /\ X[j] * U[i] >= X[i] * U[j]
    BY <1>2, <2>0
  <2>2. /\ X[k] * U[i] >= X[i] * U[k]
        /\ X[k] * U[j] > X[j] * U[k] => X[k] * U[i] > X[i] * U[k]
        /\ X[j] * U[i] > X[i] * U[j] => X[k] * U[i] > X[i] * U[k]
    <3>1. PICK x \in Nat, y \in Nat, z \in Nat,
               u \in Nat \ {0}, v \in Nat \ {0}, w \in Nat \ {0} :
             x = X[k] /\ y = X[j] /\ z = X[i] /\ u = U[k] /\ v = U[j] /\ w = U[i]
      BY <2>0
    <3>2. x * v >= y * u /\ y * w >= z * v
      BY <2>1, <3>1
    <3>3. /\ x * w >= z * u
          /\ x * v > y * u => x * w > z * u
          /\ y * w > z * v => x * w > z * u
      BY <3>2, ScoresCompare
    <3>. QED BY <3>1, <3>3
  <2>3. CASE X[k] * U[j] > X[j] * U[k] \/ X[j] * U[i] > X[i] * U[j]
    BY <2>0, <2>2, <2>3
  <2>4. CASE ~(X[k] * U[j] > X[j] * U[k] \/ X[j] * U[i] > X[i] * U[j])
    <3>1. k < j /\ j < i
      BY <2>0, <2>4
    <3>2. k < i
      BY <1>1, <2>0, <3>1
    <3>3. ~(X[i] * U[k] > X[k] * U[i])
      BY <1>1, <2>0, <2>2
    <3>. QED BY <2>0, <3>2, <3>3
  <2>. QED BY <2>3, <2>4
<1>. QED BY <1>2, <1>3, <1>4, <1>5 DEF StrictOrder

Numerator(i) == matrix[i].failed * matrix[i].failed
Denominator(i) == matrix[i].failed + matrix[i].passed

LEMMA RowFacts ==
    ASSUME LocalizationInv
    PROVE  /\ Len(matrix) \in Nat /\ DOMAIN matrix = 1..Len(matrix)
           /\ \A i \in DOMAIN matrix :
                 /\ matrix[i].line \in 1..Lines
                 /\ matrix[i].passed \in Nat /\ matrix[i].failed \in Nat
                 /\ matrix[i].passed = RunsOf(matrix[i].line, TRUE)
                 /\ matrix[i].failed = RunsOf(matrix[i].line, FALSE)
           /\ \A i \in Ranked : /\ i \in DOMAIN matrix /\ i \in Nat
                                /\ Numerator(i) \in Nat /\ Denominator(i) \in Nat \ {0}
           /\ IsFiniteSet(Ranked)
<1>1. matrix \in Seq(Row)
  BY DEF LocalizationInv, RowsCount
<1>2. Len(matrix) \in Nat /\ DOMAIN matrix = 1..Len(matrix)
  BY <1>1
<1>3. \A i \in DOMAIN matrix : matrix[i].line \in 1..Lines
                             /\ matrix[i].passed \in Nat /\ matrix[i].failed \in Nat
  <2>1. \A i \in DOMAIN matrix : matrix[i] \in Row
    BY <1>1, <1>2
  <2>2. \A r \in Row : r.line \in 1..Lines /\ r.passed \in Nat /\ r.failed \in Nat
    BY DEF Row
  <2>. QED BY <2>1, <2>2
<1>4. ASSUME NEW i \in Ranked
      PROVE  i \in DOMAIN matrix /\ i \in Nat
             /\ Numerator(i) \in Nat /\ Denominator(i) \in Nat \ {0}
  <2>1. i \in DOMAIN matrix /\ matrix[i].failed > 0
    BY DEF Ranked
  <2>2. \A a, b \in Nat : a > 0 => a * a \in Nat /\ a + b \in Nat \ {0}
    OBVIOUS
  <2>. QED BY <1>2, <1>3, <2>1, <2>2 DEF Numerator, Denominator
<1>5. IsFiniteSet(Ranked)
  <2>1. \A k \in Nat : IsFiniteSet(1..k)
    BY FS_Interval
  <2>. QED BY <1>2, <2>1, FS_Subset DEF Ranked
<1>6. \A i \in DOMAIN matrix : /\ matrix[i].passed = RunsOf(matrix[i].line, TRUE)
                               /\ matrix[i].failed = RunsOf(matrix[i].line, FALSE)
  BY DEF LocalizationInv, RowsCount
<1>. QED BY <1>2, <1>3, <1>4, <1>5, <1>6

\* RankedBefore is a strict order, and descends in score.
LEMMA RankingDescends ==
    ASSUME LocalizationInv
    PROVE  /\ StrictOrder(Ranked, [i \in Ranked |-> RankedBefore(i)])
           /\ \A i \in Ranked : \A j \in RankedBefore(i) :
                 Numerator(j) * Denominator(i) >= Numerator(i) * Denominator(j)
<1>. DEFINE X == [i \in Ranked |-> Numerator(i)]
            U == [i \in Ranked |-> Denominator(i)]
            before == [i \in Ranked |-> RankedBefore(i)]
<1>1. X \in [Ranked -> Nat] /\ U \in [Ranked -> Nat \ {0}] /\ Ranked \in SUBSET Nat
  BY RowFacts
<1>2. before \in [Ranked -> SUBSET Ranked]
  BY DEF RankedBefore
<1>3. ASSUME NEW i \in Ranked, NEW j \in Ranked
      PROVE  j \in before[i] <=> \/ X[j] * U[i] > X[i] * U[j]
                                 \/ ~(X[i] * U[j] > X[j] * U[i]) /\ j < i
  BY DEF RankedBefore, MoreSuspicious, Numerator, Denominator
<1>4. /\ StrictOrder(Ranked, before)
      /\ \A i \in Ranked : \A j \in before[i] : X[j] * U[i] >= X[i] * U[j]
  <2>. HIDE DEF X, U, before
  <2>. QED BY <1>1, <1>2, <1>3, StableSort
<1>5. ASSUME NEW i \in Ranked, NEW j \in RankedBefore(i)
      PROVE  Numerator(j) * Denominator(i) >= Numerator(i) * Denominator(j)
  <2>1. j \in before[i] /\ j \in Ranked
    BY DEF RankedBefore
  <2>2. X[j] * U[i] >= X[i] * U[j]
    BY <1>4, <2>1
  <2>. QED BY <2>1, <2>2
<1>. QED BY <1>4, <1>5

\* Rank r is held by position pos[r].
Ranking(n, pos) ==
    /\ pos \in [1..n -> Ranked]
    /\ rank_suspicious_lines = [r \in 1..n |-> matrix[pos[r]].line]
    /\ \A i \in Ranked : \E r \in 1..n : pos[r] = i
    /\ \A r \in 1..n : Cardinality(RankedBefore(pos[r])) = r - 1
    /\ \A r, s \in 1..n : r < s => pos[r] \in RankedBefore(pos[s])
    /\ \A r, s \in 1..n : pos[r] = pos[s] => r = s

LEMMA RankingExists ==
    ASSUME LocalizationInv
    PROVE  /\ Cardinality(Ranked) \in Nat
           /\ \E pos : Ranking(Cardinality(Ranked), pos)
<1>. DEFINE n == Cardinality(Ranked)
            before == [i \in Ranked |-> RankedBefore(i)]
            pos == [r \in 1..n |-> CHOOSE i \in Ranked : Cardinality(RankedBefore(i)) = r - 1]
<1>0. \A i \in Ranked : before[i] = RankedBefore(i)
  OBVIOUS
<1>1. /\ n \in Nat
      /\ \A i \in Ranked : Cardinality(before[i]) \in 0..n - 1
      /\ \A i, j \in Ranked :
            j \in before[i] <=> Cardinality(before[j]) < Cardinality(before[i])
      /\ \A i, j \in Ranked : Cardinality(before[j]) = Cardinality(before[i]) => i = j
      /\ \A r \in 0..n - 1 : \E i \in Ranked : Cardinality(before[i]) = r
  <2>1. StrictOrder(Ranked, before) /\ IsFiniteSet(Ranked)
    BY RankingDescends, RowFacts
  <2>. HIDE DEF before
  <2>. QED BY <2>1, PlacesInOrder
<1>. HIDE DEF before, n
<1>2. ASSUME NEW r \in 1..n
      PROVE  pos[r] \in Ranked /\ Cardinality(RankedBefore(pos[r])) = r - 1
  <2>1. r - 1 \in 0..n - 1
    BY <1>1
  <2>2. \E i \in Ranked : Cardinality(RankedBefore(i)) = r - 1
    BY <1>0, <1>1, <2>1
  <2>3. pos[r] = CHOOSE i \in Ranked : Cardinality(RankedBefore(i)) = r - 1
    OBVIOUS
  <2>. HIDE DEF pos
  <2>. QED BY <2>2, <2>3
<1>3. rank_suspicious_lines = [r \in 1..n |-> matrix[pos[r]].line]
  BY DEF rank_suspicious_lines, n
<1>4. pos \in [1..n -> Ranked]
  BY <1>2
<1>. HIDE DEF pos
<1>5. ASSUME NEW i \in Ranked PROVE \E r \in 1..n : pos[r] = i
  <2>1. PICK r : r = Cardinality(before[i]) + 1
    OBVIOUS
  <2>2. r \in 1..n /\ r - 1 = Cardinality(before[i])
    BY <1>1, <2>1
  <2>3. pos[r] \in Ranked /\ Cardinality(before[pos[r]]) = Cardinality(before[i])
    BY <1>0, <1>2, <2>2
  <2>. QED BY <1>1, <2>2, <2>3
<1>6. ASSUME NEW r \in 1..n, NEW s \in 1..n, r < s
      PROVE  pos[r] \in RankedBefore(pos[s])
  <2>1. r - 1 < s - 1
    BY <1>6
  <2>2. Cardinality(before[pos[r]]) < Cardinality(before[pos[s]])
    BY <1>0, <1>2, <2>1
  <2>. QED BY <1>0, <1>1, <1>2, <2>2
<1>7. \A r, s \in 1..n : pos[r] = pos[s] => r = s
  BY <1>2
<1>8. Ranking(n, pos)
  BY <1>2, <1>3, <1>4, <1>5, <1>6, <1>7 DEF Ranking
<1>. QED BY <1>1, <1>8 DEF n

\* The lines of the ranked rows are the suspects.
LEMMA SuspectsAreRanked ==
    ASSUME LocalizationInv
    PROVE  /\ \A i \in Ranked : matrix[i].line \in Suspects
           /\ \A l \in Suspects : \E i \in Ranked : matrix[i].line = l
           /\ Cardinality(Suspects) = Cardinality(Ranked)
<1>1. ASSUME NEW i \in Ranked PROVE matrix[i].line \in Suspects
  BY RowFacts DEF Ranked, Suspects
<1>2. ASSUME NEW l \in Suspects PROVE \E i \in Ranked : matrix[i].line = l
  <2>1. RunsOf(l, FALSE) > 0
    BY DEF Suspects
  <2>2. l \in InMatrix
    <3>1. CASE \A i \in DOMAIN runs : l \notin runs[i].executed
      <4>1. {i \in DOMAIN runs : runs[i].ok = FALSE /\ l \in runs[i].executed} = {}
        BY <3>1
      <4>2. RunsOf(l, FALSE) = 0
        BY <4>1, FS_EmptySet, Zenon DEF RunsOf
      <4>3. 0 > 0
        BY <2>1, <4>2, Zenon
      <4>. QED BY <4>3
    <3>2. CASE \E i \in DOMAIN runs : l \in runs[i].executed
      BY <3>2 DEF LocalizationInv
    <3>. QED BY <3>1, <3>2
  <2>3. PICK i \in DOMAIN matrix : l = matrix[i].line
    BY <2>2 DEF InMatrix
  <2>4. matrix[i].failed > 0
    BY <2>1, <2>3, RowFacts
  <2>. QED BY <2>3, <2>4 DEF Ranked
<1>3. Cardinality(Suspects) = Cardinality(Ranked)
  <2>. DEFINE f == [i \in Ranked |-> matrix[i].line]
  <2>1. f \in [Ranked -> Suspects]
    BY <1>1
  <2>2. \A i, j \in Ranked : f[i] = f[j] => i = j
    BY DEF LocalizationInv, RowsCount, Ranked
  <2>3. \A l \in Suspects : \E i \in Ranked : f[i] = l
    BY <1>2
  <2>. HIDE DEF f
  <2>4. f \in Injection(Ranked, Suspects) /\ f \in Surjection(Ranked, Suspects)
    BY <2>1, <2>2, <2>3 DEF Injection, IsInjective, Surjection
  <2>. QED BY <2>4, RowFacts, FS_Surjection
<1>. QED BY <1>1, <1>2, <1>3

LEMMA LeastOfTwo ==
    ASSUME NEW i \in Int, NEW j \in Int
    PROVE  /\ Min({i, j}) = IF i <= j THEN i ELSE j
           /\ Max({i, j}) = IF i >= j THEN i ELSE j
<1>1. PICK m : m = IF i <= j THEN i ELSE j
  OBVIOUS
<1>2. PICK k : k = IF i >= j THEN i ELSE j
  OBVIOUS
<1>3. /\ m \in {i, j} /\ \A y \in {i, j} : m <= y
      /\ \A x \in {i, j} : (\A y \in {i, j} : x <= y) => x = m
  BY <1>1
<1>4. /\ k \in {i, j} /\ \A y \in {i, j} : k >= y
      /\ \A x \in {i, j} : (\A y \in {i, j} : x >= y) => x = k
  BY <1>2
<1>5. Min({i, j}) = m
  BY <1>3 DEF Min
<1>6. Max({i, j}) = k
  BY <1>4 DEF Max
<1>. QED BY <1>1, <1>2, <1>5, <1>6

LEMMA AtLeastOfRows ==
    ASSUME LocalizationInv, NEW i \in Ranked, NEW j \in Ranked,
           Numerator(i) * Denominator(j) >= Numerator(j) * Denominator(i)
    PROVE  AtLeast(matrix[i].line, matrix[j].line)
<1>1. PICK a, b, c, d : /\ a = RunsOf(matrix[i].line, FALSE) /\ b = RunsOf(matrix[i].line, TRUE)
                        /\ c = RunsOf(matrix[j].line, FALSE) /\ d = RunsOf(matrix[j].line, TRUE)
  OBVIOUS
<1>2. a = matrix[i].failed /\ b = matrix[i].passed /\ c = matrix[j].failed /\ d = matrix[j].passed
  <2>1. i \in DOMAIN matrix /\ j \in DOMAIN matrix
    BY RowFacts
  <2>. QED BY <1>1, <2>1, RowFacts, Zenon
<1>3. (a * a) * (c + d) >= (c * c) * (a + b)
  BY <1>2, Zenon DEF Numerator, Denominator
<1>. QED BY <1>1, <1>3, Zenon DEF AtLeast

\* The first lines of the ranking, as many as are asked for.
LEMMA FocusOfRanking ==
    ASSUME LocalizationInv, NEW pos, Ranking(Cardinality(Ranked), pos)
    PROVE  LET n == Cardinality(Ranked)
               m == IF suspicious_line_count < n THEN suspicious_line_count ELSE n
           IN  /\ get_top_k_lines \in Seq(Int)
               /\ Len(get_top_k_lines) = m
               /\ \A r \in 1..m : r \in 1..n /\ get_top_k_lines[r] = matrix[pos[r]].line
<1>. DEFINE n == Cardinality(Ranked)
            m == IF suspicious_line_count < n THEN suspicious_line_count ELSE n
            rank == rank_suspicious_lines
<1>1. n \in Nat /\ suspicious_line_count \in Nat /\ m \in Nat /\ m <= n
  BY RankingExists DEF LocalizationInv
<1>2. ASSUME NEW r \in 1..n PROVE matrix[pos[r]].line \in Int
  <2>1. pos[r] \in DOMAIN matrix
    BY RowFacts DEF Ranking
  <2>2. matrix[pos[r]].line \in 1..Lines
    BY <2>1, RowFacts
  <2>. QED BY <2>2, LocalizationAssumption
<1>3. rank = [r \in 1..n |-> matrix[pos[r]].line]
  BY DEF Ranking
<1>. HIDE DEF n, rank
<1>4. rank \in Seq(Int) /\ Len(rank) = n
  BY <1>1, <1>2, <1>3
<1>5. get_top_k_lines = SubSeq(rank, 1, m)
  BY <1>4 DEF get_top_k_lines, Prefix, rank
<1>. HIDE DEF m
<1>6. /\ SubSeq(rank, 1, m) \in Seq(Int) /\ Len(SubSeq(rank, 1, m)) = m
      /\ \A r \in 1..m : SubSeq(rank, 1, m)[r] = rank[r]
  BY <1>1, <1>4, Beginning
<1>7. \A r \in 1..m : r \in 1..n /\ rank[r] = matrix[pos[r]].line
  BY <1>1, <1>3
<1>8. /\ get_top_k_lines \in Seq(Int) /\ Len(get_top_k_lines) = m
      /\ \A r \in 1..m : r \in 1..n /\ get_top_k_lines[r] = matrix[pos[r]].line
  BY <1>5, <1>6, <1>7
<1>. QED BY <1>8 DEF n, m

LEMMA FocusRanksFirst ==
    ASSUME LocalizationInv, phase # "cover"
    PROVE  FocusIsMostSuspicious
<1>. DEFINE f == plan.focus
            in == {f[i] : i \in DOMAIN f}
            n == Cardinality(Ranked)
            m == IF suspicious_line_count < n THEN suspicious_line_count ELSE n
<1>1. f = get_top_k_lines
  BY DEF LocalizationInv
<1>2. PICK pos : Ranking(n, pos)
  BY RankingExists
<1>3. /\ f \in Seq(Int) /\ Len(f) = m /\ DOMAIN f = 1..m
      /\ \A r \in 1..m : r \in 1..n /\ f[r] = matrix[pos[r]].line
  <2>1. /\ get_top_k_lines \in Seq(Int) /\ Len(get_top_k_lines) = m
        /\ \A r \in 1..m : r \in 1..n /\ get_top_k_lines[r] = matrix[pos[r]].line
    BY <1>2, FocusOfRanking
  <2>. HIDE DEF f, m
  <2>2. f \in Seq(Int) /\ Len(f) = m
    BY <1>1, <2>1
  <2>. QED BY <1>1, <2>1, <2>2
<1>4. n \in Nat /\ m \in Nat /\ m <= n /\ suspicious_line_count \in Nat
  BY RankingExists DEF LocalizationInv
<1>5. m = Min({suspicious_line_count, Cardinality(Suspects)})
  <2>1. Cardinality(Suspects) = n
    BY SuspectsAreRanked
  <2>2. Min({suspicious_line_count, n})
           = IF suspicious_line_count <= n THEN suspicious_line_count ELSE n
    BY <1>4, LeastOfTwo
  <2>. HIDE DEF n
  <2>. QED BY <1>4, <2>1, <2>2
<1>. HIDE DEF f, m, n
<1>6. ASSUME NEW r \in 1..m
      PROVE  pos[r] \in Ranked /\ f[r] \in Suspects
  <2>1. r \in 1..n /\ f[r] = matrix[pos[r]].line
    BY <1>3
  <2>2. pos[r] \in Ranked
    BY <1>2, <2>1 DEF Ranking
  <2>. QED BY <2>1, <2>2, SuspectsAreRanked
<1>7. in \subseteq Suspects
  BY <1>3, <1>6
<1>8. \A r, s \in 1..m : f[r] = f[s] => r = s
  <2>. SUFFICES ASSUME NEW r \in 1..m, NEW s \in 1..m, f[r] = f[s] PROVE r = s
    OBVIOUS
  <2>1. matrix[pos[r]].line = matrix[pos[s]].line
    BY <1>3
  <2>2. pos[r] \in DOMAIN matrix /\ pos[s] \in DOMAIN matrix
    BY <1>6, RowFacts
  <2>3. pos[r] = pos[s]
    BY <2>1, <2>2 DEF LocalizationInv, RowsCount
  <2>4. r \in 1..n /\ s \in 1..n
    BY <1>3
  <2>. QED BY <1>2, <2>3, <2>4 DEF Ranking
<1>9. Cardinality(in) = m
  <2>1. f \in [1..m -> in]
    <3>1. f = [r \in 1..m |-> f[r]]
      BY <1>3
    <3>. QED BY <1>3, <3>1
  <2>2. \A x \in in : \E r \in 1..m : f[r] = x
    BY <1>3
  <2>3. IsFiniteSet(1..m) /\ Cardinality(1..m) = m
    <3>1. \A k \in Nat : IsFiniteSet(1..k) /\ Cardinality(1..k) = k
      BY FS_Interval
    <3>. QED BY <1>4, <3>1
  <2>. HIDE DEF in
  <2>4. f \in Injection(1..m, in) /\ f \in Surjection(1..m, in)
    BY <1>8, <2>1, <2>2 DEF Injection, IsInjective, Surjection
  <2>. QED BY <2>3, <2>4, FS_Surjection
<1>10. ASSUME NEW r \in 1..n, NEW s \in 1..n, r < s
       PROVE  AtLeast(matrix[pos[r]].line, matrix[pos[s]].line)
  <2>1. pos[r] \in Ranked /\ pos[s] \in Ranked /\ pos[r] \in RankedBefore(pos[s])
    BY <1>2, <1>10 DEF Ranking
  <2>. QED BY <2>1, RankingDescends, AtLeastOfRows
<1>11. \A i, j \in DOMAIN f : i < j => AtLeast(f[i], f[j])
  BY <1>3, <1>10
<1>12. ASSUME NEW k \in in, NEW l \in Suspects \ in PROVE AtLeast(k, l)
  <2>1. PICK r \in 1..m : k = f[r]
    BY <1>3
  <2>2. PICK q \in Ranked : matrix[q].line = l
    BY SuspectsAreRanked
  <2>3. PICK s \in 1..n : pos[s] = q
    BY <1>2 DEF Ranking
  <2>4. ~(s \in 1..m)
    BY <1>3, <2>2, <2>3
  <2>5. r < s /\ r \in 1..n
    BY <1>4, <2>4
  <2>. QED BY <1>3, <1>10, <2>1, <2>2, <2>3, <2>5
<1>. HIDE DEF in
<1>13. /\ Len(f) = Min({suspicious_line_count, Cardinality(Suspects)})
       /\ in \subseteq Suspects /\ Cardinality(in) = Len(f)
       /\ \A i, j \in DOMAIN f : i < j => AtLeast(f[i], f[j])
       /\ \A k \in in, l \in Suspects \ in : AtLeast(k, l)
  BY <1>3, <1>5, <1>7, <1>9, <1>11, <1>12
<1>. QED BY <1>13, Zenon DEF FocusIsMostSuspicious, f, in

-----------------------------------------------------------------------------
(* Localization: the culprit                                               *)

\* The score of F failing runs and no passing one, against any other.
LEMMA CulpritScore ==
    ASSUME NEW F \in Nat \ {0}, NEW a \in Nat \ {0}, NEW p \in Nat,
           a <= F, ~(a = F /\ p = 0)
    PROVE  F * F * (a + p) > a * a * (F + 0)
<1>1. \A x, y \in Nat : x * y \in Nat
  OBVIOUS
<1>2. \A x, y, z \in Nat : x > y /\ z > 0 => x * z > y * z
  OBVIOUS
<1>3. F * (a + p) > a * a
  <2>1. F * (a + p) = F * a + F * p /\ F * p >= 0
    OBVIOUS
  <2>2. CASE a < F
    <3>1. F * a > a * a
      BY <1>2, <2>2
    <3>2. F * a \in Nat /\ F * p \in Nat /\ a * a \in Nat
      BY <1>1
    <3>. QED BY <2>1, <3>1, <3>2
  <2>3. CASE a = F /\ p > 0
    <3>1. F * p > 0
      BY <2>3
    <3>2. F * a \in Nat /\ F * p \in Nat /\ a * a \in Nat
      BY <1>1
    <3>. QED BY <2>1, <2>3, <3>1, <3>2
  <2>. QED BY <2>2, <2>3
<1>4. (F * (a + p)) * F > (a * a) * F
  <2>1. F * (a + p) \in Nat /\ a * a \in Nat
    BY <1>1
  <2>. QED BY <1>2, <1>3, <2>1
<1>5. (F * (a + p)) * F = F * F * (a + p) /\ F + 0 = F
  OBVIOUS
<1>. QED BY <1>4, <1>5

Fails(l) == {i \in DOMAIN runs : runs[i].ok = FALSE /\ l \in runs[i].executed}
Passes(l) == {i \in DOMAIN runs : runs[i].ok = TRUE /\ l \in runs[i].executed}

LEMMA CulpritRuns ==
    ASSUME LocalizationInv, NEW l \in Suspects
    PROVE  Culprit(l) <=> /\ Passes(l) = {}
                          /\ \A i \in DOMAIN runs :
                                runs[i].executed # {} /\ runs[i].ok = FALSE => i \in Fails(l)
<1>1. \A i \in DOMAIN runs : runs[i].ok = TRUE \/ runs[i].ok = FALSE
  <2>1. runs \in Seq(TestRun)
    BY DEF LocalizationInv
  <2>2. \A i \in DOMAIN runs : runs[i] \in TestRun
    BY <2>1
  <2>. QED BY <2>2 DEF TestRun
<1>2. ASSUME NEW i \in DOMAIN runs
      PROVE  (runs[i].executed # {} => (l \in runs[i].executed <=> ~runs[i].ok))
             <=> /\ ~(runs[i].ok = TRUE /\ l \in runs[i].executed)
                 /\ runs[i].executed # {} /\ runs[i].ok = FALSE => l \in runs[i].executed
  <2>1. CASE runs[i].ok = TRUE
    BY <2>1
  <2>2. CASE runs[i].ok = FALSE
    BY <2>2
  <2>. QED BY <1>1, <2>1, <2>2
<1>3. Culprit(l) <=> \A i \in DOMAIN runs :
         runs[i].executed # {} => (l \in runs[i].executed <=> ~runs[i].ok)
  BY DEF Culprit
<1>. QED BY <1>2, <1>3, Zenon DEF Passes, Fails

\* No other suspect has as high a score as the culprit.
LEMMA CulpritIsMoreSuspicious ==
    ASSUME LocalizationInv, NEW q \in Ranked, NEW j \in Ranked,
           Culprit(matrix[q].line), ~Culprit(matrix[j].line)
    PROVE  MoreSuspicious(matrix[q], matrix[j])
<1>1. PICK l, k : l = matrix[q].line /\ k = matrix[j].line
  OBVIOUS
<1>2. l \in Suspects /\ k \in Suspects /\ Culprit(l) /\ ~Culprit(k)
  BY <1>1, SuspectsAreRanked
<1>3. /\ Passes(l) = {}
      /\ \A i \in DOMAIN runs :
            runs[i].executed # {} /\ runs[i].ok = FALSE => i \in Fails(l)
  BY <1>2, CulpritRuns
<1>4. Fails(k) \subseteq Fails(l)
  <2>1. ASSUME NEW i \in Fails(k) PROVE i \in Fails(l)
    <3>1. i \in DOMAIN runs /\ runs[i].ok = FALSE /\ k \in runs[i].executed
      BY DEF Fails
    <3>2. runs[i].executed # {}
      BY <3>1
    <3>. QED BY <1>3, <3>1, <3>2
  <2>. QED BY <2>1
<1>5. /\ matrix[q].failed = Cardinality(Fails(l)) /\ matrix[q].passed = Cardinality(Passes(l))
      /\ matrix[j].failed = Cardinality(Fails(k)) /\ matrix[j].passed = Cardinality(Passes(k))
  <2>1. q \in DOMAIN matrix /\ j \in DOMAIN matrix
    BY RowFacts
  <2>2. /\ matrix[q].failed = RunsOf(l, FALSE) /\ matrix[q].passed = RunsOf(l, TRUE)
        /\ matrix[j].failed = RunsOf(k, FALSE) /\ matrix[j].passed = RunsOf(k, TRUE)
    BY <1>1, <2>1, RowFacts, Zenon
  <2>. QED BY <2>2, Zenon DEF RunsOf, Fails, Passes
<1>6. /\ IsFiniteSet(Fails(l)) /\ IsFiniteSet(Passes(k))
      /\ matrix[q].passed = 0
  <2>1. runs \in Seq(TestRun)
    BY DEF LocalizationInv
  <2>2. IsFiniteSet(Fails(l)) /\ IsFiniteSet(Passes(k))
    <3>1. Len(runs) \in Nat /\ DOMAIN runs = 1..Len(runs)
      BY <2>1
    <3>2. \A i \in Nat : IsFiniteSet(1..i)
      BY FS_Interval
    <3>3. IsFiniteSet(DOMAIN runs)
      BY <3>1, <3>2
    <3>4. Fails(l) \subseteq DOMAIN runs /\ Passes(k) \subseteq DOMAIN runs
      BY DEF Fails, Passes
    <3>. QED BY <3>3, <3>4, FS_Subset
  <2>. QED BY <1>3, <1>5, <2>2, FS_EmptySet
<1>7. PICK F \in Nat \ {0}, a \in Nat \ {0}, p \in Nat :
         F = matrix[q].failed /\ a = matrix[j].failed /\ p = matrix[j].passed
  <2>1. /\ q \in DOMAIN matrix /\ matrix[q].failed > 0
        /\ j \in DOMAIN matrix /\ matrix[j].failed > 0
    BY DEF Ranked
  <2>2. /\ matrix[q].failed \in Nat /\ matrix[j].failed \in Nat
        /\ matrix[j].passed \in Nat
    BY <2>1, RowFacts
  <2>. QED BY <2>1, <2>2
<1>8. a <= F /\ (a = F => Fails(k) = Fails(l))
  BY <1>4, <1>5, <1>6, <1>7, FS_Subset
<1>9. p = 0 => Passes(k) = {}
  BY <1>5, <1>6, <1>7, FS_EmptySet
<1>10. ~(a = F /\ p = 0)
  BY <1>2, <1>3, <1>8, <1>9, CulpritRuns
<1>11. F * F * (a + p) > a * a * (F + 0)
  BY <1>8, <1>10, CulpritScore
<1>. QED BY <1>6, <1>7, <1>11 DEF MoreSuspicious

LEMMA CulpritRanksFirst ==
    ASSUME LocalizationInv, NEW l \in 1..Lines, Culprit(l),
           \A k \in 1..Lines : Culprit(k) => k = l,
           NEW pos, Ranking(Cardinality(Ranked), pos)
    PROVE  Cardinality(Ranked) \in Nat \ {0} /\ matrix[pos[1]].line = l
<1>. DEFINE n == Cardinality(Ranked)
<1>1. PICK q \in Ranked : matrix[q].line = l
  BY SuspectsAreRanked DEF Culprit
<1>2. ASSUME NEW j \in RankedBefore(q) PROVE FALSE
  <2>1. j \in Ranked
    BY DEF RankedBefore
  <2>2. q \in DOMAIN matrix /\ j \in DOMAIN matrix /\ q \in Nat /\ j \in Nat
    BY <2>1, RowFacts
  <2>3. j # q
    <3>1. q \notin RankedBefore(q)
      BY RankingDescends DEF StrictOrder
    <3>. QED BY <3>1
  <2>4. matrix[j].line # l /\ matrix[j].line \in 1..Lines
    BY <1>1, <2>2, <2>3, RowFacts DEF LocalizationInv, RowsCount
  <2>5. ~Culprit(matrix[j].line)
    BY <2>4
  <2>6. MoreSuspicious(matrix[q], matrix[j])
    BY <1>1, <2>1, <2>5, CulpritIsMoreSuspicious
  <2>7. MoreSuspicious(matrix[j], matrix[q])
    BY <2>6 DEF RankedBefore
  <2>8. /\ Numerator(q) * Denominator(j) > Numerator(j) * Denominator(q)
        /\ Numerator(j) * Denominator(q) > Numerator(q) * Denominator(j)
    BY <2>6, <2>7 DEF MoreSuspicious, Numerator, Denominator
  <2>9. /\ Numerator(q) \in Nat /\ Denominator(j) \in Nat
        /\ Numerator(j) \in Nat /\ Denominator(q) \in Nat
    BY <2>1, RowFacts
  <2>10. \A x, y \in Nat : x * y \in Nat
    OBVIOUS
  <2>11. /\ Numerator(q) * Denominator(j) \in Nat
         /\ Numerator(j) * Denominator(q) \in Nat
    BY <2>9, <2>10
  <2>. QED BY <2>8, <2>11
<1>3. Cardinality(RankedBefore(q)) = 0
  BY <1>2, FS_EmptySet
<1>4. PICK r \in 1..n : pos[r] = q
  BY <1>1 DEF Ranking
<1>5. r - 1 = 0
  BY <1>3, <1>4 DEF Ranking
<1>6. n \in Nat
  BY RankingExists
<1>7. r = 1 /\ n # 0
  BY <1>5, <1>6
<1>. QED BY <1>1, <1>4, <1>6, <1>7

LEMMA CulpritIsFirstTarget ==
    ASSUME LocalizationInv
    PROVE  CulpritIsTargeted
<1>. SUFFICES ASSUME phase = "seeded", NEW l \in 1..Lines, Culprit(l),
                     \A k \in 1..Lines : Culprit(k) => k = l,
                     NEW d \in 0..MaxDepth
     PROVE  target_lines(plan, d) # <<>> /\ target_lines(plan, d)[1] = l
  BY DEF CulpritIsTargeted
<1>1. PICK pos : Ranking(Cardinality(Ranked), pos)
  BY RankingExists
<1>. DEFINE f == get_top_k_lines
            n == Cardinality(Ranked)
            m == IF suspicious_line_count < n THEN suspicious_line_count ELSE n
<1>2. n \in Nat \ {0} /\ matrix[pos[1]].line = l
  BY <1>1, CulpritRanksFirst
<1>3. /\ f \in Seq(Int) /\ Len(f) = m
      /\ \A r \in 1..m : r \in 1..n /\ f[r] = matrix[pos[r]].line
  BY <1>1, FocusOfRanking
<1>4. m \in Nat \ {0}
  BY <1>2 DEF LocalizationInv
<1>. HIDE DEF f, m, n
<1>5. f \in Seq(Int) /\ f # <<>> /\ Len(f) \in Nat \ {0} /\ f[1] = l
  <2>1. 1 \in 1..m
    BY <1>4
  <2>2. Len(f) # 0
    BY <1>3, <1>4
  <2>. QED BY <1>2, <1>3, <1>4, <2>1, <2>2
<1>6. /\ plan.strategy \in {"focused", "balanced"} /\ plan.focus = f
  BY <1>5 DEF LocalizationInv, build_task_plan, f
<1>7. ASSUME NEW k \in Nat \ {0}
      PROVE  Prefix(f, k) # <<>> /\ Prefix(f, k)[1] = l
  <2>1. PICK j \in Nat \ {0} : j <= Len(f) /\ Prefix(f, k) = SubSeq(f, 1, j)
    BY <1>5 DEF Prefix
  <2>2. Len(SubSeq(f, 1, j)) = j /\ \A i \in 1..j : SubSeq(f, 1, j)[i] = f[i]
    BY <1>5, <2>1, Beginning
  <2>3. 1 \in 1..j /\ Len(SubSeq(f, 1, j)) # 0
    BY <2>1, <2>2
  <2>4. Len(<<>>) = 0
    OBVIOUS
  <2>5. SubSeq(f, 1, j) # <<>>
    BY <2>3, <2>4, Zenon
  <2>6. SubSeq(f, 1, j)[1] = l
    BY <1>5, <2>2, <2>3, Zenon
  <2>. QED BY <2>1, <2>5, <2>6, Zenon
<1>8. d \in Nat
  BY LocalizationAssumption
<1>9. CASE plan.strategy = "focused"
  <2>1. target_lines(plan, d) = Prefix(f, 2 + Min({d, 2}))
    BY <1>6, <1>9, Zenon DEF target_lines
  <2>2. 2 + Min({d, 2}) \in Nat \ {0}
    BY <1>8, LeastOfTwo
  <2>. QED BY <1>7, <2>1, <2>2
<1>10. CASE plan.strategy = "balanced"
  <2>1. target_lines(plan, d) = Prefix(f, Max({3, Min({Len(f), 3 + d})}))
    BY <1>6, <1>10 DEF target_lines
  <2>2. Min({Len(f), 3 + d}) \in Int
    <3>1. Len(f) \in Int /\ 3 + d \in Int
      BY <1>5, <1>8
    <3>2. \A i, j \in Int : Min({i, j}) \in Int
      BY LeastOfTwo
    <3>. QED BY <3>1, <3>2
  <2>3. Max({3, Min({Len(f), 3 + d})}) \in Nat \ {0}
    <3>1. \A i \in Int : Max({3, i}) \in Nat \ {0}
      <4>1. \A h, i \in Int : Max({h, i}) = IF h >= i THEN h ELSE i
        BY LeastOfTwo
      <4>2. \A i \in Int : Max({3, i}) = IF 3 >= i THEN 3 ELSE i
        <5>1. 3 \in Int
          OBVIOUS
        <5>. QED BY <4>1, <5>1
      <4>3. \A i \in Int : (IF 3 >= i THEN 3 ELSE i) \in Nat \ {0}
        OBVIOUS
      <4>. QED BY <4>2, <4>3
    <3>. QED BY <2>2, <3>1
  <2>. QED BY <1>7, <2>1, <2>3
<1>. QED BY <1>6, <1>9, <1>10

LEMMA RowsStay ==
    ASSUME LocalizationInv, UNCHANGED <<runs, matrix>>
    PROVE  RowsCount'
<1>1. /\ matrix \in Seq(Row)
      /\ \A i, j \in DOMAIN matrix : matrix[i].line = matrix[j].line => i = j
  BY DEF LocalizationInv, RowsCount
<1>2. \A i \in DOMAIN matrix : /\ matrix[i].passed = RunsIn(runs, matrix[i].line, TRUE)
                               /\ matrix[i].failed = RunsIn(runs, matrix[i].line, FALSE)
  BY Zenon DEF LocalizationInv, RowsCount, RunsOf, RunsIn
<1>3. \A i \in DOMAIN matrix' : /\ matrix'[i].passed = RunsIn(runs', matrix'[i].line, TRUE)
                                /\ matrix'[i].failed = RunsIn(runs', matrix'[i].line, FALSE)
  BY <1>2, Zenon
<1>4. /\ matrix' \in Seq(Row)
      /\ \A i, j \in DOMAIN matrix' : matrix'[i].line = matrix'[j].line => i = j
  BY <1>1, Zenon
<1>. QED BY <1>3, <1>4, Zenon DEF RowsCount, RunsOf, RunsIn

LEMMA PlanTaskKeeps ==
    ASSUME LocalizationInv, PlanTask
    PROVE  LocalizationInv'
<1>1. /\ phase' \in {"refused", "seeded"} /\ plan' = build_task_plan
      /\ UNCHANGED <<suspicious_line_count, runs, matrix, total_failed>>
  BY DEF PlanTask
<1>2. build_task_plan' = build_task_plan /\ get_top_k_lines' = get_top_k_lines
  BY <1>1 DEF build_task_plan, get_top_k_lines, rank_suspicious_lines, Ranked,
     RankedBefore, InMatrix
<1>3. build_task_plan.focus = get_top_k_lines
  BY DEF build_task_plan
<1>4. RowsCount' /\ \A i \in DOMAIN runs' : runs'[i].executed \subseteq InMatrix'
  <2>1. RowsCount'
    BY <1>1, RowsStay
  <2>2. InMatrix' = InMatrix
    BY <1>1 DEF InMatrix
  <2>. QED BY <1>1, <2>1, <2>2 DEF LocalizationInv
<1>. QED BY <1>1, <1>2, <1>3, <1>4 DEF LocalizationInv

LEMMA LocalizationStutters ==
    ASSUME LocalizationInv, UNCHANGED localizationVars
    PROVE  LocalizationInv'
<1>1. UNCHANGED <<phase, suspicious_line_count, runs, matrix, total_failed, plan>>
  BY DEF localizationVars
<1>2. build_task_plan' = build_task_plan /\ get_top_k_lines' = get_top_k_lines
  BY <1>1 DEF build_task_plan, get_top_k_lines, rank_suspicious_lines, Ranked,
     RankedBefore, InMatrix
<1>3. RowsCount' /\ \A i \in DOMAIN runs' : runs'[i].executed \subseteq InMatrix'
  <2>1. RowsCount'
    BY <1>1, RowsStay
  <2>2. InMatrix' = InMatrix
    BY <1>1 DEF InMatrix
  <2>. QED BY <1>1, <2>1, <2>2 DEF LocalizationInv
<1>. QED BY <1>1, <1>2, <1>3 DEF LocalizationInv

LEMMA LocalizationBegins == LocalizationInit \/ LocalizationIdle => LocalizationInv
<1>. SUFFICES ASSUME LocalizationInit \/ LocalizationIdle PROVE LocalizationInv
  OBVIOUS
<1>1. /\ phase \in {"idle", "cover"} /\ runs = <<>> /\ matrix = <<>> /\ plan = NoPlan
      /\ suspicious_line_count \in Nat \ {0}
  BY LocalizationAssumption DEF LocalizationInit, LocalizationIdle
<1>2. get_top_k_lines = <<>>
  <2>1. Ranked = {}
    BY <1>1 DEF Ranked
  <2>2. Cardinality(Ranked) = 0
    BY <2>1, FS_EmptySet
  <2>3. rank_suspicious_lines = <<>>
    BY <2>2 DEF rank_suspicious_lines
  <2>. QED BY <1>1, <2>3 DEF get_top_k_lines, Prefix
<1>3. plan.focus = <<>>
  BY <1>1 DEF NoPlan
<1>4. RowsCount /\ runs \in Seq(TestRun) /\ \A i \in DOMAIN runs : runs[i].executed \subseteq InMatrix
  BY <1>1 DEF RowsCount
<1>. QED BY <1>1, <1>2, <1>3, <1>4 DEF LocalizationInv

LEMMA LocalizationStep ==
    ASSUME LocalizationInv, LocalizationNext \/ UNCHANGED localizationVars
    PROVE  LocalizationInv'
BY RunTestKeeps, PlanTaskKeeps, LocalizationStutters DEF LocalizationNext

\* For any number of tests and lines and whatever the tests execute, the
\* focus of a plan is the beginning of the suspects in descending order of
\* their Ochiai score, as long as it may be.
THEOREM FocusIsRanking == Spec => []FocusIsMostSuspicious
<1>1. Init => LocalizationInv
  BY LocalizationBegins DEF Init
<1>2. LocalizationInv /\ [Next]_vars => LocalizationInv'
  BY LocalizationStep DEF Next, vars
<1>3. LocalizationInv => FocusIsMostSuspicious
  <2>1. phase = "cover" => FocusIsMostSuspicious
    BY DEF FocusIsMostSuspicious
  <2>. QED BY <2>1, FocusRanksFirst
<1>. QED BY <1>1, <1>2, <1>3, PTL DEF Spec

\* A line that alone is executed by exactly the failing tests is what every
\* expansion works on first, for any number of tests, lines and levels.
THEOREM CulpritComesFirst == Spec => []CulpritIsTargeted
<1>1. Init => LocalizationInv
  BY LocalizationBegins DEF Init
<1>2. LocalizationInv /\ [Next]_vars => LocalizationInv'
  BY LocalizationStep DEF Next, vars
<1>3. LocalizationInv => CulpritIsTargeted
  BY CulpritIsFirstTarget
<1>. QED BY <1>1, <1>2, <1>3, PTL DEF Spec

-----------------------------------------------------------------------------
(* The oracle                                                              *)
(*                                                                         *)
(* A candidate differs from the program in one outer comparison.  If its   *)
(* inner comparison is changed at a shared place, its width is the same,   *)
(* so that the outer one is at a shared place as well, one column earlier: *)
(* the first changed pair that the oracle finds is the outer one, whose    *)
(* values then are all that the programs can differ in.                    *)

Nesting == [kind : {"par"}, inner : Inner]
Outmost == Comparison(PlainOperand \cup Nesting)

\* q is p with the outer comparison number j of line i replaced by d.
Differs(p, q, i, j, d) ==
    /\ DOMAIN q = DOMAIN p
    /\ \A k \in DOMAIN p : DOMAIN q[k] = DOMAIN p[k]
    /\ \A k \in DOMAIN p : \A l \in DOMAIN p[k] :
          k # i \/ l # j => q[k][l] = p[k][l]
    /\ q[i][j] = d

\* Either the inner comparison of c is changed or the rest of it.
OnePart(c, d) ==
    c.left.kind = "par" /\ d.left.kind = "par" =>
        \/ c.left.inner = d.left.inner
        \/ c.op = d.op /\ c.right = d.right

OneChange(p, q) ==
    \E i \in DOMAIN p : \E j \in DOMAIN p[i] : \E d \in Outmost :
        Differs(p, q, i, j, d) /\ OnePart(p[i][j], d)

LEMMA TextLines ==
    ASSUME NEW p \in Text, NEW i \in DOMAIN p, NEW j \in DOMAIN p[i]
    PROVE  p[i][j] \in Outmost
<1>1. PICK S : S = Outmost
  OBVIOUS
<1>2. p \in Seq(Seq(S))
  BY <1>1 DEF Text, Outmost, Nesting
<1>3. p[i] \in Seq(S)
  BY <1>2
<1>. QED BY <1>1, <1>3

LEMMA PlainWidths ==
    ASSUME NEW x \in PlainOperand
    PROVE  PlainWidth(x) \in Nat /\ x.kind # "par" /\ OperandWidth(x) = PlainWidth(x)
<1>1. x.kind \in {"num", "sum", "str"}
  BY DEF PlainOperand
<1>2. \A op : OpWidth(op) \in Nat
  BY DEF OpWidth
<1>3. PlainWidth(x) \in Nat
  <2>1. CASE x.kind = "str"
    <3>1. x.extra \in Nat
      BY <2>1 DEF PlainOperand
    <3>. QED BY <1>2, <2>1, <3>1 DEF PlainWidth
  <2>2. CASE x.kind # "str"
    BY <1>1, <2>2 DEF PlainWidth
  <2>. QED BY <2>1, <2>2
<1>. QED BY <1>1, <1>3 DEF OperandWidth

LEMMA Widths ==
    /\ \A c \in Inner : Width(c) \in Nat /\ Width(c) = CompareWidth(c, PlainWidth(c.left))
    /\ \A c \in Outmost : Width(c) \in Nat
    /\ \A c \in Outmost : c.left.kind = "par" =>
          c.left.inner \in Inner /\ OperandWidth(c.left) = 2 + Width(c.left.inner)
<1>1. \A op : OpWidth(op) \in Nat
  BY DEF OpWidth
<1>2. \A c \in Inner : Width(c) \in Nat /\ Width(c) = CompareWidth(c, PlainWidth(c.left))
  <2>. TAKE c \in Inner
  <2>1. c.left \in PlainOperand /\ c.right \in PlainOperand
    BY DEF Inner, Comparison
  <2>2. PlainWidth(c.left) \in Nat /\ PlainWidth(c.right) \in Nat
        /\ OperandWidth(c.left) = PlainWidth(c.left)
    BY <2>1, PlainWidths
  <2>. QED BY <1>1, <2>2 DEF Width, CompareWidth
<1>3. ASSUME NEW c \in Outmost, c.left.kind = "par"
      PROVE  c.left.inner \in Inner /\ OperandWidth(c.left) = 2 + Width(c.left.inner)
  <2>1. c.left \in PlainOperand \/ c.left \in Nesting
    BY DEF Outmost, Comparison
  <2>2. c.left \in Nesting
    BY <1>3, <2>1, PlainWidths
  <2>3. c.left.inner \in Inner
    BY <2>2 DEF Nesting
  <2>. QED BY <1>2, <1>3, <2>3 DEF OperandWidth
<1>4. ASSUME NEW c \in Outmost PROVE Width(c) \in Nat
  <2>1. /\ c.left \in PlainOperand \/ c.left \in Nesting
        /\ c.right \in PlainOperand
    BY DEF Outmost, Comparison
  <2>2. PlainWidth(c.right) \in Nat
    BY <2>1, PlainWidths
  <2>3. OperandWidth(c.left) \in Nat
    <3>1. CASE c.left \in PlainOperand
      BY <3>1, PlainWidths
    <3>2. CASE c.left \in Nesting
      <4>1. c.left.kind = "par"
        BY <3>2 DEF Nesting
      <4>. QED BY <1>2, <1>3, <4>1
    <3>. QED BY <2>1, <3>1, <3>2
  <2>. QED BY <1>1, <2>2, <2>3 DEF Width, CompareWidth
<1>. QED BY <1>2, <1>3, <1>4

LEMMA NodeFacts ==
    ASSUME NEW p, NEW n \in Nodes(p)
    PROVE  \E i \in DOMAIN p : \E j \in DOMAIN p[i] :
              \/ n = <<i, j, FALSE>>
              \/ n = <<i, j, TRUE>> /\ p[i][j].left.kind = "par"
<1>1. \A m \in Outer(p) : \E i \in DOMAIN p : \E j \in DOMAIN p[i] : m = <<i, j, FALSE>>
  BY DEF Outer
<1>2. CASE n \in Outer(p)
  BY <1>1, <1>2
<1>3. CASE n \notin Outer(p)
  <2>1. PICK m \in Outer(p) : n = <<m[1], m[2], TRUE>> /\ At(p, m).left.kind = "par"
    BY <1>3 DEF Nodes
  <2>2. PICK i \in DOMAIN p : \E j \in DOMAIN p[i] : m = <<i, j, FALSE>>
    BY <1>1, <2>1
  <2>3. PICK j \in DOMAIN p[i] : m = <<i, j, FALSE>>
    BY <2>2
  <2>4. n = <<i, j, TRUE>> /\ At(p, m) = p[i][j]
    BY <2>1, <2>3 DEF At
  <2>. QED BY <2>1, <2>4
<1>. QED BY <1>2, <1>3

\* The places of an outer comparison and of the one in its parentheses.
Start(p, i, j) == IF j = 1 THEN 0 ELSE Width(p[i][1]) + 5

Placed(p, q, i, j, d) ==
    /\ Start(p, i, j) \in Nat
    /\ Location(p, <<i, j, FALSE>>) =
          <<i, Start(p, i, j), Start(p, i, j) + Width(p[i][j])>>
    /\ Location(q, <<i, j, FALSE>>) =
          <<i, Start(p, i, j), Start(p, i, j) + Width(d)>>
    /\ Location(p, <<i, j, TRUE>>) =
          <<i, Start(p, i, j) + 1, Start(p, i, j) + 1 + Width(p[i][j].left.inner)>>
    /\ Location(q, <<i, j, TRUE>>) =
          <<i, Start(p, i, j) + 1, Start(p, i, j) + 1 + Width(d.left.inner)>>

LEMMA Places ==
    ASSUME NEW p \in Text, NEW q, NEW i \in DOMAIN p, NEW j \in DOMAIN p[i],
           NEW d \in Outmost, Differs(p, q, i, j, d)
    PROVE  Placed(p, q, i, j, d)
<1>1. 1 \in DOMAIN p[i] /\ j \in Nat
  <2>1. PICK S : p \in Seq(Seq(S))
    BY DEF Text
  <2>2. p[i] \in Seq(S)
    BY <2>1
  <2>3. j \in 1..Len(p[i]) /\ Len(p[i]) \in Nat /\ DOMAIN p[i] = 1..Len(p[i])
    BY <2>2
  <2>. QED BY <2>3
<1>2. p[i][1] \in Outmost
  BY <1>1, TextLines
<1>3. Start(p, i, j) \in Nat
  BY <1>2, Widths DEF Start
<1>4. Start(q, i, j) = Start(p, i, j)
  <2>1. CASE j = 1
    BY <2>1 DEF Start
  <2>2. CASE j # 1
    <3>1. q[i][1] = p[i][1]
      BY <1>1, <2>2 DEF Differs
    <3>. QED BY <3>1 DEF Start
  <2>. QED BY <2>1, <2>2
<1>5. ASSUME NEW r, Start(r, i, j) \in Nat
      PROVE  /\ Location(r, <<i, j, FALSE>>) =
                   <<i, Start(r, i, j), Start(r, i, j) + Width(r[i][j])>>
             /\ Location(r, <<i, j, TRUE>>) =
                   <<i, Start(r, i, j) + 1, Start(r, i, j) + 1 + Width(r[i][j].left.inner)>>
  <2>1. At(r, <<i, j, FALSE>>) = r[i][j] /\ At(r, <<i, j, TRUE>>) = r[i][j].left.inner
    BY DEF At
  <2>2. PICK s : s = Start(r, i, j)
    OBVIOUS
  <2>3. /\ Location(r, <<i, j, FALSE>>) = <<i, s + 0, s + 0 + Width(r[i][j])>>
        /\ Location(r, <<i, j, TRUE>>) = <<i, s + 1, s + 1 + Width(r[i][j].left.inner)>>
    BY <2>1, <2>2 DEF Location, Start
  <2>. QED BY <1>5, <2>2, <2>3
<1>6. q[i][j] = d
  BY DEF Differs
<1>. QED BY <1>3, <1>4, <1>5, <1>6 DEF Placed

\* What is in parentheses is no wider or narrower without the whole being so.
LEMMA SameWidth ==
    ASSUME NEW c \in Outmost, NEW d \in Outmost, c.left.kind = "par", d.left.kind = "par",
           c.op = d.op, c.right = d.right, Width(c.left.inner) = Width(d.left.inner)
    PROVE  Width(c) = Width(d)
<1>1. OperandWidth(c.left) = OperandWidth(d.left)
  BY Widths
<1>. QED BY <1>1 DEF Width, CompareWidth

LEMMA OracleFindsOuter ==
    ASSUME NEW p \in Text, NEW q, NEW i \in DOMAIN p, NEW j \in DOMAIN p[i],
           NEW d \in Outmost, Differs(p, q, i, j, d), OnePart(p[i][j], d),
           ChangedAt(p, q) # {}
    PROVE  First(ChangedAt(p, q), p) = <<i, j, FALSE>>
<1>1. PICK o, t, c : o = <<i, j, FALSE>> /\ t = <<i, j, TRUE>> /\ c = p[i][j]
  OBVIOUS
<1>2. /\ At(p, o) = c /\ At(p, t) = c.left.inner
      /\ At(q, o) = d /\ At(q, t) = d.left.inner
      /\ c \in Outmost /\ OnePart(c, d)
  BY <1>1, TextLines DEF At, Differs
<1>3. PICK s \in Nat :
         /\ Location(p, o) = <<i, s, s + Width(c)>>
         /\ Location(q, o) = <<i, s, s + Width(d)>>
         /\ Location(p, t) = <<i, s + 1, s + 1 + Width(c.left.inner)>>
         /\ Location(q, t) = <<i, s + 1, s + 1 + Width(d.left.inner)>>
  <2>1. PICK s : s = Start(p, i, j)
    OBVIOUS
  <2>2. /\ s \in Nat
        /\ Location(p, o) = <<i, s, s + Width(c)>>
        /\ Location(q, o) = <<i, s, s + Width(d)>>
        /\ Location(p, t) = <<i, s + 1, s + 1 + Width(c.left.inner)>>
        /\ Location(q, t) = <<i, s + 1, s + 1 + Width(d.left.inner)>>
    <3>1. Placed(p, q, i, j, d)
      BY Places
    <3>. QED BY <1>1, <2>1, <3>1, Zenon DEF Placed
  <2>. QED BY <2>2
<1>4. ASSUME NEW m \in ChangedAt(p, q) PROVE m \in {o, t}
  <2>1. m \in Nodes(p) /\ At(p, m) # At(q, m)
    BY DEF ChangedAt, Shared
  <2>2. PICK k \in DOMAIN p : \E l \in DOMAIN p[k] :
           \/ m = <<k, l, FALSE>>
           \/ m = <<k, l, TRUE>> /\ p[k][l].left.kind = "par"
    BY <2>1, NodeFacts, Zenon
  <2>3. PICK l \in DOMAIN p[k] : m = <<k, l, FALSE>> \/ m = <<k, l, TRUE>>
    BY <2>2, Zenon
  <2>4. q[k][l] # p[k][l]
    <3>1. CASE m = <<k, l, FALSE>>
      BY <2>1, <3>1 DEF At
    <3>2. CASE m = <<k, l, TRUE>>
      BY <2>1, <3>2 DEF At
    <3>. QED BY <2>3, <3>1, <3>2
  <2>5. k = i /\ l = j
    BY <2>4 DEF Differs
  <2>. QED BY <1>1, <2>3, <2>5
<1>5. o \in Nodes(p) /\ o \in Nodes(q)
  <2>1. i \in DOMAIN q /\ j \in DOMAIN q[i]
    BY DEF Differs
  <2>. QED BY <1>1, <2>1 DEF Nodes, Outer
<1>6. t \in ChangedAt(p, q) => o \in ChangedAt(p, q)
  <2>. SUFFICES ASSUME t \in ChangedAt(p, q) PROVE o \in ChangedAt(p, q)
    OBVIOUS
  <2>1. /\ t \in Nodes(p) /\ t \in Nodes(q) /\ Location(p, t) = Location(q, t)
        /\ c.left.inner # d.left.inner
    BY <1>2 DEF ChangedAt, Shared
  <2>2. c.left.kind = "par" /\ d.left.kind = "par"
    <3>1. ASSUME NEW r, t \in Nodes(r) PROVE r[i][j].left.kind = "par"
      <4>1. PICK k \in DOMAIN r : \E l \in DOMAIN r[k] :
               \/ t = <<k, l, FALSE>>
               \/ t = <<k, l, TRUE>> /\ r[k][l].left.kind = "par"
        BY <3>1, NodeFacts, Zenon
      <4>2. PICK l \in DOMAIN r[k] :
               \/ t = <<k, l, FALSE>>
               \/ t = <<k, l, TRUE>> /\ r[k][l].left.kind = "par"
        BY <4>1
      <4>3. t[1] = i /\ t[2] = j /\ t[3] = TRUE
        BY <1>1
      <4>4. CASE t = <<k, l, FALSE>>
        BY <4>3, <4>4
      <4>5. CASE t = <<k, l, TRUE>> /\ r[k][l].left.kind = "par"
        <5>1. k = i /\ l = j
          BY <4>3, <4>5
        <5>. QED BY <4>5, <5>1
      <4>. QED BY <4>2, <4>4, <4>5
    <3>2. q[i][j] = d
      BY DEF Differs
    <3>. QED BY <1>1, <2>1, <3>1, <3>2
  <2>3. c.left.inner \in Inner /\ d.left.inner \in Inner
    BY <1>2, <2>2, Widths
  <2>4. Width(c.left.inner) \in Nat /\ Width(d.left.inner) \in Nat
    BY <2>3, Widths
  <2>5. s + 1 + Width(c.left.inner) = s + 1 + Width(d.left.inner)
    BY <1>3, <2>1
  <2>6. Width(c.left.inner) = Width(d.left.inner)
    BY <2>4, <2>5
  <2>7. c.op = d.op /\ c.right = d.right
    BY <1>2, <2>1, <2>2 DEF OnePart
  <2>8. Width(c) = Width(d)
    BY <1>2, <2>2, <2>6, <2>7, SameWidth
  <2>9. Location(p, o) = Location(q, o)
    BY <1>3, <2>8
  <2>10. c # d
    BY <2>1
  <2>. QED BY <1>2, <1>5, <2>9, <2>10 DEF ChangedAt, Shared
<1>7. o \in ChangedAt(p, q)
  BY <1>4, <1>6
<1>8. o[1] = i /\ t[1] = i /\ Location(p, o)[2] = s /\ Location(p, t)[2] = s + 1
  BY <1>1, <1>3
<1>9. i \in Nat
  <2>1. PICK S : p \in Seq(S)
    BY DEF Text
  <2>. QED BY <2>1
<1>. DEFINE Earliest(n) == \A m \in ChangedAt(p, q) :
              \/ n[1] < m[1]
              \/ n[1] = m[1] /\ Location(p, n)[2] <= Location(p, m)[2]
<1>10. Earliest(o)
  BY <1>4, <1>8, <1>9
<1>11. ~Earliest(t)
  BY <1>7, <1>8, <1>9
<1>12. \A n \in ChangedAt(p, q) : Earliest(n) <=> n = o
  BY <1>4, <1>10, <1>11
<1>13. First(ChangedAt(p, q), p) = CHOOSE n \in ChangedAt(p, q) : Earliest(n)
  BY DEF First
<1>. HIDE DEF Earliest
<1>. QED BY <1>1, <1>7, <1>12, <1>13

LEMMA OracleConcludes ==
    ASSUME NEW p \in Text, NEW q, OneChange(p, q), is_semantically_equivalent(p, q)
    PROVE  Equivalent(p, q)
<1>1. CASE p = q
  BY <1>1 DEF Equivalent
<1>2. CASE p # q
  <2>1. PICK i \in DOMAIN p : \E j \in DOMAIN p[i] : \E d \in Outmost :
           Differs(p, q, i, j, d) /\ OnePart(p[i][j], d)
    BY DEF OneChange
  <2>2. PICK j \in DOMAIN p[i] : \E d \in Outmost :
           Differs(p, q, i, j, d) /\ OnePart(p[i][j], d)
    BY <2>1
  <2>3. PICK d \in Outmost : Differs(p, q, i, j, d) /\ OnePart(p[i][j], d)
    BY <2>2
  <2>4. PICK o : o = <<i, j, FALSE>>
    OBVIOUS
  <2>5. ChangedAt(p, q) # {}
    BY <1>2, Zenon DEF is_semantically_equivalent
  <2>6. First(ChangedAt(p, q), p) = o
    BY <2>3, <2>4, <2>5, OracleFindsOuter
  <2>7. Supported(At(p, o)) /\ Supported(At(q, o)) /\ SameForAll(At(p, o), At(q, o))
    BY <1>2, <2>6, Zenon DEF is_semantically_equivalent
  <2>8. ASSUME NEW n \in Outer(p), n # o PROVE At(p, n) = At(q, n)
    <3>1. PICK k \in DOMAIN p : \E l \in DOMAIN p[k] : n = <<k, l, FALSE>>
      BY DEF Outer
    <3>2. PICK l \in DOMAIN p[k] : n = <<k, l, FALSE>>
      BY <3>1
    <3>3. k # i \/ l # j
      BY <2>4, <2>8, <3>2
    <3>4. q[k][l] = p[k][l]
      BY <2>3, <3>3 DEF Differs
    <3>. QED BY <3>2, <3>4 DEF At
  <2>. QED BY <2>7, <2>8, Zenon DEF Equivalent
<1>. QED BY <1>1, <1>2

\* What the patcher makes of a comparison.

LEMMA PutOuter ==
    ASSUME NEW p \in Text, NEW i \in DOMAIN p, NEW j \in DOMAIN p[i], NEW d
    PROVE  Differs(p, Put(p, <<i, j, FALSE>>, d), i, j, d)
<1>1. Put(p, <<i, j, FALSE>>, d) = [p EXCEPT ![i][j] = d]
  BY DEF Put
<1>2. PICK S : p \in Seq(Seq(S))
  BY DEF Text
<1>3. \A k \in DOMAIN p : p[k] \in Seq(S)
  BY <1>2
<1>4. PICK q : q = [p EXCEPT ![i][j] = d]
  OBVIOUS
<1>5. PICK r : r = [p[i] EXCEPT ![j] = d]
  OBVIOUS
<1>6. DOMAIN r = DOMAIN p[i] /\ r[j] = d /\ \A l \in DOMAIN p[i] : l # j => r[l] = p[i][l]
  BY <1>3, <1>5
<1>7. DOMAIN q = DOMAIN p /\ q[i] = r /\ \A k \in DOMAIN p : k # i => q[k] = p[k]
  BY <1>2, <1>4, <1>5
<1>8. Differs(p, q, i, j, d)
  BY <1>6, <1>7 DEF Differs
<1>. QED BY <1>1, <1>4, <1>8

\* The outer comparison c with what is in its parentheses replaced by e.
Around(c, e) == [left  |-> Par(e), op |-> c.op, right |-> c.right, split |-> c.split]

LEMMA PutInner ==
    ASSUME NEW p \in Text, NEW i \in DOMAIN p, NEW j \in DOMAIN p[i],
           p[i][j].left.kind = "par", NEW e \in Inner
    PROVE  /\ OneChange(p, Put(p, <<i, j, TRUE>>, e))
           /\ Put(p, <<i, j, TRUE>>, e)[i][j].left.inner = e
<1>1. PICK c : c = p[i][j]
  OBVIOUS
<1>2. PICK d : d = Around(c, e)
  OBVIOUS
<1>3. /\ c \in Outmost /\ c.left \in Nesting /\ c.op \in Symbol
      /\ c.right \in PlainOperand /\ c.split \in BOOLEAN
  <2>1. c \in Outmost
    BY <1>1, TextLines
  <2>2. c.left \in PlainOperand \/ c.left \in Nesting
    BY <2>1 DEF Outmost, Comparison
  <2>3. c.left \notin PlainOperand
    BY <1>1, PlainWidths
  <2>. QED BY <2>1, <2>2, <2>3 DEF Outmost, Comparison
<1>4. [c EXCEPT !.left.inner = e] = d
  <2>1. c = [left |-> c.left, op |-> c.op, right |-> c.right, split |-> c.split]
    BY <1>3 DEF Outmost, Comparison
  <2>2. c.left = [kind |-> "par", inner |-> c.left.inner]
    BY <1>3 DEF Nesting
  <2>3. [c.left EXCEPT !.inner = e] = Par(e)
    BY <2>2 DEF Par
  <2>4. [c EXCEPT !.left = Par(e)] = d
    BY <1>2, <2>1 DEF Around
  <2>5. [c EXCEPT !.left.inner = e] = [c EXCEPT !.left = [c.left EXCEPT !.inner = e]]
    BY <2>1
  <2>. QED BY <2>3, <2>4, <2>5
<1>5. /\ d \in Outmost /\ OnePart(c, d)
  <2>1. Par(e) \in Nesting
    BY DEF Par, Nesting
  <2>. QED BY <1>2, <1>3, <2>1 DEF Around, Outmost, Comparison, OnePart
<1>6. Put(p, <<i, j, TRUE>>, e) = Put(p, <<i, j, FALSE>>, d)
  <2>1. PICK S : p \in Seq(Seq(S))
    BY DEF Text
  <2>2. Put(p, <<i, j, TRUE>>, e) = [p EXCEPT ![i][j].left.inner = e]
    BY DEF Put
  <2>3. Put(p, <<i, j, FALSE>>, d) = [p EXCEPT ![i][j] = d]
    BY DEF Put
  <2>4. [p EXCEPT ![i][j].left.inner = e] = [p EXCEPT ![i][j] = [c EXCEPT !.left.inner = e]]
    BY <1>1, <2>1
  <2>. QED BY <1>4, <2>2, <2>3, <2>4
<1>7. Differs(p, Put(p, <<i, j, TRUE>>, e), i, j, d)
  BY <1>6, PutOuter
<1>8. d.left.inner = e
  BY <1>2 DEF Around, Par
<1>9. Put(p, <<i, j, TRUE>>, e)[i][j] = d
  BY <1>7 DEF Differs
<1>. QED BY <1>1, <1>5, <1>7, <1>8, <1>9 DEF OneChange

LEMMA SwapsAreOperators == \A op \in DOMAIN Swaps : Swaps[op] \in Symbol /\ Swaps[op] # op
<1>1. DOMAIN Swaps = {"<", "<=", ">", ">=", "==", "!="}
  BY DEF Swaps
<1>2. /\ Swaps["<"] = "<=" /\ Swaps["<="] = "<"
      /\ Swaps[">"] = ">=" /\ Swaps[">="] = ">"
      /\ Swaps["=="] = "!=" /\ Swaps["!="] = "=="
  BY DEF Swaps
<1>. QED BY <1>1, <1>2 DEF Symbol

LEMMA SwapChanges ==
    ASSUME NEW p \in Text, NEW n \in Nodes(p), At(p, n).op \in DOMAIN Swaps
    PROVE  OneChange(p, SwapAt(p, n)) /\ SwapAt(p, n) # p
<1>1. PICK i \in DOMAIN p : \E j \in DOMAIN p[i] :
         \/ n = <<i, j, FALSE>>
         \/ n = <<i, j, TRUE>> /\ p[i][j].left.kind = "par"
  BY NodeFacts
<1>2. PICK j \in DOMAIN p[i] :
         \/ n = <<i, j, FALSE>>
         \/ n = <<i, j, TRUE>> /\ p[i][j].left.kind = "par"
  BY <1>1
<1>3. PICK c : c = p[i][j] /\ c \in Outmost
  BY TextLines
<1>4. PICK d : d = [At(p, n) EXCEPT !.op = Swaps[@]]
  OBVIOUS
<1>5. SwapAt(p, n) = Put(p, n, d)
  BY <1>4 DEF SwapAt
<1>6. CASE n = <<i, j, FALSE>>
  <2>1. At(p, n) = c
    BY <1>3, <1>6 DEF At
  <2>2. d \in Outmost /\ OnePart(c, d)
    BY <1>3, <1>4, <2>1, SwapsAreOperators DEF Outmost, Comparison, OnePart
  <2>3. Differs(p, Put(p, n, d), i, j, d)
    BY <1>6, PutOuter
  <2>4. d.op # c.op
    BY <1>3, <1>4, <2>1, SwapsAreOperators DEF Outmost, Comparison
  <2>5. Put(p, n, d)[i][j] = d
    BY <2>3 DEF Differs
  <2>6. Put(p, n, d) # p
    BY <1>3, <2>4, <2>5
  <2>. QED BY <1>3, <1>5, <2>2, <2>3, <2>6 DEF OneChange
<1>7. CASE n = <<i, j, TRUE>> /\ p[i][j].left.kind = "par"
  <2>1. At(p, n) = c.left.inner
    BY <1>3, <1>7 DEF At
  <2>2. c.left.inner \in Inner
    BY <1>3, <1>7, Widths
  <2>3. d \in Inner
    BY <1>4, <2>1, <2>2, SwapsAreOperators DEF Inner, Comparison
  <2>4. d.op # c.left.inner.op
    BY <1>4, <2>1, <2>2, SwapsAreOperators DEF Inner, Comparison
  <2>5. OneChange(p, Put(p, n, d)) /\ Put(p, n, d)[i][j].left.inner = d
    BY <1>7, <2>3, PutInner
  <2>6. Put(p, n, d) # p
    BY <1>3, <2>4, <2>5
  <2>. QED BY <1>5, <2>5, <2>6
<1>. QED BY <1>2, <1>6, <1>7

\* A string that is the left operand of a comparison, with a new text.
LEMMA NewText ==
    ASSUME NEW S, NEW c \in Comparison(S), c.left.kind = "str",
           S = PlainOperand \/ S = PlainOperand \cup Nesting, NEW x \in Symbol
    PROVE  [c EXCEPT !.left.text = x] \in Comparison(S)
<1>1. c.left \in [kind : {"str"}, text : Symbol, extra : Nat]
  BY DEF Comparison, PlainOperand, Nesting
<1>2. PICK y : y = [c.left EXCEPT !.text = x]
  OBVIOUS
<1>3. y \in [kind : {"str"}, text : Symbol, extra : Nat]
  BY <1>1, <1>2
<1>4. y \in S
  BY <1>3 DEF PlainOperand
<1>5. [c EXCEPT !.left.text = x] = [c EXCEPT !.left = y]
  BY <1>2 DEF Comparison
<1>. QED BY <1>4, <1>5 DEF Comparison

LEMMA ReplacedText ==
    ASSUME NEW p \in Text, NEW n \in Nodes(p), At(p, n).left.kind = "str", NEW x \in Symbol
    PROVE  OneChange(p, Put(p, n, [At(p, n) EXCEPT !.left.text = x]))
<1>1. PICK i \in DOMAIN p : \E j \in DOMAIN p[i] :
         \/ n = <<i, j, FALSE>>
         \/ n = <<i, j, TRUE>> /\ p[i][j].left.kind = "par"
  BY NodeFacts
<1>2. PICK j \in DOMAIN p[i] :
         \/ n = <<i, j, FALSE>>
         \/ n = <<i, j, TRUE>> /\ p[i][j].left.kind = "par"
  BY <1>1
<1>3. PICK c : c = p[i][j] /\ c \in Outmost
  BY TextLines
<1>4. PICK d : d = [At(p, n) EXCEPT !.left.text = x]
  OBVIOUS
<1>5. CASE n = <<i, j, FALSE>>
  <2>1. At(p, n) = c
    BY <1>3, <1>5 DEF At
  <2>2. d \in Outmost
    BY <1>3, <1>4, <2>1, NewText DEF Outmost
  <2>3. OnePart(c, d)
    BY <2>1 DEF OnePart
  <2>4. Differs(p, Put(p, n, d), i, j, d)
    BY <1>5, PutOuter
  <2>. QED BY <1>3, <1>4, <2>2, <2>3, <2>4 DEF OneChange
<1>6. CASE n = <<i, j, TRUE>> /\ p[i][j].left.kind = "par"
  <2>1. At(p, n) = c.left.inner
    BY <1>3, <1>6 DEF At
  <2>2. c.left.inner \in Inner
    BY <1>3, <1>6, Widths
  <2>3. d \in Inner
    BY <1>4, <2>1, <2>2, NewText DEF Inner
  <2>. QED BY <1>4, <1>6, <2>3, PutInner
<1>. QED BY <1>2, <1>5, <1>6

LEMMA ReplacedChanges ==
    ASSUME NEW p \in Text, NEW n \in Nodes(p), At(p, n).op \in DOMAIN Swaps
    PROVE  Replaced(p, n) = Broken \/ OneChange(p, Replaced(p, n))
<1>1. PICK c : c = At(p, n)
  OBVIOUS
<1>2. CASE \E t \in TextsBefore(c) : Within(c.op, t)
  <2>1. Replaced(p, n) = ReplaceFirst(p, n)
    BY <1>1, <1>2, Zenon DEF Replaced
  <2>2. c.left.kind = "str" \/ c.left.kind = "par"
    BY <1>2 DEF TextsBefore
  <2>3. PICK t : t = CHOOSE x \in TextsBefore(c) : TRUE
    OBVIOUS
  <2>4. CASE c.left.kind = "str"
    <3>1. PICK x : x = IF t = c.op THEN Swaps[t] ELSE IF t = "<=" THEN "<==" ELSE ">=="
      OBVIOUS
    <3>2. x \in Symbol
      <4>1. "<==" \in Symbol /\ ">==" \in Symbol
        BY DEF Symbol
      <4>2. t = c.op => Swaps[t] \in Symbol
        BY <1>1, SwapsAreOperators
      <4>. QED BY <3>1, <4>1, <4>2
    <3>3. ReplaceFirst(p, n) = Put(p, n, [c EXCEPT !.left.text = x])
      BY <1>1, <2>3, <2>4, <3>1 DEF ReplaceFirst
    <3>. QED BY <1>1, <2>1, <2>4, <3>2, <3>3, ReplacedText
  <2>5. CASE c.left.kind = "par"
    <3>1. ReplaceFirst(p, n) = IF t = c.op THEN SwapAt(p, <<n[1], n[2], TRUE>>) ELSE Broken
      BY <1>1, <2>3, <2>5 DEF ReplaceFirst
    <3>2. t = c.left.inner.op
      BY <2>3, <2>5 DEF TextsBefore
    <3>3. PICK i \in DOMAIN p : \E j \in DOMAIN p[i] :
             \/ n = <<i, j, FALSE>>
             \/ n = <<i, j, TRUE>> /\ p[i][j].left.kind = "par"
      BY NodeFacts
    <3>4. PICK j \in DOMAIN p[i] :
             \/ n = <<i, j, FALSE>>
             \/ n = <<i, j, TRUE>> /\ p[i][j].left.kind = "par"
      BY <3>3
    <3>5. n = <<i, j, FALSE>> /\ c = p[i][j]
      <4>1. CASE n = <<i, j, FALSE>>
        BY <1>1, <4>1 DEF At
      <4>2. CASE n = <<i, j, TRUE>> /\ p[i][j].left.kind = "par"
        <5>1. c = p[i][j].left.inner
          BY <1>1, <4>2 DEF At
        <5>2. p[i][j] \in Outmost
          BY TextLines
        <5>3. c \in Inner
          BY <4>2, <5>1, <5>2, Widths
        <5>4. c.left \in PlainOperand
          BY <5>3 DEF Inner, Comparison
        <5>. QED BY <2>5, <5>4, PlainWidths
      <4>. QED BY <3>4, <4>1, <4>2
    <3>6. PICK m : m = <<i, j, TRUE>>
      OBVIOUS
    <3>7. m = <<n[1], n[2], TRUE>> /\ At(p, m) = c.left.inner
      BY <3>5, <3>6 DEF At
    <3>8. m \in Nodes(p)
      <4>1. n \in Outer(p)
        BY <3>5 DEF Outer
      <4>2. At(p, n).left.kind = "par"
        BY <1>1, <2>5
      <4>. QED BY <3>7, <4>1, <4>2 DEF Nodes
    <3>9. t = c.op => OneChange(p, SwapAt(p, m))
      BY <1>1, <3>2, <3>7, <3>8, SwapChanges
    <3>. QED BY <2>1, <3>1, <3>7, <3>9
  <2>. QED BY <2>2, <2>4, <2>5
<1>3. CASE ~\E t \in TextsBefore(c) : Within(c.op, t)
  <2>1. Replaced(p, n) = SwapAt(p, n)
    BY <1>1, <1>3, Zenon DEF Replaced
  <2>. QED BY <2>1, SwapChanges
<1>. QED BY <1>2, <1>3

OracleInv ==
    /\ program \in Text
    /\ \A q \in patches : q \in {Broken, Garbled} \/ OneChange(program, q)
    /\ \A q \in pruned \ {Garbled} : Equivalent(program, q)

LEMMA OracleStep ==
    ASSUME OracleInv, PatcherNext \/ UNCHANGED patcherVars
    PROVE  OracleInv'
<1>1. ASSUME NEW n \in Nodes(program), Visit(n) PROVE OracleInv'
  <2>1. /\ UNCHANGED <<program, pruned>> /\ At(program, n).op \in DOMAIN Swaps
        /\ \E q \in _replace_operator(program, n) :
              patches' = patches \cup ({q} \ {program})
    BY <1>1 DEF Visit, inputs, Todo, Eligible
  <2>2. PICK q \in _replace_operator(program, n) :
           patches' = patches \cup ({q} \ {program})
    BY <2>1
  <2>5. q = program \/ q \in {Broken, Garbled} \/ OneChange(program, q)
    <3>1. q = Replaced(program, n) \/ q \in {Broken, Garbled, program}
      BY <2>2 DEF _replace_operator
    <3>. QED BY <2>1, <3>1, ReplacedChanges DEF OracleInv
  <2>3. \A x \in patches' : x \in {Broken, Garbled} \/ OneChange(program, x)
    BY <2>2, <2>5, Zenon DEF OracleInv
  <2>4. program' = program /\ pruned' = pruned
    BY <2>1
  <2>. QED BY <2>3, <2>4, Zenon DEF OracleInv
<1>2. ASSUME NEW q \in patches, Judge(q) PROVE OracleInv'
  <2>1. /\ program' = program /\ patches' = patches /\ q # Broken
        /\ \E same \in Verdicts(q) : pruned' = IF same THEN pruned \cup {q} ELSE pruned
    BY <1>2 DEF Judge, inputs
  <2>5. PICK same \in Verdicts(q) : pruned' = IF same THEN pruned \cup {q} ELSE pruned
    BY <2>1
  <2>2. program \in Text /\ (q = Garbled \/ OneChange(program, q))
    BY <2>1 DEF OracleInv
  <2>3. q # Garbled /\ same => Equivalent(program, q)
    BY <2>2, <2>5, OracleConcludes DEF Verdicts
  <2>4. \A r \in pruned' \ {Garbled} : Equivalent(program, r)
    BY <2>3, <2>5, Zenon DEF OracleInv
  <2>. QED BY <2>1, <2>4, Zenon DEF OracleInv
<1>3. CASE FallBack \/ StartJudging \/ JudgeRaises \/ UNCHANGED patcherVars
  <2>1. program' = program /\ patches' = patches /\ pruned' = pruned
    BY <1>3 DEF FallBack, StartJudging, JudgeRaises, inputs, patcherVars
  <2>. QED BY <2>1, Zenon DEF OracleInv
<1>. QED BY <1>1, <1>2, <1>3 DEF PatcherNext

LEMMA OracleBegins == PatcherInit \/ PatcherIdle => OracleInv
<1>. SUFFICES ASSUME PatcherInit \/ PatcherIdle PROVE OracleInv
  OBVIOUS
<1>1. program \in Text
  <2>1. <<>> \in Text
    BY DEF Text
  <2>. QED BY <2>1, PatcherAssumption DEF PatcherInit, PatcherIdle
<1>2. patches = {} /\ pruned = {}
  BY DEF PatcherInit, PatcherIdle
<1>. QED BY <1>1, <1>2 DEF OracleInv

\* A candidate that smt_oracle.py prunes is equivalent to the node's code as
\* a whole, although the oracle compares one pair of comparisons and finds
\* it by its place in the text: for programs of any number of lines and any
\* comparisons on them, nested, quoted, chained or split.
THEOREM OracleNeverMisjudges == Spec => []OracleIsSound
<1>1. Init => OracleInv
  BY OracleBegins DEF Init
<1>2. OracleInv /\ [Next]_vars => OracleInv'
  BY OracleStep DEF Next, vars
<1>3. OracleInv => OracleIsSound
  BY DEF OracleInv, OracleIsSound
<1>. QED BY <1>1, <1>2, <1>3, PTL DEF Spec

-----------------------------------------------------------------------------
(* Patcher: the candidates are the swaps of the comparisons visited        *)

Covered == Cardinality(patches) = limit \/ Todo = {}

WalkInv ==
    /\ program \in Text
    /\ limit \in Nat \ {0}
    /\ IsFiniteSet(patches)
    /\ Cardinality(patches) \in 0..limit
    /\ visited \subseteq {n \in Nodes(program) : Eligible(program, n, lines)}
    /\ Regular => patches = {SwapAt(program, n) : n \in visited}
    /\ step = "targeted" => lines = targets
    /\ Regular /\ lines # targets =>
          \A n \in Nodes(program) : ~Eligible(program, n, targets)
    /\ step = "judge" => Covered

LEMMA ReplacedIsSwapped ==
    ASSUME Regular, NEW n \in Nodes(program)
    PROVE  _replace_operator(program, n) = {SwapAt(program, n)}
BY DEF Regular, _replace_operator, Replaced

LEMMA VisitKeeps ==
    ASSUME WalkInv, NEW n \in Nodes(program), Visit(n)
    PROVE  WalkInv'
<1>1. /\ UNCHANGED <<program, targets, limit, lines, step>>
      /\ step # "judge"
      /\ Cardinality(patches) < limit
      /\ Eligible(program, n, lines)
      /\ visited' = visited \cup {n}
      /\ \E q \in _replace_operator(program, n) :
            patches' = patches \cup ({q} \ {program})
  BY DEF Visit, inputs, Todo
<1>2. IsFiniteSet(patches') /\ Cardinality(patches') \in 0..limit
  <2>1. PICK q : patches' = patches \/ patches' = patches \cup {q}
    BY <1>1
  <2>2. IsFiniteSet(patches) /\ limit \in Nat /\ Cardinality(patches) \in Nat
    BY DEF WalkInv
  <2>3. /\ IsFiniteSet(patches \cup {q})
        /\ Cardinality(patches \cup {q})
              = IF q \in patches THEN Cardinality(patches) ELSE Cardinality(patches) + 1
    BY <2>2, FS_AddElement
  <2>4. CASE patches' = patches
    BY <2>4 DEF WalkInv
  <2>5. CASE patches' = patches \cup {q}
    BY <1>1, <2>2, <2>3, <2>5
  <2>. QED BY <2>1, <2>4, <2>5
<1>3. Regular' => patches' = {SwapAt(program, m) : m \in visited'}
  <2>. SUFFICES ASSUME Regular
       PROVE  patches' = {SwapAt(program, m) : m \in visited'}
    BY <1>1 DEF Regular
  <2>1. _replace_operator(program, n) = {SwapAt(program, n)}
    BY ReplacedIsSwapped
  <2>3. SwapAt(program, n) # program
    BY <1>1, SwapChanges DEF Eligible, WalkInv
  <2>2. patches = {SwapAt(program, m) : m \in visited}
    BY DEF WalkInv
  <2>4. patches' = patches \cup {SwapAt(program, n)}
    BY <1>1, <2>1, <2>3
  <2>. QED BY <1>1, <2>2, <2>4
<1>4. Regular' <=> Regular
  BY <1>1 DEF Regular
<1>. QED BY <1>1, <1>2, <1>3, <1>4 DEF WalkInv

LEMMA FallBackKeeps == WalkInv /\ FallBack => WalkInv'
<1>. SUFFICES ASSUME WalkInv, FallBack PROVE WalkInv'
  OBVIOUS
<1>1. /\ UNCHANGED <<program, targets, limit, patches>>
      /\ WalkEnds /\ patches = {}
      /\ step = "targeted" /\ step' = "fallback"
      /\ visited' = {} /\ lines = targets
  BY DEF FallBack, inputs, WalkInv
<1>2. Todo = {}
  BY <1>1, FS_EmptySet DEF WalkEnds, WalkInv
<1>3. Regular => \A n \in Nodes(program) : ~Eligible(program, n, targets)
  <2>. SUFFICES ASSUME Regular, NEW n \in Nodes(program),
                       Eligible(program, n, targets)
       PROVE  FALSE
    OBVIOUS
  <2>1. n \in visited
    BY <1>1, <1>2 DEF Todo
  <2>2. SwapAt(program, n) \in patches
    BY <2>1 DEF WalkInv
  <2>. QED BY <1>1, <2>2
<1>4. Regular' <=> Regular
  BY <1>1 DEF Regular
<1>. QED BY <1>1, <1>3, <1>4 DEF WalkInv

LEMMA PatcherStep ==
    ASSUME WalkInv, PatcherNext \/ UNCHANGED patcherVars
    PROVE  WalkInv'
<1>1. CASE StartJudging
  <2>1. /\ UNCHANGED <<program, targets, limit, lines, visited, patches>>
        /\ step' = "judge" /\ WalkEnds
    BY <1>1 DEF StartJudging, inputs
  <2>2. Covered
    BY <2>1 DEF WalkEnds, Covered, WalkInv
  <2>3. Covered' /\ (Regular' <=> Regular)
    BY <2>1, <2>2 DEF Covered, Todo, Regular
  <2>. QED BY <2>1, <2>3 DEF WalkInv
<1>2. CASE (\E q \in patches : Judge(q)) \/ JudgeRaises \/ UNCHANGED patcherVars
  <2>1. /\ UNCHANGED <<program, targets, limit, lines, visited, patches>>
        /\ step' \in {step, "raised"}
    BY <1>2 DEF Judge, JudgeRaises, inputs, patcherVars
  <2>2. (Covered' <=> Covered) /\ (Regular' <=> Regular)
    BY <2>1 DEF Covered, Todo, Regular
  <2>. QED BY <2>1, <2>2 DEF WalkInv
<1>. QED BY <1>1, <1>2, VisitKeeps, FallBackKeeps DEF PatcherNext

LEMMA SwapsFollow == WalkInv => SwapsAreExact
<1>. SUFFICES ASSUME WalkInv, Regular PROVE SwapsAreExact
  BY DEF SwapsAreExact, Regular
<1>1. /\ patches = {SwapAt(program, n) : n \in visited}
      /\ visited \subseteq {n \in Nodes(program) : Eligible(program, n, lines)}
  BY DEF WalkInv
<1>2. \A q \in patches : IsSwap(q, lines)
  BY <1>1 DEF IsSwap
<1>3. lines # targets => \A n \in Nodes(program) : ~Eligible(program, n, targets)
  BY DEF WalkInv
<1>4. step = "judge" =>
         \/ Cardinality(patches) = limit
         \/ \A n \in Nodes(program) :
               Eligible(program, n, lines) => SwapAt(program, n) \in patches
  BY <1>1 DEF WalkInv, Covered, Todo
<1>. QED BY <1>2, <1>3, <1>4 DEF SwapsAreExact

LEMMA PatcherBegins == PatcherInit \/ PatcherIdle => WalkInv
<1>. SUFFICES ASSUME PatcherInit \/ PatcherIdle PROVE WalkInv
  OBVIOUS
<1>2. program \in Text
  BY OracleBegins DEF OracleInv
<1>1. /\ limit \in Nat \ {0} /\ lines = targets
      /\ visited = {} /\ patches = {} /\ step \in {"targeted", "idle"}
  <2>1. CASE PatcherInit
    BY <2>1, PatcherAssumption DEF PatcherInit
  <2>2. CASE PatcherIdle
    BY <2>2 DEF PatcherIdle
  <2>. QED BY <2>1, <2>2
<1>. QED BY <1>1, <1>2, FS_EmptySet DEF WalkInv

\* Where no operator occurs in the text of a left operand, and byte columns
\* are character columns up to every comparison, tree_sitter_engine yields
\* exactly the single swaps on the target lines, up to the limit, and falls
\* back to other lines only if there is none: for any such program.
THEOREM PatcherSwaps == Spec => []SwapsAreExact
<1>1. Init => WalkInv
  BY PatcherBegins DEF Init
<1>2. WalkInv /\ [Next]_vars => WalkInv'
  BY PatcherStep DEF Next, vars
<1>. QED BY <1>1, <1>2, SwapsFollow, PTL DEF Spec
=============================================================================
