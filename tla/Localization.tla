---------------------------- MODULE Localization ----------------------------
(***************************************************************************)
(* What fix_tests finds out before it seeds a task: the coverage matrix of *)
(* control_plane/coverage_analysis.py, one test at a time, the ranking of  *)
(* control_plane/fault_localization.py and the plan that                   *)
(* control_plane/planning.py makes of it.                                  *)
(***************************************************************************)
EXTENDS Integers, Sequences, FiniteSetsExt

CONSTANTS Tests,          \* number of test nodes that pytest collects
          Lines,          \* number of lines of the source file
          MaxFocus,       \* largest suspicious_line_count of the settings
          MaxChildren,    \* budgets.max_children
          MaxDepth        \* budgets.max_depth

ASSUME LocalizationAssumption ==
    /\ {Tests, Lines, MaxFocus, MaxChildren} \subseteq Nat \ {0}
    /\ MaxDepth \in Nat

VARIABLES phase,
          suspicious_line_count,
          runs,       \* history: what each test did
          matrix,     \* rows of the coverage matrix, in insertion order
          total_failed,
          total_passed,
          plan        \* the task plan

localizationVars == <<phase, suspicious_line_count, runs, matrix, total_failed, total_passed, plan>>

\* A test run: its verdict and the lines of the source file in its coverage
\* report, none of them if there is no report or no entry for the file.
TestRun == [ok : BOOLEAN, executed : SUBSET (1..Lines)]

NoPlan == [strategy |-> "none", focus |-> <<>>, fallback |-> <<>>]

LocalizationInit ==
    /\ phase = "cover"
    /\ suspicious_line_count \in 1..MaxFocus
    /\ runs = <<>>
    /\ matrix = <<>>
    /\ total_failed = 0
    /\ total_passed = 0
    /\ plan = NoPlan

-----------------------------------------------------------------------------
(* Coverage                                                                *)

Counted(row, ok) == IF ok THEN [row EXCEPT !.passed = @ + 1]
                          ELSE [row EXCEPT !.failed = @ + 1]

NewRow(line) == [line |-> line, passed |-> 0, failed |-> 0]

Ascending(S) ==
    [i \in 1..Cardinality(S) |->
        CHOOSE x \in S : Cardinality({y \in S : y <= x}) = i]

InMatrix == {matrix[i].line : i \in DOMAIN matrix}

\* The rows that a test finds, with one more run in its bucket ...
CountRows(run) ==
    [i \in DOMAIN matrix |->
        IF matrix[i].line \in run.executed
        THEN Counted(matrix[i], run.ok) ELSE matrix[i]]

\* ... and the ones that it adds, in the order of executed_lines.
AddRows(run) ==
    LET new == Ascending(run.executed \ InMatrix)
    IN  [i \in DOMAIN new |-> Counted(NewRow(new[i]), run.ok)]

RunTest(run) ==
    /\ phase = "cover"
    /\ Len(runs) < Tests
    /\ runs' = Append(runs, run)
    /\ matrix' = CountRows(run) \o AddRows(run)
    /\ total_passed' = IF run.ok THEN total_passed + 1 ELSE total_passed
    /\ total_failed' = IF run.ok THEN total_failed ELSE total_failed + 1
    /\ UNCHANGED <<phase, suspicious_line_count, plan>>

-----------------------------------------------------------------------------
(* Ranking                                                                 *)

\* The score without the passing tests.
MoreFailures(a, b) == a.failed > b.failed

\* calculate_ochiai of a is greater than that of b: the common factor is left
\* out and the square roots are avoided.  (Rounding may order rows of equal
\* score and different counts either way; no property depends on it.)
MoreSuspicious(a, b) ==
    a.failed * a.failed * (b.failed + b.passed)
        > b.failed * b.failed * (a.failed + a.passed)

\* Positions of the matrix that are ranked before position i; the sort is
\* stable, and rows that no failing test executed are skipped.
Ranked == {i \in DOMAIN matrix : matrix[i].failed > 0}

RankedBefore(i) ==
    {j \in Ranked : \/ MoreSuspicious(matrix[j], matrix[i])
                    \/ ~MoreSuspicious(matrix[i], matrix[j]) /\ j < i}

rank_suspicious_lines ==
    [r \in 1..Cardinality(Ranked) |->
        matrix[CHOOSE i \in Ranked : Cardinality(RankedBefore(i)) = r - 1].line]

Prefix(s, n) == SubSeq(s, 1, IF n < Len(s) THEN n ELSE Len(s))

get_top_k_lines == Prefix(rank_suspicious_lines, suspicious_line_count)

-----------------------------------------------------------------------------
(* Planning                                                                *)

\* Focused is for a single failing test; the focus is never longer than
\* suspicious_line_count.
build_task_plan ==
    [strategy |-> IF get_top_k_lines = <<>> THEN "fallback"
                  ELSE IF total_failed = 1 THEN "focused" ELSE "balanced",
     focus    |-> get_top_k_lines,
     fallback |-> IF Ranked # {} THEN rank_suspicious_lines
                                 ELSE Ascending(InMatrix)]

\* fix_tests refuses a task without a failing test, after it has planned it.
PlanTask ==
    /\ phase = "cover"
    /\ Len(runs) = Tests
    /\ plan' = build_task_plan
    /\ phase' = IF total_failed = 0 THEN "refused" ELSE "seeded"
    /\ UNCHANGED <<suspicious_line_count, runs, matrix, total_failed, total_passed>>

\* A window that leaves out the line ranked first.
WindowFromSecond(p, depth) ==
    IF p.focus = <<>> THEN p.fallback
    ELSE IF Len(p.focus) = 1 THEN p.focus ELSE Tail(Prefix(p.focus, 3 + depth))

\* expansion_plan(...).target_lines
target_lines(p, depth) ==
    CASE p.strategy = "focused"  -> Prefix(p.focus, 2 + Min({depth, 2}))
      [] p.strategy = "balanced" ->
            Prefix(p.focus, Max({3, Min({Len(p.focus), 3 + depth})}))
      [] OTHER ->
            Prefix(p.fallback,
                   Max({3, Min({Len(p.fallback), MaxChildren + depth})}))

LocalizationNext == (\E run \in TestRun : RunTest(run)) \/ PlanTask

LocalizationSpec == LocalizationInit /\ [][LocalizationNext]_localizationVars

-----------------------------------------------------------------------------
(* Properties, stated over what the tests did                              *)

RunsOf(line, ok) ==
    Cardinality({i \in DOMAIN runs : runs[i].ok = ok /\ line \in runs[i].executed})

Suspects == {l \in 1..Lines : RunsOf(l, FALSE) > 0}

\* The square of a line's Ochiai score, but for a common factor, as a fraction.
AtLeast(k, l) ==
    RunsOf(k, FALSE) * RunsOf(k, FALSE) * (RunsOf(l, FALSE) + RunsOf(l, TRUE))
        >= RunsOf(l, FALSE) * RunsOf(l, FALSE) * (RunsOf(k, FALSE) + RunsOf(k, TRUE))

\* "Spectrum-based suspicious-line ranking" (README.md): the focus of a plan
\* holds as many lines that failing tests executed as there are, up to
\* suspicious_line_count, in descending order of their score, and no line
\* that was left out has a greater one.
FocusIsMostSuspicious ==
    phase # "cover" =>
        LET f == plan.focus
            in == {f[i] : i \in DOMAIN f}
        IN  /\ Len(f) = Min({suspicious_line_count, Cardinality(Suspects)})
            /\ in \subseteq Suspects
            /\ Cardinality(in) = Len(f)
            /\ \A i, j \in DOMAIN f : i < j => AtLeast(f[i], f[j])
            /\ \A k \in in, l \in Suspects \ in : AtLeast(k, l)

\* Executed by every failing test that has a report, and by no passing one.
Culprit(l) ==
    /\ l \in Suspects
    /\ \A i \in DOMAIN runs :
          runs[i].executed # {} => (l \in runs[i].executed <=> ~runs[i].ok)

\* If one line alone is executed by exactly the failing tests, then it is the
\* first target of every expansion, at every depth and with every strategy,
\* also when a failing test left no report.
CulpritIsTargeted ==
    phase = "seeded" =>
        \A l \in 1..Lines :
            (Culprit(l) /\ \A k \in 1..Lines : Culprit(k) => k = l) =>
                \A d \in 0..MaxDepth : /\ target_lines(plan, d) # <<>>
                                       /\ target_lines(plan, d)[1] = l
=============================================================================
