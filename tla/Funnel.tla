------------------------------- MODULE Funnel -------------------------------
(***************************************************************************)
(* guest_agent/funnel.py, run by both executors: lint, type check, the     *)
(* targeted test and the full suite, each only if the one before exited    *)
(* with 0, and the verdict made from the exit codes and from the counts    *)
(* found in pytest's output.                                               *)
(*                                                                         *)
(* A command ends by itself, with an exit code and a list of count labels  *)
(* in its output, or is stopped by its timeout.  The output is text that   *)
(* the candidate influences, so exit code and labels are independent.      *)
(***************************************************************************)
EXTENDS Naturals, Sequences, FiniteSetsExt

CONSTANTS MaxCount,     \* largest count in an output
          MaxLabels     \* number of counts in an output

ASSUME FunnelAssumption == MaxCount \in Nat /\ MaxLabels \in Nat

VARIABLES stage,        \* stage about to run, or "returned"
          ran,          \* what each stage that ran returned
          targeted,     \* counts of the targeted test
          result        \* the dictionary returned

funnelVars == <<stage, ran, targeted, result>>

Stages  == <<"lint", "typecheck", "targeted_pytest", "full_suite">>
Outputs == UNION {[1..n -> [count : 0..MaxCount,
                            label : {"passed", "failed", "errors"}]]
                     : n \in 0..MaxLabels}
Command == [timeout : {FALSE}, code : {0, 1}, output : Outputs]
           \cup {[timeout |-> TRUE, code |-> 1, output |-> <<>>]}

\* The output of lint and type check is not looked into.
Quiet   == {c \in Command : c.output = <<>>}

Pending == [success |-> FALSE, tests_passed |-> 0, tests_failed |-> 0,
            failed_stage |-> "none", full_suite_attempted |-> FALSE]
NoCounts == [passed |-> 0, failed |-> 0]

FunnelInit ==
    /\ stage = "lint"
    /\ ran = <<>>
    /\ targeted = NoCounts
    /\ result = Pending

\* A timeout counts as an exit code other than 0, with output "Timeout".
run_cmd(c) == ~c.timeout /\ c.code = 0

CountOf(output, labels) ==
    MapThenSumSet(LAMBDA i : output[i].count,
                  {i \in DOMAIN output : output[i].label \in labels})

parse_pytest_counts(output) ==
    [passed |-> CountOf(output, {"passed"}),
     failed |-> CountOf(output, {"failed", "errors"})]

OrElse(n, default) == IF n # 0 THEN n ELSE default

Return(r) == stage' = "returned" /\ result' = r

\* fail(...): tests_failed as given, full_suite_attempted from the stage.
fail(at, passed, failed) ==
    [success |-> FALSE, tests_passed |-> passed, tests_failed |-> failed,
     failed_stage |-> at, full_suite_attempted |-> at = "full_suite"]

\* Lint or type check.
StaticStage(at, next) ==
    /\ stage = at
    /\ \E c \in Quiet :
          /\ ran' = Append(ran, c)
          /\ IF run_cmd(c) THEN stage' = next /\ UNCHANGED result
                           ELSE Return(fail(at, 0, 999))
    /\ UNCHANGED targeted

TargetedFailure(c) ==
    LET n == parse_pytest_counts(c.output)
    IN  fail("targeted_pytest", n.passed, OrElse(n.failed, 1))

TargetedStage ==
    /\ stage = "targeted_pytest"
    /\ \E c \in Command :
          /\ ran' = Append(ran, c)
          /\ targeted' = parse_pytest_counts(c.output)
          /\ IF run_cmd(c) THEN stage' = "full_suite" /\ UNCHANGED result
                           ELSE Return(TargetedFailure(c))

\* The verdict taken from the counts instead of the exit code.
VerdictFromCounts(c) ==
    LET n == parse_pytest_counts(c.output)
    IN  [success |-> n.failed = 0,
         tests_passed |-> OrElse(n.passed, targeted.passed),
         tests_failed |-> n.failed,
         failed_stage |-> IF n.failed = 0 THEN "none" ELSE "full_suite",
         full_suite_attempted |-> TRUE]

FullSuiteVerdict(c) ==
    LET n  == parse_pytest_counts(c.output)
        ok == run_cmd(c)
    IN  [success |-> ok,
         tests_passed |-> OrElse(n.passed, targeted.passed),
         tests_failed |-> OrElse(n.failed, IF ok THEN 0 ELSE 1),
         failed_stage |-> IF ok THEN "none" ELSE "full_suite",
         full_suite_attempted |-> TRUE]

FullSuiteStage ==
    /\ stage = "full_suite"
    /\ \E c \in Command :
          /\ ran' = Append(ran, c)
          /\ Return(FullSuiteVerdict(c))
    /\ UNCHANGED targeted

FunnelNext ==
    \/ StaticStage("lint", "typecheck")
    \/ StaticStage("typecheck", "targeted_pytest")
    \/ TargetedStage
    \/ FullSuiteStage

FunnelSpec == FunnelInit /\ [][FunnelNext]_funnelVars
-----------------------------------------------------------------------------
\* The verdict is success exactly when all four commands of the funnel ran,
\* in order, and every one exited with 0 within its time; otherwise the
\* stage named is the first that did not.  No output a candidate prints
\* makes up for an exit code.  A failure always reports a failed test, also
\* when the run was stopped by its timeout or pytest printed no counts.
VerdictMatchesExitCodes ==
    stage = "returned" =>
        LET bad == {i \in DOMAIN ran : ran[i].timeout \/ ran[i].code # 0}
        IN  /\ result.success = (Len(ran) = 4 /\ bad = {})
            /\ ~result.success => /\ bad = {Len(ran)}
                                  /\ result.failed_stage = Stages[Len(ran)]
                                  /\ result.tests_failed > 0
            /\ result.full_suite_attempted = (Len(ran) = 4)
=============================================================================
