------------------------------- MODULE Ledger -------------------------------
(***************************************************************************)
(* The Postgres ledger of control_plane/metadata_store.py, as far as it    *)
(* decides anything: the status columns of the tables tasks, candidates    *)
(* and executions.  Timestamps, JSON metadata and policy_decisions rows    *)
(* are written and only read by reports, so they are left out.             *)
(*                                                                         *)
(* update_task_status and update_candidate_status open one connection for  *)
(* the SELECT and another one for the UPDATE, both in autocommit mode, so  *)
(* each is two steps that other processes interleave with.  A process      *)
(* makes its ledger calls one after the other while its handler waits:     *)
(* calls[p] is the list of calls p still has to make, and a handler        *)
(* continues only when it is empty.                                        *)
(*                                                                         *)
(* No process reads the ledger except for the guards of its own updates,   *)
(* so an instance may leave out the tables that its properties do not      *)
(* mention: a call on a table that is not in Observed is no step at all.   *)
(***************************************************************************)
EXTENDS Naturals, Sequences

CONSTANTS Proc,     \* processes that write to the ledger
          Tree,     \* tasks, one search tree each
          Cand,     \* candidate patches (the non-root nodes of the trees)
          Run,      \* executions
          Observed  \* the tables whose rows the instance follows

VARIABLES taskStatus,   \* tasks.status
          candStatus,   \* candidates.status
          execStatus,   \* executions.status
          calls         \* per process, the ledger calls it has yet to finish

ledgerVars == <<taskStatus, candStatus, execStatus, calls>>
statusVars == <<taskStatus, candStatus, execStatus>>

Absent == "absent"      \* the row does not exist

TaskStatus == {"seeded", "running", "budget_exhausted", "verified", "merged"}
CandStatus == {Absent, "generated", "queued", "running", "dispatch_failed",
               "failed", "verified", "accepted", "rejected_policy", "merged",
               "merge_failed"}
ExecStatus == {Absent, "queued", "running", "succeeded", "failed"}

TaskCall == [table : {"tasks"}, id : Tree, status : TaskStatus,
             phase : {"select", "update"}]
CandCall == [table : {"candidates"}, id : Cand, status : CandStatus,
             phase : {"select", "update", "upsert"}]
ExecCall == [table : {"executions"}, id : Run, status : ExecStatus,
             phase : {"update", "upsert"}]
Call == TaskCall \cup CandCall \cup ExecCall

-----------------------------------------------------------------------------
(* The transitions that the ledger's guards allow.                         *)

can_transition_task_status(current, new) ==
    current = "merged" => new = "merged"

can_transition_candidate_status(current, new) ==
    \/ new = current
    \/ current \in {Absent, "generated", "queued", "running"}
    \/ /\ current = "accepted"
       /\ new \in {"merged", "merge_failed"}
    \/ /\ current = "verified"
       /\ new \in {"accepted", "rejected_policy", "merged", "merge_failed"}

-----------------------------------------------------------------------------
(* The calls, each a sequence of at most one, in the phase it starts in.   *)

Made(call) == IF call.table \in Observed THEN <<call>> ELSE <<>>

update_task_status(t, s) ==
    Made([table |-> "tasks", id |-> t, status |-> s, phase |-> "select"])

update_candidate_status(c, s) ==
    Made([table |-> "candidates", id |-> c, status |-> s, phase |-> "select"])

\* INSERT ... ON CONFLICT DO UPDATE: overwrites the status, with no guard.
record_candidate(c, s) ==
    Made([table |-> "candidates", id |-> c, status |-> s, phase |-> "upsert"])

record_execution_queued(r) ==
    Made([table |-> "executions", id |-> r, status |-> "queued",
          phase |-> "upsert"])

mark_execution_started(r) ==
    Made([table |-> "executions", id |-> r, status |-> "running",
          phase |-> "update"])

complete_execution(r, passed) ==
    Made([table |-> "executions", id |-> r,
          status |-> IF passed THEN "succeeded" ELSE "failed",
          phase |-> "update"])

\* Process p makes the calls cs, in this order, before it does anything else.
MakeCalls(p, cs) ==
    /\ calls' = [calls EXCEPT ![p] = cs]
    /\ UNCHANGED statusVars

-----------------------------------------------------------------------------
LedgerInit ==
    /\ taskStatus = [t \in Tree |-> "seeded"]
    /\ candStatus = [c \in Cand |-> Absent]
    /\ execStatus = [r \in Run |-> Absent]
    /\ calls = [p \in Proc |-> <<>>]

Allowed(call) ==
    IF call.table = "tasks"
    THEN can_transition_task_status(taskStatus[call.id], call.status)
    ELSE can_transition_candidate_status(candStatus[call.id], call.status)

\* _fetch_status and the guard: the call is dropped, or goes on to its UPDATE
\* whatever happens to the row in between.
FetchStatus(p) ==
    /\ calls[p] # <<>>
    /\ LET call == Head(calls[p]) IN
       /\ call.phase = "select"
       /\ \/ /\ Allowed(call)
             /\ calls' = [calls EXCEPT ![p] =
                            <<[call EXCEPT !.phase = "update"]>> \o Tail(@)]
          \/ /\ ~Allowed(call)
             /\ calls' = [calls EXCEPT ![p] = Tail(@)]
    /\ UNCHANGED statusVars

\* An UPDATE touches an existing row only, an upsert creates it.
Written(rows, call) ==
    IF rows[call.id] = Absent /\ call.phase = "update"
    THEN rows
    ELSE [rows EXCEPT ![call.id] = call.status]

WriteStatus(p) ==
    /\ calls[p] # <<>>
    /\ LET call == Head(calls[p]) IN
       /\ call.phase # "select"
       /\ \/ /\ call.table = "tasks"
             /\ taskStatus' = Written(taskStatus, call)
             /\ UNCHANGED <<candStatus, execStatus>>
          \/ /\ call.table = "candidates"
             /\ candStatus' = Written(candStatus, call)
             /\ UNCHANGED <<taskStatus, execStatus>>
          \/ /\ call.table = "executions"
             /\ execStatus' = Written(execStatus, call)
             /\ UNCHANGED <<taskStatus, candStatus>>
    /\ calls' = [calls EXCEPT ![p] = Tail(@)]

LedgerStep(p) == FetchStatus(p) \/ WriteStatus(p)

LedgerIdle(p) == calls[p] = <<>>

LedgerTypeOK ==
    /\ taskStatus \in [Tree -> TaskStatus]
    /\ candStatus \in [Cand -> CandStatus]
    /\ execStatus \in [Run -> ExecStatus]
    /\ calls \in [Proc -> Seq(Call)]
=============================================================================
