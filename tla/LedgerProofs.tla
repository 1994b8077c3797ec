---------------------------- MODULE LedgerProofs ----------------------------
(***************************************************************************)
(* Type correctness of the ledger's calls, for every specification that    *)
(* makes them.                                                             *)
(***************************************************************************)
EXTENDS Ledger, TLAPS

\* Each call is a sequence of calls, whether its table is observed or not.
LEMMA MadeType ==
    ASSUME NEW call \in Call
    PROVE  Made(call) \in Seq(Call)
BY DEF Made

LEMMA CallTypes ==
    /\ \A t \in Tree, s \in TaskStatus : update_task_status(t, s) \in Seq(Call)
    /\ \A c \in Cand, s \in CandStatus :
          /\ update_candidate_status(c, s) \in Seq(Call)
          /\ record_candidate(c, s) \in Seq(Call)
    /\ \A r \in Run :
          /\ record_execution_queued(r) \in Seq(Call)
          /\ mark_execution_started(r) \in Seq(Call)
          /\ \A b \in BOOLEAN : complete_execution(r, b) \in Seq(Call)
<1>1. ASSUME NEW t \in Tree, NEW s \in TaskStatus
      PROVE  update_task_status(t, s) \in Seq(Call)
  <2>1. [table |-> "tasks", id |-> t, status |-> s, phase |-> "select"] \in Call
    BY DEF Call, TaskCall
  <2>. QED BY <2>1, MadeType DEF update_task_status
<1>2. ASSUME NEW c \in Cand, NEW s \in CandStatus
      PROVE  /\ update_candidate_status(c, s) \in Seq(Call)
             /\ record_candidate(c, s) \in Seq(Call)
  <2>1. \A ph \in {"select", "upsert"} :
           [table |-> "candidates", id |-> c, status |-> s, phase |-> ph] \in Call
    BY DEF Call, CandCall
  <2>. QED BY <2>1, MadeType DEF update_candidate_status, record_candidate
<1>3. ASSUME NEW r \in Run
      PROVE  /\ record_execution_queued(r) \in Seq(Call)
             /\ mark_execution_started(r) \in Seq(Call)
             /\ \A b \in BOOLEAN : complete_execution(r, b) \in Seq(Call)
  <2>1. \A s \in ExecStatus, ph \in {"update", "upsert"} :
           [table |-> "executions", id |-> r, status |-> s, phase |-> ph] \in Call
    BY DEF Call, ExecCall
  <2>2. {"queued", "running", "succeeded", "failed"} \subseteq ExecStatus
    BY DEF ExecStatus
  <2>3. record_execution_queued(r) \in Seq(Call)
    BY <2>1, <2>2, MadeType DEF record_execution_queued
  <2>4. mark_execution_started(r) \in Seq(Call)
    BY <2>1, <2>2, MadeType DEF mark_execution_started
  <2>5. \A b \in BOOLEAN : complete_execution(r, b) \in Seq(Call)
    BY <2>1, <2>2, MadeType DEF complete_execution
  <2>. QED BY <2>3, <2>4, <2>5
<1>. QED BY <1>1, <1>2, <1>3

LEMMA LedgerInitType == LedgerInit => LedgerTypeOK
BY DEF LedgerInit, LedgerTypeOK, TaskStatus, CandStatus, ExecStatus, Absent

\* A process that is given calls of the right type to make.
LEMMA MakeCallsType ==
    ASSUME LedgerTypeOK, NEW p \in Proc, NEW cs \in Seq(Call), MakeCalls(p, cs)
    PROVE  LedgerTypeOK'
BY DEF LedgerTypeOK, MakeCalls, statusVars

LEMMA LedgerUnchangedType ==
    ASSUME LedgerTypeOK, UNCHANGED ledgerVars
    PROVE  LedgerTypeOK'
BY DEF LedgerTypeOK, ledgerVars

\* The two steps of a call: the guard's SELECT, and the write.
LEMMA LedgerStepType ==
    ASSUME LedgerTypeOK, NEW p \in Proc, LedgerStep(p)
    PROVE  LedgerTypeOK'
<1>. DEFINE call == Head(calls[p])
<1>0. /\ calls[p] \in Seq(Call)
      /\ calls[p] # <<>>
      /\ call \in Call
      /\ Tail(calls[p]) \in Seq(Call)
  BY DEF LedgerTypeOK, LedgerStep, FetchStatus, WriteStatus
<1>1. CASE FetchStatus(p)
  <2>1. call.phase = "select" /\ UNCHANGED statusVars
    BY <1>1 DEF FetchStatus
  <2>2. [call EXCEPT !.phase = "update"] \in Call
    <3>1. CASE call \in TaskCall
      BY <3>1 DEF TaskCall, Call
    <3>2. CASE call \in CandCall
      BY <3>2 DEF CandCall, Call
    <3>3. CASE call \in ExecCall
      BY <3>3, <2>1 DEF ExecCall
    <3>. QED BY <1>0, <3>1, <3>2, <3>3 DEF Call
  <2>3. <<[call EXCEPT !.phase = "update"]>> \o Tail(calls[p]) \in Seq(Call)
    BY <1>0, <2>2
  <2>4. calls' \in [Proc -> Seq(Call)]
    BY <1>0, <1>1, <2>3 DEF FetchStatus, LedgerTypeOK
  <2>. QED BY <2>1, <2>4 DEF LedgerTypeOK, statusVars
<1>2. CASE WriteStatus(p)
  <2>1. calls' \in [Proc -> Seq(Call)]
    BY <1>0, <1>2 DEF WriteStatus, LedgerTypeOK
  <2>2. CASE call.table = "tasks" /\ taskStatus' = Written(taskStatus, call)
             /\ UNCHANGED <<candStatus, execStatus>>
    <3>1. call.id \in Tree /\ call.status \in TaskStatus
      BY <1>0, <2>2 DEF Call, TaskCall, CandCall, ExecCall
    <3>. QED BY <2>1, <2>2, <3>1 DEF LedgerTypeOK, Written
  <2>3. CASE call.table = "candidates" /\ candStatus' = Written(candStatus, call)
             /\ UNCHANGED <<taskStatus, execStatus>>
    <3>1. call.id \in Cand /\ call.status \in CandStatus
      BY <1>0, <2>3 DEF Call, TaskCall, CandCall, ExecCall
    <3>. QED BY <2>1, <2>3, <3>1 DEF LedgerTypeOK, Written
  <2>4. CASE call.table = "executions" /\ execStatus' = Written(execStatus, call)
             /\ UNCHANGED <<taskStatus, candStatus>>
    <3>1. call.id \in Run /\ call.status \in ExecStatus
      BY <1>0, <2>4 DEF Call, TaskCall, CandCall, ExecCall
    <3>. QED BY <2>1, <2>4, <3>1 DEF LedgerTypeOK, Written
  <2>. QED BY <1>2, <2>2, <2>3, <2>4 DEF WriteStatus
<1>. QED BY <1>1, <1>2 DEF LedgerStep
=============================================================================
