------------------------------- MODULE Audit -------------------------------
(***************************************************************************)
(* scripts/run_optimization_audit.py: brings up the infrastructure, starts *)
(* the simulator and the daemons as child processes, has every fixture     *)
(* repaired, waits for the outcome in the ledger, writes a report and      *)
(* stops its children.  The children may exit, hang or be slow at any      *)
(* point; a deadline of the script passes when the environment says so,    *)
(* and a call that has no timeout may never return.                        *)
(***************************************************************************)
EXTENDS Naturals, Sequences

CONSTANTS Services,     \* the daemons, in the order they are started
          Fixtures,     \* the fixtures, in the order they are repaired
          MaxExits      \* bound on children that exit on their own

Simulator == "simulator_executor"
Telemetry == "telemetry_api"
Child == {Simulator} \cup {Services[i] : i \in DOMAIN Services}
Fixture == {Fixtures[i] : i \in DOMAIN Fixtures}

ASSUME AuditAssumption ==
    /\ MaxExits \in Nat
    /\ \E i \in DOMAIN Services : Services[i] = Telemetry

VARIABLES pc,           \* where main is
          child,        \* per child, what became of its process
          handles,      \* the list processes, or the one start_daemons fills
          next,         \* the daemon or the fixture whose turn it is
          late,         \* has the current deadline passed
          line,         \* what the simulator has printed and nobody read
          status,       \* per fixture, its row in tasks
          failed,       \* where main raised, if it did
          hung,         \* is main in a call that never returns
          exits         \* children that exited on their own

auditVars == <<pc, child, handles, next, late, line, status, failed, hung, exits>>

Terminal == {"merged", "budget_exhausted", "verified"}
Ready == {"infra", "redis", "postgres", "database", "reset"}

AuditInit ==
    /\ pc = "infra"
    /\ child = [p \in Child |-> "none"]
    /\ handles = {} /\ next = 1 /\ late = FALSE /\ line = "nothing"
    /\ status = [f \in Fixture |-> "absent"] /\ failed = "nowhere"
    /\ hung = FALSE /\ exits = 0

Alive(p) == child[p] \in {"running", "terminating"}

Goto(l) == pc' = l /\ late' = FALSE

\* An audit without the finally clause.
RaiseOut ==
    /\ failed' = pc
    /\ Goto("ended")

\* An exception before the try statement ends main; one inside it, and the
\* end of its body, lead to the finally clause.
BeforeTry == Ready \cup {"simulator", "key", "spawn", "poll"}

Raise ==
    /\ failed' = pc
    /\ Goto(IF pc \in BeforeTry THEN "ended" ELSE "terminate")

\* The log of the simulator cannot be opened or written, or the thread that
\* goes on copying to it cannot be started: start_simulator raises and does
\* not terminate the process it has started.
LogFails ==
    /\ failed' = "log"
    /\ Goto("ended")

-----------------------------------------------------------------------------
(* Bringing up the infrastructure                                          *)

\* ensure_infra, wait_for_redis, wait_for_postgres, ensure_postgres_database
\* and the reset of both databases: each is done, or raises.
Prepare ==
    /\ pc \in Ready
    /\ \/ /\ Goto(CASE pc = "infra"    -> "redis"
                    [] pc = "redis"    -> "postgres"
                    [] pc = "postgres" -> "database"
                    [] pc = "database" -> "reset"
                    [] OTHER           -> "simulator")
          /\ UNCHANGED failed
       \/ Raise
    /\ UNCHANGED <<child, handles, next, line, status, exits>>

-----------------------------------------------------------------------------
(* Starting the children                                                   *)

Spawn(p) == child' = [child EXCEPT ![p] = "running"]

StartSimulator ==
    /\ pc = "simulator"
    /\ \/ Spawn(Simulator) /\ Goto("key") /\ UNCHANGED failed
       \/ Spawn(Simulator) /\ LogFails
       \/ Raise /\ UNCHANGED child
    /\ UNCHANGED <<handles, next, line, status, exits>>

\* readline returns a line of the simulator, or nothing once it has exited.
\* The loop looks at its deadline only between two lines.
ReadLine ==
    /\ pc = "key"
    /\ \/ /\ line = "key"
          /\ handles' = {Simulator}
          /\ Goto("spawn")
          /\ UNCHANGED <<child, failed>>
       \/ /\ line = "other" /\ ~late
          /\ UNCHANGED <<pc, late, child, handles, failed>>
       \/ /\ line = "other" /\ late
          /\ child' = [child EXCEPT ![Simulator] =
                         IF @ = "running" THEN "terminating" ELSE @]
          /\ Raise
          /\ UNCHANGED handles
       \/ /\ line # "nothing"
          /\ LogFails
          /\ UNCHANGED <<child, handles>>
       \/ /\ line = "nothing"
          /\ ~Alive(Simulator)
          /\ Raise
          /\ UNCHANGED <<child, handles>>
    /\ line' = "nothing"
    /\ UNCHANGED <<next, status, exits>>

\* start_daemons: the process or the thread that copies its output may fail
\* to start, and a child that has exited after 0.2 seconds raises.
StartDaemon ==
    /\ pc = "spawn"
    /\ \/ /\ next \in DOMAIN Services
          /\ Spawn(Services[next])
          /\ Goto("poll")
          /\ UNCHANGED <<next, failed>>
       \/ /\ next \in DOMAIN Services
          /\ UNCHANGED child \/ Spawn(Services[next])
          /\ Raise
          /\ UNCHANGED next
       \/ /\ next \notin DOMAIN Services
          /\ next' = 1
          /\ Goto("health")
          /\ UNCHANGED <<child, failed>>
    /\ UNCHANGED <<handles, line, status, exits>>

PollDaemon ==
    /\ pc = "poll"
    /\ \/ /\ Alive(Services[next])
          /\ handles' = handles \cup {Services[next]}
          /\ next' = next + 1
          /\ Goto("spawn")
          /\ UNCHANGED failed
       \/ /\ ~Alive(Services[next])
          /\ Raise
          /\ UNCHANGED <<handles, next>>
    /\ UNCHANGED <<child, line, status, exits>>

-----------------------------------------------------------------------------
(* The try statement                                                       *)

bodyFrame == <<child, handles, line, exits>>

\* wait_for_http, for /healthz, which may answer that something is not well,
\* and at the end for /api/dashboard.
WaitForHttp ==
    /\ pc \in {"health", "dashboard"}
    /\ \/ /\ Alive(Telemetry)
          /\ Goto(IF pc = "health" THEN "seed" ELSE "write")
          /\ UNCHANGED failed
       \/ pc = "health" /\ Alive(Telemetry) /\ Raise
       \/ late /\ Raise
    /\ UNCHANGED <<bodyFrame, next, status>>

\* copy_fixture_repo and seed_task, which runs the command line.
seed_task ==
    /\ pc = "seed"
    /\ \/ /\ next \in DOMAIN Fixtures
          /\ status' = [status EXCEPT ![Fixtures[next]] = "seeded"]
          /\ Goto("wait")
          /\ UNCHANGED failed
       \/ /\ next \in DOMAIN Fixtures
          /\ Raise
          /\ UNCHANGED status
       \/ /\ next \notin DOMAIN Fixtures
          /\ Goto("dashboard")
          /\ UNCHANGED <<status, failed>>
    /\ UNCHANGED <<bodyFrame, next>>

\* A wait without a deadline.
WaitForEver ==
    /\ pc = "wait"
    /\ status[Fixtures[next]] \in Terminal
    /\ Goto("collect")
    /\ UNCHANGED <<bodyFrame, next, status, failed>>

wait_for_terminal_task ==
    /\ pc = "wait"
    /\ \/ /\ status[Fixtures[next]] \in Terminal
          /\ Goto("collect")
          /\ UNCHANGED failed
       \/ late /\ Raise
    /\ UNCHANGED <<bodyFrame, next, status>>

\* Postgres refuses the connection or the statement, which the loop of
\* wait_for_terminal_task does not catch.
QueryFails ==
    /\ pc = "wait" /\ ~hung
    /\ Raise
    /\ UNCHANGED <<bodyFrame, next, status, hung>>

\* The figures are read from the tables once more.
collect_fixture_metrics ==
    /\ pc = "collect"
    /\ \/ /\ next' = next + 1
          /\ Goto("seed")
          /\ UNCHANGED failed
       \/ Raise /\ UNCHANGED next
    /\ UNCHANGED <<bodyFrame, status>>

WriteReport ==
    /\ pc = "write"
    /\ \/ Goto("terminate") /\ UNCHANGED failed
       \/ Raise
    /\ UNCHANGED <<bodyFrame, next, status>>

-----------------------------------------------------------------------------
(* stop_processes                                                          *)

Terminate ==
    /\ pc = "terminate"
    /\ child' = [p \in Child |-> IF p \in handles /\ child[p] = "running"
                                 THEN "terminating" ELSE child[p]]
    /\ Goto("join")
    /\ UNCHANGED <<handles, next, line, status, failed, exits>>

\* The children are waited for until the common deadline, then killed.
Join ==
    /\ pc = "join"
    /\ late \/ \A p \in handles : ~Alive(p)
    /\ child' = [p \in Child |-> IF p \in handles /\ Alive(p)
                                 THEN "killed" ELSE child[p]]
    /\ Goto("ended")
    /\ UNCHANGED <<handles, next, line, status, failed, exits>>

Step ==
    \/ Prepare \/ StartSimulator \/ ReadLine \/ StartDaemon
    \/ PollDaemon \/ WaitForHttp \/ seed_task \/ wait_for_terminal_task
    \/ collect_fixture_metrics \/ WriteReport \/ Terminate \/ Join

main == ~hung /\ Step /\ UNCHANGED hung

-----------------------------------------------------------------------------
(* The environment                                                         *)

\* The deadline that main is waiting under passes.
DeadlinePasses ==
    /\ pc \in {"key", "health", "wait", "dashboard", "join"}
    /\ ~late
    /\ late' = TRUE
    /\ UNCHANGED <<pc, child, handles, next, line, status, failed, hung, exits>>

\* The places where main waits for an answer without a timeout: docker and
\* the command line, run by subprocess.run, the ping of Redis, and the
\* statements sent to Postgres, those of the loop of wait_for_terminal_task
\* included.  Only wait_for_postgres and wait_for_http bound their calls.
Untimed == {"infra", "redis", "database", "reset", "seed", "wait", "collect"}

CallHangs ==
    /\ pc \in Untimed
    /\ pc = "seed" => next \in DOMAIN Fixtures
    /\ ~hung
    /\ hung' = TRUE
    /\ UNCHANGED <<pc, child, handles, next, late, line, status, failed, exits>>

SimulatorPrints ==
    /\ child[Simulator] = "running"
    /\ line = "nothing" /\ pc = "key"
    /\ line' \in {"key", "other"}
    /\ UNCHANGED <<pc, child, handles, next, late, status, failed, hung, exits>>

ChildExits(p) ==
    /\ child[p] = "running"
    /\ exits < MaxExits
    /\ exits' = exits + 1
    /\ child' = [child EXCEPT ![p] = "exited"]
    /\ UNCHANGED <<pc, handles, next, late, line, status, failed, hung>>

ChildObeys(p) ==
    /\ child[p] = "terminating"
    /\ child' = [child EXCEPT ![p] = "exited"]
    /\ UNCHANGED <<pc, handles, next, late, line, status, failed, hung, exits>>

\* The daemons move a task on, in any order (see the ledger's own runs).
TaskMoves(f) ==
    /\ status[f] # "absent"
    /\ \E s \in Terminal \cup {"running"} : status' = [status EXCEPT ![f] = s]
    /\ UNCHANGED <<pc, child, handles, next, late, line, failed, hung, exits>>

Environment ==
    \/ DeadlinePasses
    \/ CallHangs
    \/ SimulatorPrints
    \/ \E p \in Child : ChildExits(p) \/ ChildObeys(p)
    \/ \E f \in Fixture : TaskMoves(f)

AuditNext == main \/ QueryFails \/ Environment

\* The script runs, unless it is in a call that never returns, and time
\* passes.  Nothing is assumed of the children: the simulator may be silent.
AuditFairness ==
    /\ WF_auditVars(main)
    /\ WF_auditVars(DeadlinePasses)

AuditSpec == AuditInit /\ [][AuditNext]_auditVars /\ AuditFairness

-----------------------------------------------------------------------------
\* When the audit has ended no child of it is left, however it ended and also
\* if a child ignores the SIGTERM, but for the exceptions before the try
\* statement.  Of these only some leave a child that nobody told to stop: a
\* daemon that cannot be started or exits within its first 0.2 seconds makes
\* start_daemons raise, and the simulator and the daemons before it stay
\* behind; and the simulator stays if its log fails.
NoChildLeftBehind ==
    pc = "ended" =>
        /\ failed \notin BeforeTry \cup {"log"} => \A p \in Child : ~Alive(p)
        /\ (\E p \in Child : child[p] = "running") => failed \in {"log", "spawn", "poll"}

\* The script ends, unless one of its calls without a timeout never returns
\* or the simulator falls silent before its key, where readline waits past
\* the 20 seconds.  So the waits that have a deadline end, by success or by
\* it, whatever the children do: those for the health of the telemetry, for
\* the outcome of a task, for the dashboard and for the children to stop.
SilentSimulator == pc = "key" /\ line = "nothing" /\ child[Simulator] = "running"

AuditEnds == pc = "infra" ~> (pc = "ended" \/ hung \/ []SilentSimulator)
=============================================================================
