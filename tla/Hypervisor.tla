----------------------------- MODULE Hypervisor -----------------------------
(***************************************************************************)
(* One core of the Firecracker hypervisor (omega_hypervisor/src/main.rs)   *)
(* and the guest agents in its VMs (guest_agent/src/main.rs).  A job is    *)
(* one capsule: it clones the template into a directory, starts a          *)
(* Firecracker process there, restores the snapshot through its API        *)
(* socket, sends the payload to the guest and publishes the verdict.       *)
(*                                                                         *)
(* A candidate is always sent to the same core and its directory is named  *)
(* after the candidate, so two executions of one candidate (see            *)
(* NoCandidateTwice in ForestWorker) work in the same directory and can    *)
(* reach each other's sockets.  A VM is named by the job that started it.  *)
(*                                                                         *)
(* Deadlines may pass at any time.  The host path of the guest's socket is *)
(* taken to be one that Firecracker listens on once the snapshot is loaded.*)
(***************************************************************************)
EXTENDS Naturals, Sequences, FiniteSets

CONSTANTS Job, Cand,
          CandOf,        \* capsule.id of a job
          None,
          MaxVms,        \* MAX_CONCURRENT_VMS_PER_CORE
          MaxFailures    \* bound on errors of the environment

ASSUME HypervisorAssumption ==
    /\ CandOf \in [Job -> Cand]
    /\ None \notin Job
    /\ MaxVms \in Nat \ {0}
    /\ MaxFailures \in Nat

VARIABLES pc,         \* where the task of a job is
          permits,    \* free permits of the core's semaphore
          pool,       \* the core: "up", without its pool thread, or "down"
          dir,        \* the VM directories
          vm,         \* state of the Firecracker process of a job
          home,       \* VMs whose working directory was not removed
          child,      \* jobs for which restore_golden_vm returned the process
          peer,       \* the VM at the other end of a job's socket
          backlog,    \* connections to the guest of a VM, in order
          served,     \* payloads the guest of a VM executed
          answer,     \* frame the guest wrote to a job
          verdict,    \* guest_response of a job
          published,  \* jobs whose pack is in the results stream
          leaked,     \* history: directories whose last removal failed
          troubled,   \* history: jobs that met a deadline or an error
          failures    \* history: errors of the environment

jobVars  == <<pc, permits, pool, child, peer, verdict, published>>
hostVars == <<dir, vm, home, leaked>>
guestVars == <<backlog, served, answer>>
vars == <<jobVars, hostVars, guestVars, troubled, failures>>

NoDir    == [exists |-> FALSE, rootfs |-> FALSE, api |-> None, vsock |-> None]
EmptyDir == [NoDir EXCEPT !.exists = TRUE]

Alive == {"starting", "ready", "paused", "running"}

\* The names of the directories: the whole core's...
OneDir(j) == CHOOSE c \in Cand : TRUE
\* ...or the candidate's: vm_{core}_{capsule.id}.
vm_dir(j) == CandOf[j]

Dir(j) == dir[vm_dir(j)]

Init ==
    /\ pc = [j \in Job |-> "queued"]
    /\ permits = MaxVms
    /\ pool = "up"
    /\ dir = [c \in Cand |-> NoDir]
    /\ vm = [j \in Job |-> "none"]
    /\ home = {}
    /\ child = {}
    /\ peer = [j \in Job |-> None]
    /\ backlog = [j \in Job |-> <<>>]
    /\ served = [j \in Job |-> <<>>]
    /\ answer = [j \in Job |-> "none"]
    /\ verdict = [j \in Job |-> "VMFailure"]
    /\ published = {}
    /\ leaked = {}
    /\ troubled = {}
    /\ failures = 0
-----------------------------------------------------------------------------
\* A step of a task, which the core's executor polls.
Goto(j, from, to) ==
    /\ pool # "down"
    /\ UNCHANGED pool
    /\ pc[j] = from
    /\ pc' = [pc EXCEPT ![j] = to]

\* spawn_blocking: a step that waits for the pool, which has one thread.
OnPool(j, from, to) == pool = "up" /\ Goto(j, from, to)

\* The task of a job ends and drops its permit.
Return(j, from) == Goto(j, from, "done") /\ permits' = permits + 1

\* A deadline passes.
Expires(j) == troubled' = troubled \cup {j} /\ UNCHANGED failures

\* Something outside the program fails for a job.
Fails(j) ==
    /\ failures < MaxFailures
    /\ failures' = failures + 1
    /\ troubled' = troubled \cup {j}

Smooth == UNCHANGED <<troubled, failures>>

\* remove_dir_all, and what is put in the place of the directory.
RemoveDir(j, left) ==
    /\ dir' = [dir EXCEPT ![vm_dir(j)] = left]
    /\ home' = {v \in home : vm_dir(v) # vm_dir(j)}
    /\ leaked' = leaked \ {vm_dir(j)}

\* What remains when the removal of a directory fails half-way.
Remnants(d) == [exists : {TRUE}, rootfs : {FALSE, d.rootfs},
                api : {None, d.api}, vsock : {None, d.vsock}]

RemoveFails(j) ==
    /\ Dir(j).exists
    /\ \E d \in Remnants(Dir(j)) : dir' = [dir EXCEPT ![vm_dir(j)] = d]
    /\ leaked' = leaked \cup {vm_dir(j)}
    /\ UNCHANGED home
    /\ Fails(j)

\* The accept loop waits for a permit before it starts the task.
Accept(j) ==
    /\ permits > 0
    /\ permits' = permits - 1
    /\ Goto(j, "queued", "read")
    /\ Smooth
    /\ UNCHANGED <<child, peer, verdict, published, hostVars, guestVars>>

ReadCapsule(j) ==
    /\ Goto(j, "read", "prepare")
    /\ Smooth
    /\ UNCHANGED <<permits, child, peer, verdict, published, hostVars, guestVars>>

\* The connection breaks or the capsule does not parse: no result at all.
BadCapsule(j) ==
    /\ Return(j, "read")
    /\ Fails(j)
    /\ UNCHANGED <<child, peer, verdict, published, hostVars, guestVars>>

\* remove_dir_all and create_dir_all, whose errors are dropped.
PrepareDir(j) ==
    /\ OnPool(j, "prepare", "clone")
    /\ \/ RemoveDir(j, EmptyDir) /\ Smooth
       \/ RemoveDir(j, NoDir) /\ Fails(j)
       \/ RemoveFails(j)
    /\ UNCHANGED <<permits, child, peer, verdict, published, vm, guestVars>>

\* A clone needs the directory; without one the job goes on to its end.
instant_vm_clone(j) ==
    /\ \/ /\ Dir(j).exists
          /\ OnPool(j, "clone", "spawn")
          /\ dir' = [dir EXCEPT ![vm_dir(j)].rootfs = TRUE]
          /\ Smooth
       \/ /\ OnPool(j, "clone", "cleanup")
          /\ UNCHANGED dir
          /\ IF Dir(j).exists THEN Fails(j) ELSE Smooth
    /\ UNCHANGED <<permits, child, peer, verdict, published, vm, home, leaked,
                   guestVars>>
-----------------------------------------------------------------------------
(* restore_golden_vm *)

SpawnFirecracker(j) ==
    /\ OnPool(j, "spawn", "api")
    /\ Dir(j).exists
    /\ vm' = [vm EXCEPT ![j] = "starting"]
    /\ home' = home \cup {j}
    /\ Smooth
    /\ UNCHANGED <<permits, child, peer, verdict, published, dir, leaked, guestVars>>

\* spawn().unwrap() panics and ends the pool's only thread: the awaiting
\* task never wakes up, and no later step on the pool is made...
SpawnPanics(j) ==
    /\ pool = "up"
    /\ pool' = "stuck"
    /\ pc[j] = "spawn"
    /\ pc' = [pc EXCEPT ![j] = "hung"]
    /\ IF Dir(j).exists THEN Fails(j) ELSE Smooth
    /\ UNCHANGED <<permits, child, peer, verdict, published, hostVars, guestVars>>

\* ...or the panic reaches the executor, and no task of the core goes on.
CoreUnwinds ==
    /\ pool = "stuck"
    /\ pool' = "down"
    /\ Smooth
    /\ UNCHANGED <<pc, permits, child, peer, verdict, published, hostVars, guestVars>>

\* UnixStream::connect on the API socket of the directory, whoever bound it.
ConnectApi(j) ==
    /\ Goto(j, "api", "load")
    /\ Dir(j).api # None
    /\ vm[Dir(j).api] \in Alive
    /\ peer' = [peer EXCEPT ![j] = Dir(j).api]
    /\ Smooth
    /\ UNCHANGED <<permits, child, verdict, published, hostVars, guestVars>>

\* Three seconds without a socket.  The process handle is dropped, which
\* does not kill the process.
ApiTimeout(j) ==
    /\ Goto(j, "api", "cleanup")
    /\ Expires(j)
    /\ UNCHANGED <<permits, child, peer, verdict, published, hostVars, guestVars>>

CanLoad(v) ==
    /\ vm[v] = "ready"
    /\ v \in home
    /\ Dir(v).rootfs
    /\ Dir(v).vsock = None

\* PUT /snapshot/load.
LoadSnapshot(j) ==
    /\ Goto(j, "load", "resume")
    /\ CanLoad(peer[j])
    /\ vm' = [vm EXCEPT ![peer[j]] = "paused"]
    /\ dir' = [dir EXCEPT ![vm_dir(peer[j])].vsock = peer[j]]
    /\ Smooth
    /\ UNCHANGED <<permits, child, peer, verdict, published, home, leaked, guestVars>>

\* The API answers with an error; a Firecracker that could not load its
\* snapshot may exit.
LoadFails(j) ==
    /\ Goto(j, "load", "cleanup")
    /\ IF CanLoad(peer[j]) THEN Fails(j) ELSE Smooth
    /\ vm' \in {vm} \cup IF vm[peer[j]] = "ready"
                         THEN {[vm EXCEPT ![peer[j]] = "dead"]} ELSE {}
    /\ UNCHANGED <<permits, child, peer, verdict, published, dir, home, leaked,
                   guestVars>>

\* PATCH /vm, after which the caller has the process.
ResumeVm(j) ==
    /\ Goto(j, "resume", "guest")
    /\ vm[peer[j]] \in {"paused", "running"}
    /\ vm' = [vm EXCEPT ![peer[j]] = "running"]
    /\ child' = child \cup {j}
    /\ Smooth
    /\ UNCHANGED <<permits, peer, verdict, published, dir, home, leaked, guestVars>>

ResumeFails(j) ==
    /\ Goto(j, "resume", "cleanup")
    /\ IF vm[peer[j]] \in Alive THEN Fails(j) ELSE Smooth
    /\ UNCHANGED <<permits, child, peer, verdict, published, hostVars, guestVars>>
-----------------------------------------------------------------------------
(* The exchange with the guest *)

\* Connect and write CONNECT; the acknowledgement is awaited without limit.
ConnectGuest(j) ==
    /\ Goto(j, "guest", "ack")
    /\ Dir(j).vsock # None
    /\ vm[Dir(j).vsock] \in {"paused", "running"}
    /\ peer' = [peer EXCEPT ![j] = Dir(j).vsock]
    /\ Smooth
    /\ UNCHANGED <<permits, child, verdict, published, hostVars, guestVars>>

\* The deadline is never looked at.
NoGuestTimeout(j) == FALSE /\ UNCHANGED vars

\* Two seconds after the job started, restore included.
GuestTimeout(j) ==
    /\ Goto(j, "guest", "cleanup")
    /\ Expires(j)
    /\ UNCHANGED <<permits, child, peer, verdict, published, hostVars, guestVars>>

\* OK, and the payload is written; the guest accepts connections in order.
SendPayload(j) ==
    /\ Goto(j, "ack", "await")
    /\ vm[peer[j]] = "running"
    /\ backlog' = [backlog EXCEPT ![peer[j]] = Append(@, j)]
    /\ Smooth
    /\ UNCHANGED <<permits, child, peer, verdict, published, hostVars, served, answer>>

\* The VM is gone before the acknowledgement: try again.
NoAck(j) ==
    /\ Goto(j, "ack", "guest")
    /\ vm[peer[j]] = "dead"
    /\ Smooth
    /\ UNCHANGED <<permits, child, peer, verdict, published, hostVars, guestVars>>

ReadAnswer(j) ==
    /\ answer[j] # "none"
    /\ Goto(j, "await", "cleanup")
    /\ verdict' = [verdict EXCEPT ![j] = answer[j]]
    /\ Smooth
    /\ UNCHANGED <<permits, child, peer, published, hostVars, guestVars>>

\* The stream ends early, or the frame is too long or does not parse.
NoAnswer(j) ==
    /\ Goto(j, "await", "cleanup")
    /\ \/ answer[j] = "none" /\ vm[peer[j]] = "dead" /\ Smooth
       \/ answer[j] # "none" /\ Fails(j)
    /\ UNCHANGED <<permits, child, peer, verdict, published, hostVars, guestVars>>
-----------------------------------------------------------------------------
(* The end of a job *)

\* kill and wait for the process, if the job has it.
KillChild(j) == vm' = IF j \in child THEN [vm EXCEPT ![j] = "dead"] ELSE vm

\* The directory is removed only with a process to kill.
CleanupIfRestored(j) ==
    /\ OnPool(j, "cleanup", "publish")
    /\ KillChild(j)
    /\ IF j \in child THEN RemoveDir(j, NoDir) ELSE UNCHANGED <<dir, home, leaked>>
    /\ Smooth
    /\ UNCHANGED <<permits, child, peer, verdict, published, guestVars>>

\* The process is left running.
CleanupDirOnly(j) ==
    /\ OnPool(j, "cleanup", "publish")
    /\ RemoveDir(j, NoDir)
    /\ Smooth
    /\ UNCHANGED <<permits, child, peer, verdict, published, vm, guestVars>>

\* The artifact is written; kill and wait; remove_dir_all, whose error is
\* dropped.
Cleanup(j) ==
    /\ OnPool(j, "cleanup", "publish")
    /\ KillChild(j)
    /\ \/ RemoveDir(j, NoDir) /\ Smooth
       \/ RemoveFails(j)
    /\ UNCHANGED <<permits, child, peer, verdict, published, guestVars>>

\* Sign the pack, XADD.
publish_result(j) ==
    /\ OnPool(j, "publish", "decr")
    /\ published' = published \cup {j}
    /\ Smooth
    /\ UNCHANGED <<permits, child, peer, verdict, hostVars, guestVars>>

\* Redis cannot be reached; the error is dropped.
PublishFails(j) ==
    /\ pool = "up"
    /\ Return(j, "publish")
    /\ Fails(j)
    /\ UNCHANGED <<child, peer, verdict, published, hostVars, guestVars>>

\* DECR, and the task ends.
FinishJob(j) ==
    /\ Return(j, "decr")
    /\ Smooth
    /\ UNCHANGED <<child, peer, verdict, published, hostVars, guestVars>>
-----------------------------------------------------------------------------
(* Firecracker and the guest agent *)

\* The process binds its API socket, by an absolute path; it exits when the
\* directory is missing or another process has bound it.
FirecrackerBinds(v) ==
    /\ vm[v] = "starting"
    /\ IF Dir(v).exists /\ Dir(v).api = None
       THEN /\ vm' = [vm EXCEPT ![v] = "ready"]
            /\ dir' = [dir EXCEPT ![vm_dir(v)].api = v]
       ELSE /\ vm' = [vm EXCEPT ![v] = "dead"]
            /\ UNCHANGED dir
    /\ Smooth
    /\ UNCHANGED <<jobVars, home, leaked, guestVars>>

Serves(v) == vm[v] = "running" /\ backlog[v] # <<>>

Execute(v, result) ==
    /\ served' = [served EXCEPT ![v] = Append(@, Head(backlog[v]))]
    /\ answer' = [answer EXCEPT ![Head(backlog[v])] = result]

\* The accept loop goes on after an answer.
GuestServesAll(v) ==
    /\ Serves(v)
    /\ \E result \in {"passed", "failed"} : Execute(v, result)
    /\ backlog' = [backlog EXCEPT ![v] = Tail(@)]
    /\ Smooth
    /\ UNCHANGED <<jobVars, hostVars>>

\* The guest agent takes one connection, runs the funnel on its payload,
\* writes the answer, leaves the loop and powers the VM off.
GuestServes(v) ==
    /\ Serves(v)
    /\ \E result \in {"passed", "failed"} : Execute(v, result)
    /\ backlog' = [backlog EXCEPT ![v] = Tail(@)]
    /\ vm' = [vm EXCEPT ![v] = "dead"]
    /\ Smooth
    /\ UNCHANGED <<jobVars, dir, home, leaked>>

\* The payload is over the guest's limit or does not parse: power off.
GuestRejects(v) ==
    /\ Serves(v)
    /\ Fails(Head(backlog[v]))
    /\ backlog' = [backlog EXCEPT ![v] = Tail(@)]
    /\ vm' = [vm EXCEPT ![v] = "dead"]
    /\ UNCHANGED <<jobVars, dir, home, leaked, served, answer>>
-----------------------------------------------------------------------------
restore_golden_vm(j) ==
    \/ SpawnFirecracker(j) \/ SpawnPanics(j)
    \/ ConnectApi(j) \/ ApiTimeout(j)
    \/ LoadSnapshot(j) \/ LoadFails(j)
    \/ ResumeVm(j) \/ ResumeFails(j)

Exchange(j) ==
    \/ ConnectGuest(j) \/ GuestTimeout(j)
    \/ SendPayload(j) \/ NoAck(j)
    \/ ReadAnswer(j) \/ NoAnswer(j)

Task(j) ==
    \/ ReadCapsule(j) \/ BadCapsule(j)
    \/ PrepareDir(j) \/ instant_vm_clone(j)
    \/ restore_golden_vm(j)
    \/ Exchange(j)
    \/ Cleanup(j)
    \/ publish_result(j) \/ PublishFails(j) \/ FinishJob(j)

Guest(v) == FirecrackerBinds(v) \/ GuestServes(v) \/ GuestRejects(v)

Next == (\E j \in Job : Accept(j) \/ Task(j) \/ Guest(j)) \/ CoreUnwinds

Spec == Init /\ [][Next]_vars

\* A core that is up polls all its tasks; Firecracker and the guest run on their own,
\* and every stage of the funnel has a timeout.
FairSpec ==
    /\ Spec
    /\ \A j \in Job : WF_vars(Task(j)) /\ WF_vars(Guest(j))
-----------------------------------------------------------------------------
Label == {"queued", "read", "prepare", "clone", "spawn", "api", "load",
          "resume", "guest", "ack", "await", "cleanup", "publish", "decr",
          "done", "hung"}

\* The types of the hypervisor's state: no more permits than the semaphore
\* was made with, sockets bound only in directories that exist.
TypeOK ==
    /\ pc \in [Job -> Label]
    /\ permits \in 0..MaxVms
    /\ pool \in {"up", "stuck", "down"}
    /\ dir \in [Cand -> {NoDir} \cup
                  [exists : {TRUE}, rootfs : BOOLEAN,
                   api : Job \cup {None}, vsock : Job \cup {None}]]
    /\ vm \in [Job -> Alive \cup {"none", "dead"}]
    /\ home \subseteq Job
    /\ leaked \subseteq Cand
    /\ child \subseteq Job
    /\ peer \in [Job -> Job \cup {None}]
    /\ backlog \in [Job -> Seq(Job)]
    /\ served \in [Job -> Seq(Job)]
    /\ answer \in [Job -> {"none", "passed", "failed"}]
    /\ verdict \in [Job -> {"VMFailure", "passed", "failed"}]
    /\ published \subseteq Job
    /\ troubled \subseteq Job
    /\ failures \in 0..MaxFailures

\* Jobs that are past the use of their VM without having got its process.
Abandoned == {j \in Job : j \notin child
                 /\ pc[j] \in {"cleanup", "publish", "decr", "done"}}

\* The semaphore and the kill at the end of a job keep the running VMs of a
\* core within MAX_CONCURRENT_VMS_PER_CORE, not counting the ones whose
\* restore failed: those are never killed.
VmsWithinLimit ==
    Cardinality({v \in Job : vm[v] \in Alive} \ Abandoned) <= MaxVms

InDir(j) == pc[j] \in {"clone", "spawn", "api", "load", "resume", "guest",
                       "ack", "await", "cleanup"}
Panicked(j) == pc[j] = "hung"

\* A VM directory exists only as long as some job of its candidate is
\* between its creation and its cleanup: whatever path a job takes through
\* the errors, the last one to leave removes it.  Only the panic of a spawn
\* skips the cleanup, and a removal may fail, which the code does not notice.
DirectoryIsReclaimed ==
    \A c \in Cand : dir[c].exists =>
        \/ \E j \in Job : CandOf[j] = c /\ (InDir(j) \/ Panicked(j))
        \/ c \in leaked

\* The verdict of a job was given by a VM that executed nothing else, even
\* if two jobs connected to the same guest.
VerdictFromFreshVm ==
    \A j \in Job : verdict[j] # "VMFailure" => served[peer[j]] = <<j>>

Alone(j) == \A k \in Job \ {j} : CandOf[k] # CandOf[j]

\* Jobs of different candidates do not disturb each other: a job that shares
\* its candidate with none, met no deadline and no error, ends with the
\* guest's verdict, whatever the others create, remove and kill meanwhile.
StrangersDoNotInterfere ==
    \A j \in Job :
        (/\ Alone(j) /\ j \notin troubled
         /\ pc[j] \in {"publish", "decr", "done"} \/ Panicked(j))
            => verdict[j] # "VMFailure"

\* Every capsule the core has read is answered with a pack and its task
\* ends, unless a spawn panics: when another run of the same candidate has
\* removed the directory, the panic takes the pool with it, and the capsules
\* of all candidates that still need it remain without an answer.
EveryCapsuleIsAnswered ==
    \A j \in Job : pc[j] = "prepare" ~>
        \/ pc[j] = "done" /\ j \in published
        \/ pool # "up"
=============================================================================
