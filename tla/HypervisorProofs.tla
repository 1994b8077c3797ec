-------------------------- MODULE HypervisorProofs --------------------------
(***************************************************************************)
(* One core of the hypervisor, for every number of jobs, permits and       *)
(* failures: the VMs stay within the semaphore's limit, every path through *)
(* the errors reclaims the directory, a verdict comes from a fresh VM, and *)
(* jobs of different candidates do not disturb each other.                 *)
(***************************************************************************)
EXTENDS Hypervisor, FiniteSetTheorems, TLAPS

-----------------------------------------------------------------------------
(* The invariant                                                           *)

\* Sockets stay within a candidate's directory, and a job that talks to a
\* VM has one to talk to.
PeerInv ==
    /\ \A c \in Cand : /\ dir[c].api # None => CandOf[dir[c].api] = c
                       /\ dir[c].vsock # None => CandOf[dir[c].vsock] = c
    /\ \A j \in Job : peer[j] # None => CandOf[peer[j]] = CandOf[j]
    /\ \A j \in Job : pc[j] \in {"load", "resume", "ack", "await"} => peer[j] # None

\* A job has no VM before it spawned one, and a job that was given the
\* process of its VM has killed it when its cleanup is over.
VmInv ==
    /\ \A j \in Job : pc[j] \in {"queued", "read", "prepare", "clone", "spawn",
                                 "hung"} => vm[j] = "none"
    /\ \A j \in child :
          /\ pc[j] \in {"guest", "ack", "await", "cleanup", "publish", "decr", "done"}
          /\ pc[j] \in {"publish", "decr", "done"} => vm[j] = "dead"

\* The jobs that hold a permit of the semaphore.
Holders == {j \in Job : pc[j] \notin {"queued", "done"}}

PermitInv ==
    /\ IsFiniteSet(Holders)
    /\ permits + Cardinality(Holders) = MaxVms

\* A guest serves once.  Whoever waits in the backlog of a VM that is not
\* gone has no answer yet and is still waiting.
GuestInv ==
    /\ \A v \in Job : served[v] # <<>> => vm[v] = "dead"
    /\ \A v \in Job : \A i \in DOMAIN backlog[v] :
          LET k == backlog[v][i]
          IN  /\ peer[k] = v
              /\ pc[k] \in {"await", "cleanup", "publish", "decr", "done"}
              /\ vm[v] # "dead" => pc[k] = "await" /\ answer[k] = "none"
    /\ \A j \in Job : answer[j] # "none" =>
          /\ pc[j] \in {"await", "cleanup", "publish", "decr", "done"}
          /\ peer[j] # None
          /\ served[peer[j]] = <<j>>
    /\ \A j \in Job : verdict[j] # "VMFailure" => answer[j] # "none"

\* A new directory with the clone of the template in it.
ClonedDir == [EmptyDir EXCEPT !.rootfs = TRUE]

\* How far the directory and the VM of a job are when nobody shares its
\* candidate and nothing went wrong for it.
OnItsOwn(j) ==
    /\ pc[j] = "clone" => Dir(j) = EmptyDir
    /\ pc[j] = "spawn" => Dir(j) = ClonedDir
    /\ pc[j] \in {"api", "load"} =>
          /\ j \in home
          /\ Dir(j).exists /\ Dir(j).rootfs /\ Dir(j).vsock = None
          /\ \/ vm[j] = "starting" /\ Dir(j).api = None /\ pc[j] = "api"
             \/ vm[j] = "ready" /\ Dir(j).api = j
    /\ pc[j] = "resume" => vm[j] = "paused"
    /\ pc[j] \in {"guest", "ack"} => vm[j] = "running"
    /\ pc[j] \in {"resume", "guest"} => Dir(j).vsock = j
    /\ pc[j] \in {"load", "resume", "ack", "await"} => peer[j] = j
    /\ pc[j] # "await" /\ answer[j] = "none" => backlog[j] = <<>>
    /\ pc[j] = "await" /\ answer[j] = "none" =>
          vm[j] = "running" /\ backlog[j] = <<j>>
    /\ pc[j] \in {"cleanup", "publish", "decr", "done"} => verdict[j] # "VMFailure"
    /\ ~Panicked(j)

SoloInv == \A j \in Job : Alone(j) /\ j \notin troubled => OnItsOwn(j)

HypervisorInv ==
    /\ TypeOK
    /\ PeerInv
    /\ VmInv
    /\ PermitInv
    /\ DirectoryIsReclaimed
    /\ GuestInv
    /\ SoloInv

-----------------------------------------------------------------------------
(* The semaphore                                                           *)

\* All that a step of job j does to its task and to the semaphore.
TakesPermit(j) ==
    /\ pc[j] = "queued" /\ pc' = [pc EXCEPT ![j] = "read"]
    /\ permits > 0 /\ permits' = permits - 1
GivesPermit(j) ==
    /\ pc[j] \notin {"queued", "done"}
    /\ pc' = [pc EXCEPT ![j] = "done"]
    /\ permits' = permits + 1
KeepsPermit(j) ==
    /\ pc[j] \notin {"queued", "done"}
    /\ \E l \in Label \ {"queued", "done"} : pc' = [pc EXCEPT ![j] = l]
    /\ UNCHANGED permits

LEMMA ControlStep ==
    ASSUME NEW j \in Job, Accept(j) \/ Task(j) \/ Guest(j)
    PROVE  TakesPermit(j) \/ GivesPermit(j) \/ KeepsPermit(j) \/ UNCHANGED <<pc, permits>>
<1>. USE DEF Goto, OnPool, TakesPermit, GivesPermit, KeepsPermit, Label
<1>1. CASE Accept(j)
  BY <1>1 DEF Accept
<1>2. CASE Guest(j)
  BY <1>2 DEF Guest, FirecrackerBinds, GuestServes, GuestRejects, jobVars
<1>3. CASE ReadCapsule(j) \/ BadCapsule(j) \/ PrepareDir(j) \/ instant_vm_clone(j)
  BY <1>3 DEF ReadCapsule, BadCapsule, PrepareDir, instant_vm_clone, Return
<1>4. CASE restore_golden_vm(j)
  BY <1>4 DEF restore_golden_vm, SpawnFirecracker, SpawnPanics, ConnectApi, ApiTimeout,
     LoadSnapshot, LoadFails, ResumeVm, ResumeFails
<1>5. CASE Exchange(j)
  BY <1>5 DEF Exchange, ConnectGuest, GuestTimeout, SendPayload, NoAck, ReadAnswer,
     NoAnswer
<1>6. CASE Cleanup(j) \/ publish_result(j) \/ PublishFails(j) \/ FinishJob(j)
  BY <1>6 DEF Cleanup, publish_result, PublishFails, FinishJob, Return
<1>. QED BY <1>1, <1>2, <1>3, <1>4, <1>5, <1>6 DEF Task

LEMMA PermitStep ==
    ASSUME TypeOK, PermitInv, [Next]_vars
    PROVE  PermitInv' /\ permits' \in 0..MaxVms /\ pc' \in [Job -> Label]
<1>0. /\ pc \in [Job -> Label] /\ permits \in Nat /\ MaxVms \in Nat
      /\ IsFiniteSet(Holders) /\ Cardinality(Holders) \in Nat
      /\ permits + Cardinality(Holders) = MaxVms
  <2>1. IsFiniteSet(Holders) /\ Cardinality(Holders) \in Nat
    BY FS_CardinalityType DEF PermitInv
  <2>. QED BY <2>1, HypervisorAssumption DEF TypeOK, PermitInv
<1>1. CASE UNCHANGED <<pc, permits>>
  <2>1. Holders' = Holders
    BY <1>1 DEF Holders
  <2>. QED BY <1>0, <1>1, <2>1 DEF PermitInv
<1>2. ASSUME NEW j \in Job, TakesPermit(j)
      PROVE  PermitInv' /\ permits' \in 0..MaxVms /\ pc' \in [Job -> Label]
  <2>1. Holders' = Holders \cup {j} /\ j \notin Holders
    BY <1>0, <1>2 DEF TakesPermit, Holders
  <2>2. IsFiniteSet(Holders') /\ Cardinality(Holders') = Cardinality(Holders) + 1
    BY <1>0, <2>1, FS_AddElement
  <2>. QED BY <1>0, <1>2, <2>2 DEF TakesPermit, PermitInv, Label
<1>3. ASSUME NEW j \in Job, GivesPermit(j)
      PROVE  PermitInv' /\ permits' \in 0..MaxVms /\ pc' \in [Job -> Label]
  <2>1. Holders' = Holders \ {j} /\ j \in Holders
    BY <1>0, <1>3 DEF GivesPermit, Holders
  <2>2. /\ IsFiniteSet(Holders') /\ Cardinality(Holders') = Cardinality(Holders) - 1
        /\ Cardinality(Holders') \in Nat
    BY <1>0, <2>1, FS_RemoveElement, FS_CardinalityType
  <2>. QED BY <1>0, <1>3, <2>2 DEF GivesPermit, PermitInv, Label
<1>4. ASSUME NEW j \in Job, KeepsPermit(j)
      PROVE  PermitInv' /\ permits' \in 0..MaxVms /\ pc' \in [Job -> Label]
  <2>1. Holders' = Holders
    BY <1>0, <1>4 DEF KeepsPermit, Holders
  <2>. QED BY <1>0, <1>4, <2>1 DEF KeepsPermit, PermitInv
<1>5. CASE CoreUnwinds
  BY <1>1, <1>5 DEF CoreUnwinds
<1>. QED BY <1>1, <1>2, <1>3, <1>4, <1>5, ControlStep DEF Next, vars, jobVars

-----------------------------------------------------------------------------
(* Types and sockets                                                       *)

Socket == Job \cup {None}
DirRecord == [exists : {TRUE}, rootfs : BOOLEAN, api : Socket, vsock : Socket]

LEMMA DirFacts ==
    /\ NoDir.exists = FALSE /\ NoDir.rootfs = FALSE
    /\ NoDir.api = None /\ NoDir.vsock = None
    /\ EmptyDir \in DirRecord
    /\ EmptyDir.api = None /\ EmptyDir.vsock = None
    /\ \A d \in DirRecord : /\ d.exists = TRUE
                            /\ d.api \in Socket
                            /\ d.vsock \in Socket
    /\ \A d \in {NoDir} \cup DirRecord : d.exists \/ d.rootfs => d \in DirRecord
<1>1. /\ NoDir.exists = FALSE /\ NoDir.rootfs = FALSE
      /\ NoDir.api = None /\ NoDir.vsock = None
  BY DEF NoDir
<1>2. EmptyDir.api = None /\ EmptyDir.vsock = None
  BY DEF NoDir, EmptyDir
<1>3. EmptyDir \in DirRecord
  <2>1. NoDir \in [exists : BOOLEAN, rootfs : BOOLEAN, api : Socket, vsock : Socket]
    BY DEF NoDir, Socket
  <2>2. \A d \in [exists : BOOLEAN, rootfs : BOOLEAN, api : Socket, vsock : Socket] :
           [d EXCEPT !.exists = TRUE] \in DirRecord
    BY DEF DirRecord
  <2>. QED BY <2>1, <2>2 DEF EmptyDir
<1>4. \A d \in DirRecord : d.exists = TRUE /\ d.api \in Socket /\ d.vsock \in Socket
  BY DEF DirRecord
<1>5. \A d \in {NoDir} \cup DirRecord : d.exists \/ d.rootfs => d \in DirRecord
  BY <1>1
<1>. QED BY <1>1, <1>2, <1>3, <1>4, <1>5

\* The three ways in which a directory changes while it exists.
LEMMA DirUpdates ==
    ASSUME NEW d \in DirRecord, NEW x \in Socket
    PROVE  /\ [d EXCEPT !.rootfs = TRUE] \in DirRecord
           /\ [d EXCEPT !.rootfs = TRUE].api = d.api
           /\ [d EXCEPT !.rootfs = TRUE].vsock = d.vsock
           /\ [d EXCEPT !.rootfs = TRUE].rootfs = TRUE
           /\ [d EXCEPT !.api = x] \in DirRecord
           /\ [d EXCEPT !.api = x].api = x
           /\ [d EXCEPT !.api = x].vsock = d.vsock
           /\ [d EXCEPT !.api = x].rootfs = d.rootfs
           /\ [d EXCEPT !.vsock = x] \in DirRecord
           /\ [d EXCEPT !.vsock = x].api = d.api
           /\ [d EXCEPT !.vsock = x].vsock = x
           /\ [d EXCEPT !.vsock = x].rootfs = d.rootfs
<1>1. /\ [d EXCEPT !.rootfs = TRUE] \in DirRecord
      /\ [d EXCEPT !.rootfs = TRUE].api = d.api
      /\ [d EXCEPT !.rootfs = TRUE].vsock = d.vsock
      /\ [d EXCEPT !.rootfs = TRUE].rootfs = TRUE
  BY DEF DirRecord
<1>2. /\ [d EXCEPT !.api = x] \in DirRecord
      /\ [d EXCEPT !.api = x].api = x
      /\ [d EXCEPT !.api = x].vsock = d.vsock
      /\ [d EXCEPT !.api = x].rootfs = d.rootfs
  BY DEF DirRecord
<1>3. /\ [d EXCEPT !.vsock = x] \in DirRecord
      /\ [d EXCEPT !.vsock = x].api = d.api
      /\ [d EXCEPT !.vsock = x].vsock = x
      /\ [d EXCEPT !.vsock = x].rootfs = d.rootfs
  BY DEF DirRecord
<1>. QED BY <1>1, <1>2, <1>3

\* The steps that only move a job's task on (and publish its pack).
Plain(j) ==
    \/ Accept(j) \/ ReadCapsule(j) \/ BadCapsule(j)
    \/ SpawnPanics(j) \/ ApiTimeout(j) \/ ResumeFails(j)
    \/ GuestTimeout(j) \/ NoAck(j) \/ NoAnswer(j)
    \/ publish_result(j) \/ PublishFails(j) \/ FinishJob(j)

PlainMove(from, to) ==
    \/ from = "queued" /\ to = "read"
    \/ from = "read" /\ to \in {"prepare", "done"}
    \/ from = "spawn" /\ to = "hung"
    \/ from \in {"api", "resume", "guest", "await"} /\ to = "cleanup"
    \/ from = "ack" /\ to = "guest"
    \/ from = "publish" /\ to \in {"decr", "done"}
    \/ from = "decr" /\ to = "done"

LEMMA PlainSteps ==
    ASSUME pc \in [Job -> Label], NEW j \in Job, Plain(j)
    PROVE  /\ UNCHANGED <<child, peer, verdict, dir, vm, home, backlog, served, answer>>
           /\ pc' = [pc EXCEPT ![j] = pc'[j]]
           /\ PlainMove(pc[j], pc'[j])
           /\ pc[j] = "await" =>
                 IF answer[j] = "none" THEN vm[peer[j]] = "dead" ELSE TRUE
<1>1. UNCHANGED <<child, peer, verdict, dir, vm, home, backlog, served, answer>>
  BY DEF Plain, Accept, ReadCapsule, BadCapsule, SpawnPanics, ApiTimeout, ResumeFails,
     GuestTimeout, NoAck, NoAnswer, publish_result, PublishFails, FinishJob, hostVars,
     guestVars
<1>2. \E l : pc' = [pc EXCEPT ![j] = l] /\ PlainMove(pc[j], l)
  BY DEF Plain, Accept, ReadCapsule, BadCapsule, SpawnPanics, ApiTimeout, ResumeFails,
     GuestTimeout, NoAck, NoAnswer, publish_result, PublishFails, FinishJob, OnPool, Goto,
     Return, PlainMove
<1>3. pc' = [pc EXCEPT ![j] = pc'[j]] /\ PlainMove(pc[j], pc'[j])
  BY <1>2
<1>4. pc[j] = "await" => NoAnswer(j)
  BY DEF Plain, Accept, ReadCapsule, BadCapsule, SpawnPanics, ApiTimeout, ResumeFails,
     GuestTimeout, NoAck, publish_result, PublishFails, FinishJob, OnPool, Goto, Return
<1>. QED BY <1>1, <1>3, <1>4 DEF NoAnswer

LEMMA TroubleType ==
    ASSUME TypeOK, PeerInv, NEW j \in Job, Accept(j) \/ Task(j) \/ Guest(j)
    PROVE  troubled' \subseteq Job /\ failures' \in 0..MaxFailures
<1>1. Smooth \/ Expires(j) \/ Fails(j) \/ \E k \in Job : Fails(k)
  <2>1. Serves(j) => Head(backlog[j]) \in Job
    BY DEF TypeOK, Serves
  <2>2. CASE Guest(j)
    BY <2>1, <2>2 DEF Guest, FirecrackerBinds, GuestServes, GuestRejects
  <2>3. CASE Exchange(j) \/ restore_golden_vm(j)
    BY <2>3 DEF Exchange, restore_golden_vm, SpawnFirecracker, SpawnPanics, ConnectApi,
       ApiTimeout, LoadSnapshot, LoadFails, ResumeVm, ResumeFails, ConnectGuest,
       GuestTimeout, SendPayload, NoAck, ReadAnswer, NoAnswer
  <2>. QED BY <2>2, <2>3 DEF Task, Accept, ReadCapsule, BadCapsule, PrepareDir,
           instant_vm_clone, Cleanup, RemoveFails, publish_result, PublishFails, FinishJob
<1>. QED BY <1>1, HypervisorAssumption DEF TypeOK, Smooth, Expires, Fails

LEMMA DirTypes ==
    ASSUME TypeOK
    PROVE  /\ dir \in [Cand -> {NoDir} \cup DirRecord]
           /\ \A j \in Job : /\ CandOf[j] \in Cand
                             /\ Dir(j) = dir[CandOf[j]]
                             /\ Dir(j) \in {NoDir} \cup DirRecord
                             /\ Dir(j).exists \/ Dir(j).rootfs => Dir(j) \in DirRecord
                             /\ Dir(j).api \in Socket /\ Dir(j).vsock \in Socket
<1>1. dir \in [Cand -> {NoDir} \cup DirRecord]
  BY DEF TypeOK, DirRecord, Socket
<1>2. None \in Socket
  BY DEF Socket
<1>3. \A j \in Job : CandOf[j] \in Cand /\ Dir(j) = dir[CandOf[j]]
  BY HypervisorAssumption DEF Dir, vm_dir
<1>. QED BY <1>1, <1>2, <1>3, DirFacts

\* What the removal of a directory, at the start of a job or at its end,
\* leaves of it: what remains after an error has no other sockets than it
\* had, and is recorded.
Removed(j, left) == RemoveDir(j, left) \/ RemoveFails(j)

LEMMA RemovedDir ==
    ASSUME TypeOK, NEW j \in Job, NEW left \in {NoDir, EmptyDir}, Removed(j, left)
    PROVE  /\ \E d \in {NoDir} \cup DirRecord :
                 /\ dir' = [dir EXCEPT ![CandOf[j]] = d]
                 /\ d.api \in {None, Dir(j).api} /\ d.vsock \in {None, Dir(j).vsock}
                 /\ d.exists => d = left \/ CandOf[j] \in leaked'
           /\ home' \subseteq home
           /\ \A v \in home : CandOf[v] # CandOf[j] => v \in home'
           /\ leaked' \subseteq Cand
           /\ \A c \in leaked : c # CandOf[j] => c \in leaked'
<1>0. leaked \subseteq Cand /\ CandOf[j] \in Cand
  BY HypervisorAssumption DEF TypeOK
<1>1. CASE RemoveDir(j, left)
  <2>1. left \in {NoDir} \cup DirRecord /\ left.api = None /\ left.vsock = None
    BY DirFacts
  <2>2. dir' = [dir EXCEPT ![CandOf[j]] = left]
    BY <1>1 DEF RemoveDir, vm_dir
  <2>. QED BY <1>0, <1>1, <2>1, <2>2 DEF RemoveDir, vm_dir
<1>2. CASE RemoveFails(j)
  <2>1. PICK d \in Remnants(Dir(j)) : dir' = [dir EXCEPT ![CandOf[j]] = d]
    BY <1>2 DEF RemoveFails, vm_dir
  <2>2. Dir(j) \in DirRecord
    BY <1>2, DirTypes DEF RemoveFails
  <2>3. d \in DirRecord /\ d.api \in {None, Dir(j).api} /\ d.vsock \in {None, Dir(j).vsock}
    <3>1. \A e \in DirRecord :
             e.rootfs \in BOOLEAN /\ e.api \in Socket /\ e.vsock \in Socket
      BY DEF DirRecord
    <3>2. None \in Socket
      BY DEF Socket
    <3>. QED BY <2>2, <3>1, <3>2 DEF Remnants, DirRecord
  <2>4. home' = home /\ leaked' = leaked \cup {CandOf[j]}
    BY <1>2 DEF RemoveFails, vm_dir
  <2>. QED BY <1>0, <2>1, <2>3, <2>4
<1>. QED BY <1>1, <1>2 DEF Removed

\* The two actions that remove a directory.
LEMMA Removals ==
    ASSUME TypeOK, NEW j \in Job
    PROVE  /\ PrepareDir(j) =>
                 /\ Removed(j, EmptyDir) \/ Removed(j, NoDir)
                 /\ pc[j] = "prepare" /\ pc' = [pc EXCEPT ![j] = "clone"]
                 /\ UNCHANGED <<child, peer, verdict, vm, backlog, served, answer>>
           /\ Cleanup(j) =>
                 /\ Removed(j, NoDir)
                 /\ pc[j] = "cleanup" /\ pc' = [pc EXCEPT ![j] = "publish"]
                 /\ vm' = IF j \in child THEN [vm EXCEPT ![j] = "dead"] ELSE vm
                 /\ UNCHANGED <<child, peer, verdict, backlog, served, answer>>
BY DEF PrepareDir, Cleanup, KillChild, Removed, OnPool, Goto, guestVars

LEMMA LeakedFrame ==
    ASSUME NEW j \in Job, Accept(j) \/ Task(j) \/ Guest(j), ~PrepareDir(j), ~Cleanup(j)
    PROVE  UNCHANGED leaked
<1>1. CASE Guest(j)
  BY <1>1 DEF Guest, FirecrackerBinds, GuestServes, GuestRejects, hostVars
<1>2. CASE restore_golden_vm(j)
  BY <1>2 DEF restore_golden_vm, SpawnFirecracker, SpawnPanics, ConnectApi, ApiTimeout,
     LoadSnapshot, LoadFails, ResumeVm, ResumeFails, hostVars
<1>3. CASE Exchange(j)
  BY <1>3 DEF Exchange, ConnectGuest, GuestTimeout, SendPayload, NoAck, ReadAnswer,
     NoAnswer, hostVars
<1>. QED BY <1>1, <1>2, <1>3 DEF Task, Accept, ReadCapsule, BadCapsule, instant_vm_clone,
         publish_result, PublishFails, FinishJob, hostVars

\* The pool only goes down by a panic.
LEMMA PoolStep ==
    ASSUME TypeOK, NEW j \in Job, Accept(j) \/ Task(j) \/ Guest(j)
    PROVE  pool' \in {"up", "stuck", "down"}
<1>0. pool \in {"up", "stuck", "down"}
  BY DEF TypeOK
<1>1. CASE UNCHANGED pool
  BY <1>0, <1>1
<1>2. CASE Guest(j)
  BY <1>1, <1>2 DEF Guest, FirecrackerBinds, GuestServes, GuestRejects, jobVars
<1>3. CASE restore_golden_vm(j)
  BY <1>1, <1>3 DEF restore_golden_vm, SpawnFirecracker, SpawnPanics, ConnectApi,
     ApiTimeout, LoadSnapshot, LoadFails, ResumeVm, ResumeFails, OnPool, Goto
<1>4. CASE Exchange(j)
  BY <1>1, <1>4 DEF Exchange, ConnectGuest, GuestTimeout, SendPayload, NoAck, ReadAnswer,
     NoAnswer, Goto
<1>. QED BY <1>1, <1>2, <1>3, <1>4 DEF Task, Accept, ReadCapsule, BadCapsule, PrepareDir,
         instant_vm_clone, Cleanup, publish_result, PublishFails, FinishJob, OnPool, Goto,
         Return

\* What LoadSnapshot, instant_vm_clone and the bind of a socket do to a
\* directory, which exists.
LEMMA CloneDir ==
    ASSUME TypeOK, NEW j \in Job, instant_vm_clone(j), pc'[j] = "spawn"
    PROVE  \E d \in DirRecord : /\ dir' = [dir EXCEPT ![CandOf[j]] = d]
                                /\ Dir(j) \in DirRecord
                                /\ d = [Dir(j) EXCEPT !.rootfs = TRUE]
                                /\ d.api = Dir(j).api /\ d.vsock = Dir(j).vsock
                                /\ d.rootfs
<1>. DEFINE d == [Dir(j) EXCEPT !.rootfs = TRUE]
<1>1. Dir(j).exists /\ dir' = [dir EXCEPT ![vm_dir(j)].rootfs = TRUE]
  <2>1. pc \in [Job -> Label]
    BY DEF TypeOK
  <2>2. ~OnPool(j, "clone", "cleanup")
    BY <2>1 DEF OnPool, Goto
  <2>. QED BY <2>2 DEF instant_vm_clone
<1>2. Dir(j) \in DirRecord
  BY <1>1, DirTypes
<1>3. dir' = [dir EXCEPT ![CandOf[j]] = d]
  BY <1>1 DEF Dir, vm_dir
<1>4. None \in Socket
  BY DEF Socket
<1>5. d \in DirRecord /\ d.api = Dir(j).api /\ d.vsock = Dir(j).vsock /\ d.rootfs = TRUE
  BY <1>2, <1>4, DirUpdates
<1>. HIDE DEF d
<1>6. d = [Dir(j) EXCEPT !.rootfs = TRUE]
  BY DEF d
<1>. QED BY <1>2, <1>3, <1>5, <1>6

LEMMA LoadDir ==
    ASSUME TypeOK, PeerInv, NEW j \in Job, LoadSnapshot(j)
    PROVE  /\ peer[j] \in Job /\ CandOf[peer[j]] = CandOf[j]
           /\ \E d \in DirRecord : /\ dir' = [dir EXCEPT ![CandOf[j]] = d]
                                   /\ Dir(j) \in DirRecord
                                   /\ d.api = Dir(j).api /\ d.vsock = peer[j]
<1>1. peer[j] \in Job /\ CandOf[peer[j]] = CandOf[j]
  BY DEF TypeOK, PeerInv, LoadSnapshot, Goto
<1>. DEFINE v == peer[j]
            d == [Dir(v) EXCEPT !.vsock = v]
<1>2. Dir(v).rootfs /\ dir' = [dir EXCEPT ![vm_dir(v)].vsock = v]
  BY DEF LoadSnapshot, CanLoad
<1>3. Dir(v) \in DirRecord /\ Dir(v) = Dir(j)
  BY <1>1, <1>2, DirTypes DEF Dir, vm_dir
<1>4. dir' = [dir EXCEPT ![CandOf[v]] = d]
  BY <1>2 DEF Dir, vm_dir
<1>5. v \in Socket
  BY <1>1 DEF Socket
<1>6. d \in DirRecord /\ d.api = Dir(v).api /\ d.vsock = v
  BY <1>3, <1>5, DirUpdates
<1>. HIDE DEF d
<1>. QED BY <1>1, <1>3, <1>4, <1>6

LEMMA BindDir ==
    ASSUME TypeOK, NEW v \in Job, FirecrackerBinds(v)
    PROVE  \/ /\ vm' = [vm EXCEPT ![v] = "dead"] /\ UNCHANGED dir
              /\ ~(Dir(v).exists /\ Dir(v).api = None)
           \/ /\ vm' = [vm EXCEPT ![v] = "ready"]
              /\ \E d \in DirRecord : /\ dir' = [dir EXCEPT ![CandOf[v]] = d]
                                      /\ Dir(v) \in DirRecord
                                      /\ d.api = v /\ d.vsock = Dir(v).vsock
                                      /\ d.rootfs = Dir(v).rootfs
<1>1. CASE ~(Dir(v).exists /\ Dir(v).api = None)
  BY <1>1 DEF FirecrackerBinds
<1>2. CASE Dir(v).exists /\ Dir(v).api = None
  <2>. DEFINE d == [Dir(v) EXCEPT !.api = v]
  <2>1. vm' = [vm EXCEPT ![v] = "ready"] /\ dir' = [dir EXCEPT ![vm_dir(v)].api = v]
    BY <1>2 DEF FirecrackerBinds
  <2>2. Dir(v) \in DirRecord
    BY <1>2, DirTypes
  <2>3. dir' = [dir EXCEPT ![CandOf[v]] = d]
    BY <2>1 DEF Dir, vm_dir
  <2>4. v \in Socket
    BY DEF Socket
  <2>5. d \in DirRecord /\ d.api = v /\ d.vsock = Dir(v).vsock /\ d.rootfs = Dir(v).rootfs
    BY <2>2, <2>4, DirUpdates
  <2>. HIDE DEF d
  <2>. QED BY <2>1, <2>2, <2>3, <2>5
<1>. QED BY <1>1, <1>2

\* The parts of TypeOK that the steps of a job change one by one.
StateTypes ==
    /\ dir \in [Cand -> {NoDir} \cup DirRecord]
    /\ vm \in [Job -> Alive \cup {"none", "dead"}]
    /\ home \subseteq Job
    /\ child \subseteq Job
    /\ peer \in [Job -> Socket]
    /\ backlog \in [Job -> Seq(Job)]
    /\ served \in [Job -> Seq(Job)]
    /\ answer \in [Job -> {"none", "passed", "failed"}]
    /\ verdict \in [Job -> {"VMFailure", "passed", "failed"}]

LEMMA TypeParts ==
    TypeOK <=> /\ StateTypes
               /\ pc \in [Job -> Label]
               /\ permits \in 0..MaxVms
               /\ pool \in {"up", "stuck", "down"}
               /\ leaked \subseteq Cand
               /\ published \subseteq Job
               /\ troubled \subseteq Job
               /\ failures \in 0..MaxFailures
BY DEF TypeOK, StateTypes, DirRecord, Socket

LEMMA StateStep ==
    ASSUME TypeOK, PeerInv, NEW j \in Job, Accept(j) \/ Task(j) \/ Guest(j),
           pc' \in [Job -> Label]
    PROVE  StateTypes' /\ PeerInv'
<1>0. /\ StateTypes /\ pc \in [Job -> Label]
      /\ \A k \in Job : CandOf[k] \in Cand /\ Dir(k) = dir[CandOf[k]]
      /\ Dir(j).api \in Socket /\ Dir(j).vsock \in Socket
      /\ NoDir.api = None /\ NoDir.vsock = None
      /\ EmptyDir \in DirRecord /\ EmptyDir.api = None /\ EmptyDir.vsock = None
      /\ None \in Socket /\ j \in Socket
  BY TypeParts, DirTypes, DirFacts DEF Socket
\* A directory that is replaced by one whose sockets are in order.
<1>1. ASSUME NEW d \in {NoDir} \cup DirRecord, dir' = [dir EXCEPT ![CandOf[j]] = d],
             d.api # None => CandOf[d.api] = CandOf[j],
             d.vsock # None => CandOf[d.vsock] = CandOf[j]
      PROVE  /\ dir' \in [Cand -> {NoDir} \cup DirRecord]
             /\ \A c \in Cand : /\ dir'[c].api # None => CandOf[dir'[c].api] = c
                                /\ dir'[c].vsock # None => CandOf[dir'[c].vsock] = c
  <2>1. \A c \in Cand : dir'[c] = IF c = CandOf[j] THEN d ELSE dir[c]
    BY <1>0, <1>1 DEF StateTypes
  <2>2. dir' \in [Cand -> {NoDir} \cup DirRecord]
    BY <1>0, <1>1 DEF StateTypes
  <2>. QED BY <1>1, <2>1, <2>2 DEF PeerInv
<1>2. CASE Plain(j)
  <2>1. /\ UNCHANGED <<child, peer, verdict, dir, vm, home, backlog, served, answer>>
        /\ pc' = [pc EXCEPT ![j] = pc'[j]]
        /\ PlainMove(pc[j], pc'[j])
    BY <1>0, <1>2, PlainSteps
  <2>2. pc'[j] \notin {"load", "resume", "ack", "await"}
    BY <2>1 DEF PlainMove
  <2>3. PeerInv'
    BY <1>0, <2>1, <2>2 DEF PeerInv
  <2>. QED BY <1>0, <2>1, <2>3 DEF StateTypes
<1>r. ASSUME NEW left \in {NoDir, EmptyDir}, Removed(j, left)
      PROVE  /\ dir' \in [Cand -> {NoDir} \cup DirRecord] /\ home' \subseteq home
             /\ \A c \in Cand : /\ dir'[c].api # None => CandOf[dir'[c].api] = c
                                /\ dir'[c].vsock # None => CandOf[dir'[c].vsock] = c
  <2>1. PICK d \in {NoDir} \cup DirRecord :
           /\ dir' = [dir EXCEPT ![CandOf[j]] = d]
           /\ d.api \in {None, Dir(j).api} /\ d.vsock \in {None, Dir(j).vsock}
    BY <1>r, RemovedDir
  <2>2. home' \subseteq home
    BY <1>r, RemovedDir
  <2>3. /\ d.api # None => CandOf[d.api] = CandOf[j]
        /\ d.vsock # None => CandOf[d.vsock] = CandOf[j]
    BY <1>0, <2>1 DEF PeerInv
  <2>. QED BY <1>1, <2>1, <2>2, <2>3
<1>3. CASE PrepareDir(j)
  <2>1. /\ UNCHANGED <<child, peer, verdict, vm, backlog, served, answer>>
        /\ pc' = [pc EXCEPT ![j] = "clone"]
        /\ Removed(j, EmptyDir) \/ Removed(j, NoDir)
    BY <1>3, Removals
  <2>. QED BY <1>0, <1>r, <2>1 DEF StateTypes, PeerInv
<1>4. CASE instant_vm_clone(j)
  <2>1. /\ UNCHANGED <<child, peer, verdict, vm, home, backlog, served, answer>>
        /\ \/ pc' = [pc EXCEPT ![j] = "spawn"]
           \/ UNCHANGED dir /\ pc' = [pc EXCEPT ![j] = "cleanup"]
    BY <1>4 DEF instant_vm_clone, OnPool, Goto, guestVars
  <2>2. CASE UNCHANGED dir /\ pc' = [pc EXCEPT ![j] = "cleanup"]
    BY <1>0, <2>1, <2>2 DEF StateTypes, PeerInv
  <2>3. CASE pc' = [pc EXCEPT ![j] = "spawn"]
    <3>1. PICK d \in DirRecord : /\ dir' = [dir EXCEPT ![CandOf[j]] = d]
                                 /\ d.api = Dir(j).api /\ d.vsock = Dir(j).vsock
      BY <1>0, <1>4, <2>3, CloneDir
    <3>2. /\ d.api # None => CandOf[d.api] = CandOf[j]
          /\ d.vsock # None => CandOf[d.vsock] = CandOf[j]
      BY <1>0, <3>1 DEF PeerInv
    <3>. QED BY <1>0, <1>1, <2>1, <2>3, <3>1, <3>2 DEF StateTypes, PeerInv
  <2>. QED BY <2>1, <2>2, <2>3
<1>5. CASE SpawnFirecracker(j)
  <2>1. /\ vm' = [vm EXCEPT ![j] = "starting"] /\ home' = home \cup {j}
        /\ UNCHANGED <<child, peer, verdict, dir, backlog, served, answer>>
        /\ pc' = [pc EXCEPT ![j] = "api"]
    BY <1>5 DEF SpawnFirecracker, OnPool, Goto, guestVars
  <2>. QED BY <1>0, <2>1 DEF StateTypes, PeerInv, Alive
<1>6. CASE ConnectApi(j) \/ ConnectGuest(j)
  <2>1. PICK v \in {Dir(j).api, Dir(j).vsock} :
           v # None /\ peer' = [peer EXCEPT ![j] = v]
    BY <1>6 DEF ConnectApi, ConnectGuest
  <2>2. /\ UNCHANGED <<child, verdict, dir, vm, home, backlog, served, answer>>
        /\ pc' = [pc EXCEPT ![j] = "load"] \/ pc' = [pc EXCEPT ![j] = "ack"]
    BY <1>6 DEF ConnectApi, ConnectGuest, Goto, hostVars, guestVars
  <2>3. v \in Socket /\ CandOf[v] = CandOf[j]
    BY <1>0, <2>1 DEF PeerInv
  <2>. QED BY <1>0, <2>1, <2>2, <2>3 DEF StateTypes, PeerInv
<1>7. CASE LoadSnapshot(j)
  <2>1. PICK d \in DirRecord : /\ dir' = [dir EXCEPT ![CandOf[j]] = d]
                               /\ d.api = Dir(j).api /\ d.vsock = peer[j]
                               /\ peer[j] \in Job /\ CandOf[peer[j]] = CandOf[j]
    BY <1>7, LoadDir
  <2>2. /\ vm' = [vm EXCEPT ![peer[j]] = "paused"]
        /\ UNCHANGED <<child, peer, verdict, home, backlog, served, answer>>
        /\ pc' = [pc EXCEPT ![j] = "resume"] /\ pc[j] = "load"
    BY <1>7 DEF LoadSnapshot, Goto, guestVars
  <2>3. /\ d.api # None => CandOf[d.api] = CandOf[j]
        /\ d.vsock # None => CandOf[d.vsock] = CandOf[j]
    BY <1>0, <2>1 DEF PeerInv
  <2>. QED BY <1>0, <1>1, <2>1, <2>2, <2>3 DEF StateTypes, PeerInv, Alive
<1>8. CASE LoadFails(j)
  <2>1. /\ vm' = vm \/ vm' = [vm EXCEPT ![peer[j]] = "dead"]
        /\ UNCHANGED <<child, peer, verdict, dir, home, backlog, served, answer>>
        /\ pc' = [pc EXCEPT ![j] = "cleanup"]
    BY <1>8 DEF LoadFails, Goto, guestVars
  <2>. QED BY <1>0, <2>1 DEF StateTypes, PeerInv, Alive
<1>9. CASE ResumeVm(j)
  <2>1. /\ vm' = [vm EXCEPT ![peer[j]] = "running"] /\ child' = child \cup {j}
        /\ UNCHANGED <<peer, verdict, dir, home, backlog, served, answer>>
        /\ pc' = [pc EXCEPT ![j] = "guest"]
    BY <1>9 DEF ResumeVm, Goto, guestVars
  <2>. QED BY <1>0, <2>1 DEF StateTypes, PeerInv, Alive
<1>10. CASE SendPayload(j)
  <2>1. /\ backlog' = [backlog EXCEPT ![peer[j]] = Append(@, j)]
        /\ UNCHANGED <<child, peer, verdict, dir, vm, home, served, answer>>
        /\ pc' = [pc EXCEPT ![j] = "await"] /\ pc[j] = "ack"
    BY <1>10 DEF SendPayload, Goto, hostVars
  <2>2. peer[j] \in Job
    BY <1>0, <2>1 DEF PeerInv, StateTypes, Socket
  <2>. QED BY <1>0, <2>1, <2>2 DEF StateTypes, PeerInv
<1>11. CASE ReadAnswer(j)
  <2>1. /\ verdict' = [verdict EXCEPT ![j] = answer[j]] /\ answer[j] # "none"
        /\ UNCHANGED <<child, peer, dir, vm, home, backlog, served, answer>>
        /\ pc' = [pc EXCEPT ![j] = "cleanup"]
    BY <1>11 DEF ReadAnswer, Goto, hostVars, guestVars
  <2>. QED BY <1>0, <2>1 DEF StateTypes, PeerInv
<1>12. CASE Cleanup(j)
  <2>1. /\ vm' = vm \/ vm' = [vm EXCEPT ![j] = "dead"]
        /\ UNCHANGED <<child, peer, verdict, backlog, served, answer>>
        /\ pc' = [pc EXCEPT ![j] = "publish"]
        /\ Removed(j, NoDir)
    BY <1>12, Removals
  <2>. QED BY <1>0, <1>r, <2>1 DEF StateTypes, PeerInv, Alive
<1>13. CASE FirecrackerBinds(j)
  <2>1. UNCHANGED <<pc, child, peer, verdict, home, backlog, served, answer>>
    BY <1>13 DEF FirecrackerBinds, jobVars, guestVars
  <2>2. CASE vm' = [vm EXCEPT ![j] = "dead"] /\ UNCHANGED dir
    BY <1>0, <2>1, <2>2 DEF StateTypes, PeerInv, Alive
  <2>3. ASSUME NEW d \in DirRecord, dir' = [dir EXCEPT ![CandOf[j]] = d],
               d.api = j, d.vsock = Dir(j).vsock, vm' = [vm EXCEPT ![j] = "ready"]
        PROVE  StateTypes' /\ PeerInv'
    <3>1. d.vsock # None => CandOf[d.vsock] = CandOf[j]
      BY <1>0, <2>3 DEF PeerInv
    <3>. QED BY <1>0, <1>1, <2>1, <2>3, <3>1 DEF StateTypes, PeerInv, Alive
  <2>. QED BY <1>13, <2>2, <2>3, BindDir
<1>14. CASE GuestServes(j) \/ GuestRejects(j)
  <2>1. /\ vm' = [vm EXCEPT ![j] = "dead"]
        /\ backlog' = [backlog EXCEPT ![j] = Tail(@)]
        /\ UNCHANGED <<pc, child, peer, verdict, dir, home>>
        /\ backlog[j] # <<>>
    BY <1>14 DEF GuestServes, GuestRejects, Serves, jobVars
  <2>2. /\ Head(backlog[j]) \in Job /\ Tail(backlog[j]) \in Seq(Job)
        /\ Append(served[j], Head(backlog[j])) \in Seq(Job)
    BY <1>0, <2>1 DEF StateTypes
  <2>3. \/ UNCHANGED <<served, answer>>
        \/ /\ served' = [served EXCEPT ![j] = Append(@, Head(backlog[j]))]
           /\ \E result \in {"passed", "failed"} :
                 answer' = [answer EXCEPT ![Head(backlog[j])] = result]
    BY <1>14 DEF GuestServes, GuestRejects, Execute
  <2>4. served' \in [Job -> Seq(Job)] /\ answer' \in [Job -> {"none", "passed", "failed"}]
    <3>1. CASE UNCHANGED <<served, answer>>
      BY <1>0, <3>1 DEF StateTypes
    <3>2. ASSUME served' = [served EXCEPT ![j] = Append(@, Head(backlog[j]))],
                 NEW result \in {"passed", "failed"},
                 answer' = [answer EXCEPT ![Head(backlog[j])] = result]
          PROVE  /\ served' \in [Job -> Seq(Job)]
                 /\ answer' \in [Job -> {"none", "passed", "failed"}]
      <4>1. served' \in [Job -> Seq(Job)]
        BY <1>0, <2>2, <3>2 DEF StateTypes
      <4>2. answer' \in [Job -> {"none", "passed", "failed"}]
        BY <1>0, <2>2, <3>2 DEF StateTypes
      <4>. QED BY <4>1, <4>2
    <3>. QED BY <2>3, <3>1, <3>2
  <2>. QED BY <1>0, <2>1, <2>2, <2>4 DEF StateTypes, PeerInv, Alive
<1>. QED BY <1>2, <1>3, <1>4, <1>5, <1>6, <1>7, <1>8, <1>9, <1>10, <1>11, <1>12, <1>13,
         <1>14 DEF Task, Guest, restore_golden_vm, Exchange, Plain

-----------------------------------------------------------------------------
(* VMs and directories                                                     *)

LEMMA VmStep ==
    ASSUME TypeOK, PeerInv, VmInv, NEW j \in Job, Accept(j) \/ Task(j) \/ Guest(j)
    PROVE  VmInv'
<1>0. /\ pc \in [Job -> Label] /\ vm \in [Job -> Alive \cup {"none", "dead"}]
      /\ child \subseteq Job
      /\ pc[j] \in {"load", "resume", "ack", "await"} => peer[j] \in Job
  BY TypeParts DEF StateTypes, PeerInv, Socket
<1>2. CASE Plain(j)
  <2>1. /\ UNCHANGED <<child, vm>>
        /\ pc' = [pc EXCEPT ![j] = pc'[j]]
        /\ PlainMove(pc[j], pc'[j])
    BY <1>0, <1>2, PlainSteps
  <2>. QED BY <1>0, <2>1 DEF VmInv, PlainMove
<1>3. CASE PrepareDir(j) \/ instant_vm_clone(j) \/ ConnectApi(j) \/ ConnectGuest(j)
           \/ SendPayload(j) \/ ReadAnswer(j)
  <2>1. /\ UNCHANGED <<child, vm>>
        /\ pc' = [pc EXCEPT ![j] = pc'[j]]
        /\ \/ pc[j] = "prepare" /\ pc'[j] = "clone"
           \/ pc[j] = "clone" /\ pc'[j] \in {"spawn", "cleanup"}
           \/ pc[j] = "api" /\ pc'[j] = "load"
           \/ pc[j] = "guest" /\ pc'[j] = "ack"
           \/ pc[j] = "ack" /\ pc'[j] = "await"
           \/ pc[j] = "await" /\ pc'[j] = "cleanup"
    BY <1>0, <1>3 DEF PrepareDir, instant_vm_clone, ConnectApi, ConnectGuest, SendPayload,
       ReadAnswer, OnPool, Goto, hostVars
  <2>. QED BY <1>0, <2>1 DEF VmInv
<1>4. CASE SpawnFirecracker(j)
  BY <1>0, <1>4 DEF SpawnFirecracker, OnPool, Goto, VmInv
<1>5. CASE LoadSnapshot(j)
  <2>1. /\ vm' = [vm EXCEPT ![peer[j]] = "paused"] /\ vm[peer[j]] = "ready"
        /\ pc[j] = "load" /\ pc' = [pc EXCEPT ![j] = "resume"] /\ UNCHANGED child
    BY <1>5 DEF LoadSnapshot, CanLoad, Goto
  <2>. QED BY <1>0, <2>1 DEF VmInv
<1>6. CASE LoadFails(j)
  <2>1. /\ \/ vm' = vm
           \/ vm[peer[j]] = "ready" /\ vm' = [vm EXCEPT ![peer[j]] = "dead"]
        /\ pc[j] = "load" /\ pc' = [pc EXCEPT ![j] = "cleanup"] /\ UNCHANGED child
    BY <1>6 DEF LoadFails, Goto
  <2>. QED BY <1>0, <2>1 DEF VmInv
<1>7. CASE ResumeVm(j)
  <2>1. /\ vm' = [vm EXCEPT ![peer[j]] = "running"]
        /\ vm[peer[j]] \in {"paused", "running"}
        /\ pc[j] = "resume" /\ pc' = [pc EXCEPT ![j] = "guest"]
        /\ child' = child \cup {j}
    BY <1>7 DEF ResumeVm, Goto
  <2>. QED BY <1>0, <2>1 DEF VmInv
<1>8. CASE Cleanup(j)
  <2>1. /\ vm' = IF j \in child THEN [vm EXCEPT ![j] = "dead"] ELSE vm
        /\ pc[j] = "cleanup" /\ pc' = [pc EXCEPT ![j] = "publish"] /\ UNCHANGED child
    BY <1>8, Removals
  <2>. QED BY <1>0, <2>1 DEF VmInv
<1>9. CASE Guest(j)
  <2>1. /\ vm[j] \in {"starting", "running"}
        /\ \/ vm' = [vm EXCEPT ![j] = "ready"] /\ vm[j] = "starting"
           \/ vm' = [vm EXCEPT ![j] = "dead"]
        /\ UNCHANGED <<pc, child>>
    BY <1>9 DEF Guest, FirecrackerBinds, GuestServes, GuestRejects, Serves, jobVars
  <2>. QED BY <1>0, <2>1 DEF VmInv
<1>. QED BY <1>2, <1>3, <1>4, <1>5, <1>6, <1>7, <1>8, <1>9
     DEF Task, restore_golden_vm, Exchange, Plain

LEMMA DirectoryStep ==
    ASSUME TypeOK, PeerInv, DirectoryIsReclaimed, NEW j \in Job,
           Accept(j) \/ Task(j) \/ Guest(j)
    PROVE  DirectoryIsReclaimed'
<1>0. /\ pc \in [Job -> Label] /\ dir \in [Cand -> {NoDir} \cup DirRecord]
      /\ CandOf[j] \in Cand /\ Dir(j) = dir[CandOf[j]] /\ NoDir.exists = FALSE
  BY TypeParts, DirTypes, DirFacts
<1>l. ~PrepareDir(j) /\ ~Cleanup(j) => UNCHANGED leaked
  BY LeakedFrame
<1>p. pc[j] \notin {"prepare", "cleanup"} => ~PrepareDir(j) /\ ~Cleanup(j)
  BY Removals
<1>1. ASSUME \A c \in Cand : dir'[c].exists => dir[c].exists, UNCHANGED leaked,
             \A k \in Job : InDir(k) \/ Panicked(k) => (InDir(k) \/ Panicked(k))'
      PROVE  DirectoryIsReclaimed'
  BY <1>1 DEF DirectoryIsReclaimed
<1>2. ASSUME pc' = [pc EXCEPT ![j] = pc'[j]],
             InDir(j) => pc'[j] \in {"clone", "spawn", "api", "load", "resume", "guest",
                                     "ack", "await", "cleanup", "hung"},
             ~Panicked(j)
      PROVE  \A k \in Job : InDir(k) \/ Panicked(k) => (InDir(k) \/ Panicked(k))'
  BY <1>0, <1>2 DEF InDir, Panicked
<1>3. CASE Plain(j)
  <2>1. /\ UNCHANGED dir
        /\ pc' = [pc EXCEPT ![j] = pc'[j]]
        /\ PlainMove(pc[j], pc'[j])
    BY <1>0, <1>3, PlainSteps
  <2>2. InDir(j) => pc'[j] \in {"guest", "cleanup", "hung"}
    BY <2>1 DEF PlainMove, InDir
  <2>3. ~Panicked(j)
    BY <2>1 DEF PlainMove, Panicked
  <2>4. pc[j] \notin {"prepare", "cleanup"}
    BY <2>1 DEF PlainMove
  <2>. QED BY <1>1, <1>2, <1>l, <1>p, <2>1, <2>2, <2>3, <2>4
<1>r. ASSUME NEW left \in {NoDir, EmptyDir}, Removed(j, left)
      PROVE  /\ \A c \in Cand : c # CandOf[j] => dir'[c] = dir[c]
             /\ dir'[CandOf[j]].exists => dir'[CandOf[j]] = left \/ CandOf[j] \in leaked'
             /\ \A c \in leaked : c # CandOf[j] => c \in leaked'
  <2>1. PICK d \in {NoDir} \cup DirRecord :
           /\ dir' = [dir EXCEPT ![CandOf[j]] = d]
           /\ d.exists => d = left \/ CandOf[j] \in leaked'
    BY <1>r, RemovedDir
  <2>2. \A c \in leaked : c # CandOf[j] => c \in leaked'
    BY <1>r, RemovedDir
  <2>. QED BY <1>0, <2>1, <2>2
<1>4. CASE PrepareDir(j)
  <2>1. /\ pc' = [pc EXCEPT ![j] = "clone"] /\ pc[j] = "prepare"
        /\ Removed(j, EmptyDir) \/ Removed(j, NoDir)
    BY <1>4, Removals
  <2>2. \A k \in Job : InDir(k) \/ Panicked(k) => (InDir(k) \/ Panicked(k))'
    BY <1>0, <2>1 DEF InDir, Panicked
  <2>3. InDir(j)'
    BY <1>0, <2>1 DEF InDir
  <2>4. /\ \A c \in Cand : c # CandOf[j] => dir'[c] = dir[c]
        /\ \A c \in leaked : c # CandOf[j] => c \in leaked'
    BY <1>r, <2>1
  <2>. QED BY <2>2, <2>3, <2>4 DEF DirectoryIsReclaimed
<1>5. CASE instant_vm_clone(j)
  <2>1. /\ pc[j] = "clone" /\ pc' = [pc EXCEPT ![j] = pc'[j]]
        /\ pc'[j] \in {"spawn", "cleanup"}
        /\ pc'[j] = "spawn" \/ UNCHANGED dir
    BY <1>0, <1>5 DEF instant_vm_clone, OnPool, Goto
  <2>2. \A c \in Cand : dir'[c].exists => dir[c].exists
    <3>1. CASE pc'[j] = "spawn"
      <4>1. PICK d \in DirRecord : /\ dir' = [dir EXCEPT ![CandOf[j]] = d]
                                   /\ Dir(j) \in DirRecord
        BY <1>5, <3>1, CloneDir
      <4>2. dir[CandOf[j]].exists
        BY <1>0, <4>1, DirFacts
      <4>. QED BY <1>0, <4>1, <4>2
    <3>. QED BY <2>1, <3>1
  <2>. QED BY <1>1, <1>2, <1>l, <1>p, <2>1, <2>2 DEF Panicked
<1>6. CASE LoadSnapshot(j)
  <2>1. /\ pc[j] = "load" /\ pc' = [pc EXCEPT ![j] = pc'[j]] /\ pc'[j] = "resume"
    BY <1>0, <1>6 DEF LoadSnapshot, Goto
  <2>2. PICK d \in DirRecord : /\ dir' = [dir EXCEPT ![CandOf[j]] = d]
                               /\ Dir(j) \in DirRecord
    BY <1>6, LoadDir
  <2>3. dir[CandOf[j]].exists
    BY <1>0, <2>2, DirFacts
  <2>4. \A c \in Cand : dir'[c].exists => dir[c].exists
    BY <1>0, <2>2, <2>3
  <2>. QED BY <1>1, <1>2, <1>l, <1>p, <2>1, <2>4 DEF Panicked
<1>7. CASE SpawnFirecracker(j) \/ ConnectApi(j) \/ ConnectGuest(j) \/ LoadFails(j)
           \/ ResumeVm(j) \/ SendPayload(j) \/ ReadAnswer(j)
  <2>1. /\ UNCHANGED dir
        /\ pc' = [pc EXCEPT ![j] = pc'[j]]
        /\ pc'[j] \in {"api", "load", "ack", "cleanup", "guest", "await"}
        /\ pc[j] \in {"spawn", "api", "guest", "load", "resume", "ack", "await"}
    BY <1>0, <1>7 DEF SpawnFirecracker, ConnectApi, ConnectGuest, LoadFails, ResumeVm,
       SendPayload, ReadAnswer, OnPool, Goto, hostVars
  <2>. QED BY <1>1, <1>2, <1>l, <1>p, <2>1 DEF Panicked
<1>8. CASE Cleanup(j)
  <2>1. pc' = [pc EXCEPT ![j] = "publish"] /\ Removed(j, NoDir)
    BY <1>8, Removals
  <2>2. \A k \in Job : CandOf[k] # CandOf[j] /\ (InDir(k) \/ Panicked(k))
                          => (InDir(k) \/ Panicked(k))'
    BY <1>0, <2>1 DEF InDir, Panicked
  <2>3. \A c \in Cand : dir'[c].exists =>
           c \in leaked' \/ (c # CandOf[j] /\ dir[c].exists)
    BY <1>0, <1>r, <2>1
  <2>4. \A c \in leaked : c # CandOf[j] => c \in leaked'
    BY <1>r, <2>1
  <2>. QED BY <2>2, <2>3, <2>4 DEF DirectoryIsReclaimed
<1>9. CASE Guest(j)
  <2>1. UNCHANGED <<pc, leaked>>
    BY <1>9 DEF Guest, FirecrackerBinds, GuestServes, GuestRejects, jobVars
  <2>2. CASE FirecrackerBinds(j)
    <3>1. CASE UNCHANGED dir
      BY <1>1, <2>1, <3>1 DEF InDir, Panicked
    <3>2. ASSUME NEW d \in DirRecord, dir' = [dir EXCEPT ![CandOf[j]] = d],
                 Dir(j) \in DirRecord
          PROVE  DirectoryIsReclaimed'
      <4>1. dir[CandOf[j]].exists
        BY <1>0, <3>2, DirFacts
      <4>2. \A c \in Cand : dir'[c].exists => dir[c].exists
        BY <1>0, <3>2, <4>1
      <4>. QED BY <1>1, <2>1, <4>2 DEF InDir, Panicked
    <3>. QED BY <2>2, <3>1, <3>2, BindDir
  <2>3. CASE UNCHANGED dir
    BY <1>1, <2>1, <2>3 DEF InDir, Panicked
  <2>. QED BY <1>9, <2>2, <2>3 DEF Guest, GuestServes, GuestRejects
<1>. QED BY <1>3, <1>4, <1>5, <1>6, <1>7, <1>8, <1>9
     DEF Task, restore_golden_vm, Exchange, Plain

-----------------------------------------------------------------------------
(* The exchange with the guests                                            *)

LEMMA TypeStep ==
    ASSUME TypeOK, PeerInv, PermitInv, NEW j \in Job, Accept(j) \/ Task(j) \/ Guest(j)
    PROVE  TypeOK' /\ PeerInv' /\ PermitInv'
<1>1. PermitInv' /\ permits' \in 0..MaxVms /\ pc' \in [Job -> Label]
  BY PermitStep DEF Next
<1>2. StateTypes' /\ PeerInv'
  BY <1>1, StateStep
<1>3. troubled' \subseteq Job /\ failures' \in 0..MaxFailures
  BY TroubleType
<1>4. published' \subseteq Job
  <2>1. published \subseteq Job
    BY DEF TypeOK
  <2>2. CASE publish_result(j)
    BY <2>1, <2>2 DEF publish_result
  <2>3. CASE restore_golden_vm(j) \/ Exchange(j)
    BY <2>1, <2>3 DEF Exchange, restore_golden_vm, SpawnFirecracker, SpawnPanics,
       ConnectApi, ApiTimeout, LoadSnapshot, LoadFails, ResumeVm, ResumeFails,
       ConnectGuest, GuestTimeout, SendPayload, NoAck, ReadAnswer, NoAnswer
  <2>4. CASE Guest(j)
    BY <2>1, <2>4 DEF Guest, FirecrackerBinds, GuestServes, GuestRejects, jobVars
  <2>. QED BY <2>1, <2>2, <2>3, <2>4 DEF Task, Accept, ReadCapsule, BadCapsule, PrepareDir,
           instant_vm_clone, Cleanup, PublishFails, FinishJob
<1>5. leaked' \subseteq Cand
  <2>1. CASE PrepareDir(j) \/ Cleanup(j)
    BY <2>1, Removals, RemovedDir
  <2>2. CASE ~PrepareDir(j) /\ ~Cleanup(j)
    BY <2>2, LeakedFrame DEF TypeOK
  <2>. QED BY <2>1, <2>2
<1>6. TypeOK'
  BY <1>1, <1>2, <1>3, <1>4, <1>5, PoolStep DEF TypeOK, StateTypes, DirRecord, Socket
<1>. QED BY <1>1, <1>2, <1>6

\* Where the task of a job is once its payload was sent.
Settled == {"await", "cleanup", "publish", "decr", "done"}

\* A step that touches no guest, kills or starts no VM anew, and lets a job
\* leave its exchange only with an answer or without its VM.
LEMMA GuestFrame ==
    ASSUME TypeOK, GuestInv, UNCHANGED <<backlog, served, answer>>,
           \A v \in Job : vm[v] = "dead" => vm'[v] = "dead",
           \A k \in Job : pc[k] \in Settled => pc'[k] \in Settled /\ peer'[k] = peer[k],
           \A k \in Job : pc[k] = "await" /\ pc'[k] # "await" =>
               answer[k] # "none" \/ vm[peer[k]] = "dead",
           \A k \in Job : verdict'[k] \in {verdict[k], answer[k]}
               /\ (verdict'[k] = verdict[k] \/ answer[k] # "none")
    PROVE  GuestInv'
<1>0. \A v \in Job : \A i \in DOMAIN backlog[v] : backlog[v][i] \in Job
  BY DEF TypeOK
<1>1. \A v \in Job : served'[v] # <<>> => vm'[v] = "dead"
  BY DEF GuestInv
<1>2. ASSUME NEW v \in Job, NEW i \in DOMAIN backlog[v]
      PROVE  /\ peer'[backlog[v][i]] = v
             /\ pc'[backlog[v][i]] \in Settled
             /\ vm'[v] # "dead" =>
                   pc'[backlog[v][i]] = "await" /\ answer[backlog[v][i]] = "none"
  <2>. DEFINE k == backlog[v][i]
  <2>1. k \in Job
    BY <1>0
  <2>2. /\ peer[k] = v /\ pc[k] \in Settled
        /\ vm[v] # "dead" => pc[k] = "await" /\ answer[k] = "none"
    BY DEF GuestInv, Settled
  <2>. HIDE DEF k
  <2>3. /\ peer'[k] = v
        /\ pc'[k] \in Settled
        /\ vm'[v] # "dead" => pc'[k] = "await" /\ answer[k] = "none"
    BY <2>1, <2>2
  <2>. QED BY <2>3 DEF k
<1>3. \A j \in Job : answer[j] # "none" =>
         pc'[j] \in Settled /\ peer'[j] # None /\ served[peer'[j]] = <<j>>
  BY DEF GuestInv, Settled
<1>4. \A j \in Job : verdict'[j] # "VMFailure" => answer[j] # "none"
  BY DEF GuestInv
<1>. QED BY <1>1, <1>2, <1>3, <1>4 DEF GuestInv, Settled

LEMMA GuestStep ==
    ASSUME TypeOK, PeerInv, VmInv, GuestInv, NEW j \in Job,
           Accept(j) \/ Task(j) \/ Guest(j)
    PROVE  GuestInv'
<1>0. /\ pc \in [Job -> Label] /\ vm \in [Job -> Alive \cup {"none", "dead"}]
      /\ peer \in [Job -> Socket] /\ verdict \in [Job -> {"VMFailure", "passed", "failed"}]
      /\ answer \in [Job -> {"none", "passed", "failed"}]
      /\ backlog \in [Job -> Seq(Job)] /\ served \in [Job -> Seq(Job)]
      /\ pc[j] \in {"load", "resume", "ack", "await"} => peer[j] \in Job
  BY TypeParts DEF StateTypes, PeerInv, Socket
<1>1. CASE Plain(j)
  <2>1. /\ UNCHANGED <<peer, verdict, vm, backlog, served, answer>>
        /\ pc' = [pc EXCEPT ![j] = pc'[j]]
        /\ PlainMove(pc[j], pc'[j])
        /\ pc[j] = "await" => IF answer[j] = "none" THEN vm[peer[j]] = "dead" ELSE TRUE
    BY <1>0, <1>1, PlainSteps
  <2>2. pc[j] \in Settled => pc'[j] \in Settled
    BY <2>1 DEF PlainMove, Settled
  <2>. QED BY <1>0, <2>1, <2>2, GuestFrame
<1>2. CASE PrepareDir(j) \/ instant_vm_clone(j) \/ ConnectApi(j) \/ ConnectGuest(j)
  <2>1. /\ UNCHANGED <<verdict, vm, backlog, served, answer>>
        /\ pc' = [pc EXCEPT ![j] = pc'[j]]
        /\ pc[j] \notin Settled
        /\ \A k \in Job \ {j} : peer'[k] = peer[k]
    BY <1>0, <1>2 DEF PrepareDir, instant_vm_clone, ConnectApi, ConnectGuest, OnPool, Goto,
       hostVars, guestVars, Settled
  <2>2. \A k \in Job \ {j} : pc'[k] = pc[k]
    BY <1>0, <2>1
  <2>3. pc[j] # "await"
    BY <2>1 DEF Settled
  <2>. QED BY <2>1, <2>2, <2>3, GuestFrame
<1>3. CASE SpawnFirecracker(j) \/ LoadSnapshot(j) \/ LoadFails(j) \/ ResumeVm(j)
  <2>1. /\ UNCHANGED <<verdict, peer, backlog, served, answer>>
        /\ pc' = [pc EXCEPT ![j] = pc'[j]]
        /\ pc[j] \notin Settled
    BY <1>0, <1>3 DEF SpawnFirecracker, LoadSnapshot, LoadFails, ResumeVm, OnPool, Goto,
       guestVars, Settled
  <2>2. \A v \in Job : vm[v] = "dead" => vm'[v] = "dead"
    BY <1>0, <1>3 DEF SpawnFirecracker, LoadSnapshot, CanLoad, LoadFails, ResumeVm, OnPool,
       Goto, VmInv
  <2>3. \A k \in Job \ {j} : pc'[k] = pc[k]
    BY <1>0, <2>1
  <2>4. pc[j] # "await"
    BY <2>1 DEF Settled
  <2>. QED BY <2>1, <2>2, <2>3, <2>4, GuestFrame
<1>4. CASE SendPayload(j)
  <2>. DEFINE p == peer[j]
  <2>1. /\ UNCHANGED <<peer, verdict, vm, served, answer>>
        /\ pc[j] = "ack" /\ pc' = [pc EXCEPT ![j] = "await"]
        /\ backlog' = [backlog EXCEPT ![p] = Append(@, j)]
    BY <1>4 DEF SendPayload, Goto, hostVars
  <2>2. p \in Job /\ answer[j] = "none"
    BY <1>0, <2>1 DEF GuestInv
  <2>3. \A k \in Job : pc[k] \in Settled => pc'[k] = pc[k]
    BY <1>0, <2>1 DEF Settled
  <2>4. pc'[j] = "await"
    BY <1>0, <2>1
  <2>5. ASSUME NEW v \in Job, NEW i \in DOMAIN backlog'[v]
        PROVE  /\ peer[backlog'[v][i]] = v
               /\ pc'[backlog'[v][i]] \in Settled
               /\ vm[v] # "dead" =>
                     pc'[backlog'[v][i]] = "await" /\ answer[backlog'[v][i]] = "none"
    <3>1. CASE i \in DOMAIN backlog[v] /\ backlog'[v][i] = backlog[v][i]
      <4>1. /\ backlog[v][i] \in Job /\ peer[backlog[v][i]] = v
            /\ pc[backlog[v][i]] \in Settled
            /\ vm[v] # "dead" =>
                  pc[backlog[v][i]] = "await" /\ answer[backlog[v][i]] = "none"
        BY <1>0, <3>1 DEF GuestInv, Settled
      <4>. QED BY <2>3, <3>1, <4>1
    <3>2. CASE v = p /\ backlog'[v][i] = j
      BY <2>2, <2>4, <3>2 DEF Settled
    <3>3. CASE v # p
      BY <1>0, <2>1, <3>1, <3>3
    <3>4. CASE v = p
      <4>1. backlog[v] \in Seq(Job) /\ backlog'[v] = Append(backlog[v], j)
        BY <1>0, <2>1, <2>2, <3>4
      <4>2. i = Len(backlog[v]) + 1 \/ i \in 1 .. Len(backlog[v])
        BY <4>1
      <4>. QED BY <3>1, <3>2, <3>4, <4>1, <4>2
    <3>. QED BY <3>3, <3>4
  <2>6. \A k \in Job : answer[k] # "none" =>
           pc'[k] \in Settled /\ peer[k] # None /\ served[peer[k]] = <<k>>
    BY <2>3 DEF GuestInv, Settled
  <2>. HIDE DEF p
  <2>. QED BY <2>1, <2>5, <2>6 DEF GuestInv, Settled
<1>5. CASE ReadAnswer(j)
  <2>1. /\ UNCHANGED <<peer, vm, backlog, served, answer>>
        /\ pc' = [pc EXCEPT ![j] = "cleanup"] /\ answer[j] # "none"
        /\ verdict' = [verdict EXCEPT ![j] = answer[j]]
    BY <1>5 DEF ReadAnswer, Goto, hostVars, guestVars
  <2>2. \A k \in Job : pc[k] \in Settled => pc'[k] \in Settled
    BY <1>0, <2>1 DEF Settled
  <2>3. \A k \in Job : pc[k] = "await" /\ pc'[k] # "await" => answer[k] # "none"
    BY <1>0, <2>1
  <2>4. \A k \in Job : verdict'[k] \in {verdict[k], answer[k]}
           /\ (verdict'[k] = verdict[k] \/ answer[k] # "none")
    BY <1>0, <2>1
  <2>. QED BY <2>1, <2>2, <2>3, <2>4, GuestFrame
<1>6. CASE Cleanup(j)
  <2>1. /\ UNCHANGED <<peer, verdict, backlog, served, answer>>
        /\ pc[j] = "cleanup" /\ pc' = [pc EXCEPT ![j] = "publish"]
        /\ vm' = vm \/ vm' = [vm EXCEPT ![j] = "dead"]
    BY <1>6, Removals
  <2>2. \A v \in Job : vm[v] = "dead" => vm'[v] = "dead"
    BY <1>0, <2>1
  <2>3. \A k \in Job : pc[k] \in Settled => pc'[k] \in Settled
    BY <1>0, <2>1 DEF Settled
  <2>4. \A k \in Job : ~(pc[k] = "await" /\ pc'[k] # "await")
    BY <1>0, <2>1
  <2>. QED BY <2>1, <2>2, <2>3, <2>4, GuestFrame
<1>7. CASE FirecrackerBinds(j)
  <2>1. /\ UNCHANGED <<pc, peer, verdict, backlog, served, answer>>
        /\ vm[j] = "starting"
        /\ vm' = [vm EXCEPT ![j] = "ready"] \/ vm' = [vm EXCEPT ![j] = "dead"]
    BY <1>7 DEF FirecrackerBinds, jobVars, guestVars
  <2>2. \A v \in Job : vm[v] = "dead" => vm'[v] = "dead"
    BY <1>0, <2>1
  <2>. QED BY <2>1, <2>2, GuestFrame
<1>8. CASE GuestServes(j) \/ GuestRejects(j)
  <2>. DEFINE h == Head(backlog[j])
  <2>1. /\ UNCHANGED <<pc, peer, verdict>>
        /\ vm[j] = "running" /\ backlog[j] # <<>>
        /\ vm' = [vm EXCEPT ![j] = "dead"]
        /\ backlog' = [backlog EXCEPT ![j] = Tail(@)]
        /\ \/ UNCHANGED <<served, answer>>
           \/ \E result \in {"passed", "failed"} :
                 /\ served' = [served EXCEPT ![j] = Append(@, h)]
                 /\ answer' = [answer EXCEPT ![h] = result]
    BY <1>8 DEF GuestServes, GuestRejects, Serves, Execute, jobVars
  <2>2. /\ h \in Job /\ peer[h] = j /\ pc[h] = "await"
        /\ served[j] = <<>>
    <3>1. backlog[j] \in Seq(Job) /\ backlog[j] # <<>>
      BY <1>0, <2>1
    <3>2. 1 \in DOMAIN backlog[j] /\ h = backlog[j][1] /\ h \in Job
      BY <3>1
    <3>. QED BY <2>1, <3>2 DEF GuestInv
  <2>3. /\ \A v \in Job : vm'[v] = IF v = j THEN "dead" ELSE vm[v]
        /\ \A k \in Job : k # h => answer'[k] = answer[k]
        /\ \A v \in Job : v # j => served'[v] = served[v]
        /\ \/ answer'[h] = answer[h] /\ served'[j] = <<>> /\ UNCHANGED answer
           \/ answer'[h] # "none" /\ served'[j] = <<h>>
    <3>1. \A v \in Job : vm'[v] = IF v = j THEN "dead" ELSE vm[v]
      BY <1>0, <2>1
    <3>2. CASE UNCHANGED <<served, answer>>
      BY <2>2, <3>1, <3>2
    <3>3. ASSUME NEW result \in {"passed", "failed"},
                 served' = [served EXCEPT ![j] = Append(@, h)],
                 answer' = [answer EXCEPT ![h] = result]
          PROVE  /\ \A k \in Job : k # h => answer'[k] = answer[k]
                 /\ \A v \in Job : v # j => served'[v] = served[v]
                 /\ answer'[h] # "none" /\ served'[j] = <<h>>
      <4>1. Append(<<>>, h) = <<h>>
        BY <2>2
      <4>. HIDE DEF h
      <4>2. served'[j] = <<h>>
        BY <1>0, <2>2, <3>3, <4>1
      <4>. QED BY <1>0, <2>2, <3>3, <4>2
    <3>. QED BY <2>1, <3>1, <3>2, <3>3
  <2>. HIDE DEF h
  <2>4. \A v \in Job : served'[v] # <<>> => vm'[v] = "dead"
    BY <2>3 DEF GuestInv
  <2>5. ASSUME NEW v \in Job, NEW i \in DOMAIN backlog'[v]
        PROVE  /\ peer[backlog'[v][i]] = v
               /\ pc[backlog'[v][i]] \in Settled
               /\ vm'[v] # "dead" =>
                     pc[backlog'[v][i]] = "await" /\ answer'[backlog'[v][i]] = "none"
    <3>1. CASE v = j
      <4>1. backlog[j] \in Seq(Job) /\ backlog[j] # <<>> /\ backlog'[j] = Tail(backlog[j])
        BY <1>0, <2>1
      <4>2. i + 1 \in DOMAIN backlog[j] /\ backlog'[j][i] = backlog[j][i + 1]
        BY <3>1, <4>1
      <4>3. peer[backlog[j][i + 1]] = j /\ pc[backlog[j][i + 1]] \in Settled
        BY <4>2 DEF GuestInv, Settled
      <4>4. vm'[v] = "dead"
        BY <2>3, <3>1
      <4>. QED BY <3>1, <4>2, <4>3, <4>4
    <3>2. CASE v # j
      <4>1. backlog'[v] = backlog[v] /\ vm'[v] = vm[v]
        BY <1>0, <2>1, <2>3, <3>2
      <4>2. /\ backlog[v][i] \in Job /\ peer[backlog[v][i]] = v
            /\ pc[backlog[v][i]] \in Settled
            /\ vm[v] # "dead" =>
                  pc[backlog[v][i]] = "await" /\ answer[backlog[v][i]] = "none"
        BY <1>0, <4>1 DEF GuestInv, Settled
      <4>3. backlog[v][i] # h
        BY <2>2, <3>2, <4>2
      <4>. QED BY <2>3, <4>1, <4>2, <4>3
    <3>. QED BY <3>1, <3>2
  <2>6. \A k \in Job : answer'[k] # "none" =>
           pc[k] \in Settled /\ peer[k] # None /\ served'[peer[k]] = <<k>>
    <3>. SUFFICES ASSUME NEW k \in Job, answer'[k] # "none"
                  PROVE  pc[k] \in Settled /\ peer[k] # None /\ served'[peer[k]] = <<k>>
      OBVIOUS
    <3>1. CASE answer'[k] = answer[k] /\ (k # h \/ UNCHANGED answer)
      <4>1. pc[k] \in Settled /\ peer[k] \in Job /\ served[peer[k]] = <<k>>
        BY <1>0, <3>1 DEF GuestInv, Settled, Socket
      <4>2. peer[k] # j
        <5>1. <<k>> # <<>>
          OBVIOUS
        <5>. QED BY <2>2, <4>1, <5>1
      <4>. QED BY <2>3, <4>1, <4>2, HypervisorAssumption
    <3>2. CASE k = h /\ served'[j] = <<h>>
      BY <2>2, <3>2, HypervisorAssumption DEF Settled
    <3>. QED BY <2>3, <3>1, <3>2
  <2>7. \A k \in Job : verdict[k] # "VMFailure" => answer'[k] # "none"
    BY <2>3 DEF GuestInv
  <2>. QED BY <2>1, <2>4, <2>5, <2>6, <2>7 DEF GuestInv, Settled
<1>. QED BY <1>1, <1>2, <1>3, <1>4, <1>5, <1>6, <1>7, <1>8
     DEF Task, Guest, restore_golden_vm, Exchange, Plain

-----------------------------------------------------------------------------
(* Jobs of different candidates                                            *)

LEMMA TroubleGrows ==
    ASSUME NEW j \in Job, Accept(j) \/ Task(j) \/ Guest(j)
    PROVE  troubled \subseteq troubled'
<1>. USE DEF Smooth, Expires, Fails
<1>1. CASE Guest(j)
  BY <1>1 DEF Guest, FirecrackerBinds, GuestServes, GuestRejects
<1>2. CASE Exchange(j) \/ restore_golden_vm(j)
  BY <1>2 DEF Exchange, restore_golden_vm, SpawnFirecracker, SpawnPanics, ConnectApi,
     ApiTimeout, LoadSnapshot, LoadFails, ResumeVm, ResumeFails, ConnectGuest,
     GuestTimeout, SendPayload, NoAck, ReadAnswer, NoAnswer
<1>. QED BY <1>1, <1>2 DEF Task, Accept, ReadCapsule, BadCapsule, PrepareDir,
         instant_vm_clone, Cleanup, RemoveFails, publish_result, PublishFails, FinishJob

\* All that OnItsOwn says of a job.
Untouched(j) ==
    /\ pc'[j] = pc[j]
    /\ dir'[CandOf[j]] = dir[CandOf[j]]
    /\ vm'[j] = vm[j]
    /\ j \in home => j \in home'
    /\ peer'[j] = peer[j]
    /\ backlog'[j] = backlog[j]
    /\ answer'[j] = answer[j]
    /\ verdict'[j] = verdict[j]

\* A step of one job leaves the jobs of other candidates alone.
LEMMA StrangerStep ==
    ASSUME TypeOK, PeerInv, GuestInv, NEW j \in Job, NEW k \in Job,
           CandOf[k] # CandOf[j], Accept(k) \/ Task(k) \/ Guest(k)
    PROVE  Untouched(j)
<1>0. /\ pc \in [Job -> Label] /\ vm \in [Job -> Alive \cup {"none", "dead"}]
      /\ dir \in [Cand -> {NoDir} \cup DirRecord]
      /\ peer \in [Job -> Socket] /\ verdict \in [Job -> {"VMFailure", "passed", "failed"}]
      /\ answer \in [Job -> {"none", "passed", "failed"}]
      /\ backlog \in [Job -> Seq(Job)]
      /\ CandOf[k] \in Cand /\ CandOf[j] \in Cand /\ k # j
  BY TypeParts, HypervisorAssumption DEF StateTypes
<1>p. pc[k] \in {"load", "resume", "ack", "await"} => peer[k] \in Job /\ peer[k] # j
  BY <1>0 DEF PeerInv, Socket
<1>1. CASE Plain(k)
  <2>1. /\ UNCHANGED <<peer, verdict, dir, vm, home, backlog, answer>>
        /\ pc' = [pc EXCEPT ![k] = pc'[k]]
    BY <1>0, <1>1, PlainSteps
  <2>. QED BY <1>0, <2>1 DEF Untouched
<1>r. ASSUME NEW left \in {NoDir, EmptyDir}, Removed(k, left)
      PROVE  dir'[CandOf[j]] = dir[CandOf[j]] /\ (j \in home => j \in home')
  <2>1. PICK d \in {NoDir} \cup DirRecord : dir' = [dir EXCEPT ![CandOf[k]] = d]
    BY <1>r, RemovedDir
  <2>2. j \in home => j \in home'
    BY <1>r, RemovedDir
  <2>. QED BY <1>0, <2>1, <2>2
<1>2. CASE PrepareDir(k)
  <2>1. /\ Removed(k, EmptyDir) \/ Removed(k, NoDir)
        /\ pc' = [pc EXCEPT ![k] = "clone"]
        /\ UNCHANGED <<child, peer, verdict, vm, backlog, served, answer>>
    BY <1>2, Removals
  <2>. QED BY <1>0, <1>r, <2>1 DEF Untouched
<1>3. CASE instant_vm_clone(k)
  <2>1. /\ UNCHANGED <<peer, verdict, vm, home, backlog, answer>>
        /\ pc' = [pc EXCEPT ![k] = pc'[k]]
        /\ pc'[k] = "spawn" \/ UNCHANGED dir
    BY <1>0, <1>3 DEF instant_vm_clone, OnPool, Goto, guestVars
  <2>2. dir'[CandOf[j]] = dir[CandOf[j]]
    <3>1. CASE pc'[k] = "spawn"
      <4>1. PICK d \in DirRecord : dir' = [dir EXCEPT ![CandOf[k]] = d]
        BY <1>3, <3>1, CloneDir
      <4>. QED BY <1>0, <4>1
    <3>. QED BY <2>1, <3>1
  <2>. QED BY <1>0, <2>1, <2>2 DEF Untouched
<1>4. CASE LoadSnapshot(k)
  <2>1. /\ UNCHANGED <<peer, verdict, home, backlog, answer>>
        /\ pc' = [pc EXCEPT ![k] = "resume"] /\ pc[k] = "load"
        /\ vm' = [vm EXCEPT ![peer[k]] = "paused"]
    BY <1>4 DEF LoadSnapshot, Goto, guestVars
  <2>2. PICK d \in DirRecord : dir' = [dir EXCEPT ![CandOf[k]] = d]
    BY <1>4, LoadDir
  <2>. QED BY <1>0, <1>p, <2>1, <2>2 DEF Untouched
<1>5. CASE SpawnFirecracker(k) \/ ConnectApi(k) \/ ConnectGuest(k) \/ ReadAnswer(k)
  BY <1>0, <1>5 DEF SpawnFirecracker, ConnectApi, ConnectGuest, ReadAnswer, OnPool, Goto,
     hostVars, guestVars, Untouched
<1>6. CASE LoadFails(k)
  BY <1>0, <1>p, <1>6 DEF LoadFails, Goto, guestVars, Untouched
<1>7. CASE ResumeVm(k)
  BY <1>0, <1>p, <1>7 DEF ResumeVm, Goto, guestVars, Untouched
<1>8. CASE SendPayload(k)
  BY <1>0, <1>p, <1>8 DEF SendPayload, Goto, hostVars, Untouched
<1>9. CASE Cleanup(k)
  <2>1. /\ Removed(k, NoDir)
        /\ pc' = [pc EXCEPT ![k] = "publish"]
        /\ vm' = IF k \in child THEN [vm EXCEPT ![k] = "dead"] ELSE vm
        /\ UNCHANGED <<child, peer, verdict, backlog, served, answer>>
    BY <1>9, Removals
  <2>. QED BY <1>0, <1>r, <2>1 DEF Untouched
<1>10. CASE FirecrackerBinds(k)
  <2>1. UNCHANGED <<pc, peer, verdict, home, backlog, answer>>
    BY <1>10 DEF FirecrackerBinds, jobVars, guestVars
  <2>2. /\ vm' = [vm EXCEPT ![k] = "dead"] \/ vm' = [vm EXCEPT ![k] = "ready"]
        /\ UNCHANGED dir \/ \E d \in DirRecord : dir' = [dir EXCEPT ![CandOf[k]] = d]
    BY <1>10, BindDir
  <2>. QED BY <1>0, <2>1, <2>2 DEF Untouched
<1>11. CASE GuestServes(k) \/ GuestRejects(k)
  <2>. DEFINE h == Head(backlog[k])
  <2>1. /\ UNCHANGED <<pc, peer, verdict, dir, home>>
        /\ backlog[k] # <<>>
        /\ vm' = [vm EXCEPT ![k] = "dead"]
        /\ backlog' = [backlog EXCEPT ![k] = Tail(@)]
        /\ \/ UNCHANGED answer
           \/ \E result \in {"passed", "failed"} : answer' = [answer EXCEPT ![h] = result]
    BY <1>11 DEF GuestServes, GuestRejects, Serves, Execute, jobVars
  <2>2. h \in Job /\ peer[h] = k
    <3>1. 1 \in DOMAIN backlog[k] /\ h = backlog[k][1] /\ h \in Job
      BY <1>0, <2>1
    <3>. QED BY <3>1 DEF GuestInv
  <2>3. h # j
    BY <2>2, HypervisorAssumption DEF PeerInv
  <2>. HIDE DEF h
  <2>. QED BY <1>0, <2>1, <2>2, <2>3 DEF Untouched
<1>. QED BY <1>1, <1>2, <1>3, <1>4, <1>5, <1>6, <1>7, <1>8, <1>9, <1>10, <1>11
     DEF Task, Guest, restore_golden_vm, Exchange, Plain

LEMMA ClonedFacts ==
    /\ EmptyDir.exists = TRUE
    /\ ClonedDir.exists = TRUE /\ ClonedDir.rootfs = TRUE
    /\ ClonedDir.api = None /\ ClonedDir.vsock = None
<1>1. None \in Socket /\ EmptyDir \in DirRecord
  BY DirFacts DEF Socket
<1>2. /\ ClonedDir \in DirRecord /\ ClonedDir.rootfs = TRUE
      /\ ClonedDir.api = EmptyDir.api /\ ClonedDir.vsock = EmptyDir.vsock
  BY <1>1, DirUpdates DEF ClonedDir
<1>. QED BY <1>1, <1>2, DirFacts

\* A job that shares its candidate with none goes on by itself until
\* something goes wrong for it.
LEMMA OwnStep ==
    ASSUME TypeOK, PeerInv, VmInv, GuestInv, NEW j \in Job, Alone(j), OnItsOwn(j),
           Accept(j) \/ Task(j) \/ Guest(j), j \notin troubled'
    PROVE  OnItsOwn(j)'
<1>0. /\ pc \in [Job -> Label] /\ vm \in [Job -> Alive \cup {"none", "dead"}]
      /\ dir \in [Cand -> {NoDir} \cup DirRecord]
      /\ peer \in [Job -> Socket] /\ verdict \in [Job -> {"VMFailure", "passed", "failed"}]
      /\ answer \in [Job -> {"none", "passed", "failed"}]
      /\ backlog \in [Job -> Seq(Job)]
      /\ CandOf[j] \in Cand /\ Dir(j) = dir[CandOf[j]]
  BY TypeParts, DirTypes DEF StateTypes
<1>d. Dir(j)' = dir'[CandOf[j]]
  BY DEF Dir, vm_dir
<1>n. ~Fails(j) /\ ~Expires(j)
  BY DEF Fails, Expires
<1>1. CASE Plain(j)
  <2>1. /\ UNCHANGED <<peer, verdict, dir, vm, home, backlog, answer>>
        /\ pc' = [pc EXCEPT ![j] = pc'[j]]
    BY <1>0, <1>1, PlainSteps
  <2>2. Dir(j)' = Dir(j)
    BY <1>0, <1>d, <2>1
  <2>3. \/ pc[j] = "queued" /\ pc'[j] = "read"
        \/ pc[j] = "read" /\ pc'[j] = "prepare"
        \/ pc[j] = "publish" /\ pc'[j] = "decr"
        \/ pc[j] = "decr" /\ pc'[j] = "done"
    <3>1. ~SpawnPanics(j)
      BY <1>n, ClonedFacts DEF SpawnPanics, Goto, OnItsOwn
    <3>2. ~ResumeFails(j)
      BY <1>n DEF ResumeFails, Goto, OnItsOwn, Alive
    <3>3. ~NoAck(j)
      BY DEF NoAck, Goto, OnItsOwn
    <3>4. ~NoAnswer(j)
      BY <1>n DEF NoAnswer, Goto, OnItsOwn
    <3>. QED BY <1>0, <1>1, <1>n, <3>1, <3>2, <3>3, <3>4 DEF Plain, Accept, ReadCapsule,
             BadCapsule, ApiTimeout, GuestTimeout, publish_result, PublishFails, FinishJob,
             OnPool, Goto, Return
  <2>. QED BY <1>0, <2>1, <2>2, <2>3 DEF OnItsOwn, Panicked
<1>2. CASE PrepareDir(j)
  <2>1. /\ UNCHANGED <<peer, verdict, vm, backlog, answer>>
        /\ pc[j] = "prepare" /\ pc'[j] = "clone" /\ dir'[CandOf[j]] = EmptyDir
    <3>1. PrepareDir(j) /\ ~Fails(j) => RemoveDir(j, EmptyDir)
      BY DEF PrepareDir, RemoveFails
    <3>. QED BY <1>0, <1>2, <1>n, <3>1, Removals DEF RemoveDir, vm_dir
  <2>. QED BY <1>d, <2>1 DEF OnItsOwn, Panicked
<1>3. CASE instant_vm_clone(j)
  <2>1. pc[j] = "clone" /\ Dir(j) = EmptyDir
    BY <1>3 DEF instant_vm_clone, OnPool, Goto, OnItsOwn
  <2>2. /\ UNCHANGED <<peer, verdict, vm, backlog, answer>>
        /\ pc'[j] = "spawn"
    BY <1>0, <1>3, <1>n, <2>1, ClonedFacts DEF instant_vm_clone, OnPool, Goto, guestVars
  <2>3. PICK d \in DirRecord : /\ dir' = [dir EXCEPT ![CandOf[j]] = d]
                               /\ d = [Dir(j) EXCEPT !.rootfs = TRUE]
    BY <1>3, <2>2, CloneDir
  <2>4. d = ClonedDir
    BY <2>1, <2>3 DEF ClonedDir
  <2>5. dir'[CandOf[j]] = ClonedDir
    BY <1>0, <2>3, <2>4
  <2>. QED BY <1>d, <2>1, <2>2, <2>5 DEF OnItsOwn, Panicked
<1>4. CASE SpawnFirecracker(j)
  <2>1. /\ UNCHANGED <<peer, verdict, dir, backlog, answer>>
        /\ pc[j] = "spawn" /\ pc'[j] = "api" /\ vm'[j] = "starting" /\ j \in home'
    BY <1>0, <1>4 DEF SpawnFirecracker, OnPool, Goto, guestVars
  <2>2. Dir(j)' = ClonedDir
    BY <1>0, <1>d, <2>1 DEF OnItsOwn
  <2>. QED BY <2>1, <2>2, ClonedFacts DEF OnItsOwn, Panicked
<1>5. CASE ConnectApi(j)
  <2>1. /\ UNCHANGED <<verdict, dir, vm, home, backlog, answer>>
        /\ pc[j] = "api" /\ pc'[j] = "load"
        /\ Dir(j).api # None /\ peer'[j] = Dir(j).api
    BY <1>0, <1>5 DEF ConnectApi, Goto, hostVars, guestVars
  <2>2. Dir(j)' = Dir(j)
    BY <1>0, <1>d, <2>1
  <2>. QED BY <2>1, <2>2 DEF OnItsOwn, Panicked
<1>6. CASE LoadSnapshot(j)
  <2>1. /\ UNCHANGED <<peer, verdict, home, backlog, answer>>
        /\ pc[j] = "load" /\ pc'[j] = "resume" /\ vm' = [vm EXCEPT ![peer[j]] = "paused"]
    BY <1>0, <1>6 DEF LoadSnapshot, Goto, guestVars
  <2>2. peer[j] = j
    BY <2>1 DEF OnItsOwn
  <2>3. PICK d \in DirRecord : dir' = [dir EXCEPT ![CandOf[j]] = d] /\ d.vsock = peer[j]
    BY <1>6, LoadDir
  <2>4. Dir(j)'.vsock = j /\ vm'[j] = "paused"
    BY <1>0, <1>d, <2>1, <2>2, <2>3
  <2>. QED BY <2>1, <2>2, <2>4 DEF OnItsOwn, Panicked
<1>7. CASE LoadFails(j)
  <2>1. pc[j] = "load"
    BY <1>7 DEF LoadFails, Goto
  <2>2. CanLoad(j) /\ peer[j] = j
    BY <2>1 DEF OnItsOwn, CanLoad
  <2>. QED BY <1>7, <1>n, <2>2 DEF LoadFails
<1>8. CASE ResumeVm(j)
  <2>1. /\ UNCHANGED <<peer, verdict, dir, home, backlog, answer>>
        /\ pc[j] = "resume" /\ pc'[j] = "guest" /\ vm' = [vm EXCEPT ![peer[j]] = "running"]
    BY <1>0, <1>8 DEF ResumeVm, Goto, guestVars
  <2>2. peer[j] = j
    BY <2>1 DEF OnItsOwn
  <2>3. Dir(j)' = Dir(j) /\ vm'[j] = "running"
    BY <1>0, <1>d, <2>1, <2>2
  <2>. QED BY <2>1, <2>2, <2>3 DEF OnItsOwn, Panicked
<1>9. CASE ConnectGuest(j)
  <2>1. /\ UNCHANGED <<verdict, dir, vm, home, backlog, answer>>
        /\ pc[j] = "guest" /\ pc'[j] = "ack" /\ peer'[j] = Dir(j).vsock
    BY <1>0, <1>9 DEF ConnectGuest, Goto, hostVars, guestVars
  <2>2. Dir(j)' = Dir(j)
    BY <1>0, <1>d, <2>1
  <2>. QED BY <2>1, <2>2 DEF OnItsOwn, Panicked
<1>10. CASE SendPayload(j)
  <2>1. /\ UNCHANGED <<peer, verdict, dir, vm, home, answer>>
        /\ pc[j] = "ack" /\ pc'[j] = "await"
        /\ backlog' = [backlog EXCEPT ![peer[j]] = Append(@, j)]
    BY <1>0, <1>10 DEF SendPayload, Goto, hostVars
  <2>2. peer[j] = j /\ vm[j] = "running" /\ backlog[j] = <<>>
    <3>1. answer[j] = "none"
      BY <2>1 DEF GuestInv
    <3>. QED BY <2>1, <3>1 DEF OnItsOwn
  <2>3. backlog'[j] = <<j>>
    <3>1. Append(<<>>, j) = <<j>>
      OBVIOUS
    <3>. QED BY <1>0, <2>1, <2>2, <3>1
  <2>. QED BY <2>1, <2>2, <2>3 DEF OnItsOwn, Panicked
<1>11. CASE ReadAnswer(j)
  <2>1. /\ UNCHANGED <<peer, dir, vm, home, backlog, answer>>
        /\ pc'[j] = "cleanup" /\ answer[j] # "none" /\ verdict'[j] = answer[j]
    BY <1>0, <1>11 DEF ReadAnswer, Goto, hostVars, guestVars
  <2>2. verdict'[j] # "VMFailure"
    BY <1>0, <2>1
  <2>. QED BY <2>1, <2>2 DEF OnItsOwn, Panicked
<1>12. CASE Cleanup(j)
  <2>1. /\ UNCHANGED <<peer, verdict, backlog, answer>>
        /\ pc[j] = "cleanup" /\ pc'[j] = "publish"
    BY <1>0, <1>12, Removals
  <2>. QED BY <2>1 DEF OnItsOwn, Panicked
<1>13. CASE FirecrackerBinds(j)
  <2>1. /\ UNCHANGED <<pc, peer, verdict, home, backlog, answer>>
        /\ vm[j] = "starting"
    BY <1>13 DEF FirecrackerBinds, jobVars, guestVars
  <2>2. pc[j] \notin {"clone", "spawn", "load", "resume", "guest", "ack"}
    BY <2>1 DEF OnItsOwn, VmInv
  <2>3. pc[j] = "await" => answer[j] # "none"
    BY <2>1 DEF OnItsOwn
  <2>4. CASE pc[j] = "api"
    <3>1. /\ Dir(j).exists /\ Dir(j).api = None /\ j \in home
          /\ Dir(j).rootfs /\ Dir(j).vsock = None
      BY <2>1, <2>4 DEF OnItsOwn
    <3>2. PICK d \in DirRecord :
             /\ dir' = [dir EXCEPT ![CandOf[j]] = d] /\ vm' = [vm EXCEPT ![j] = "ready"]
             /\ d.api = j /\ d.vsock = Dir(j).vsock /\ d.rootfs = Dir(j).rootfs
      BY <1>13, <3>1, BindDir
    <3>3. Dir(j)' = d /\ vm'[j] = "ready" /\ d.exists = TRUE
      BY <1>0, <1>d, <3>2, DirFacts
    <3>. QED BY <2>1, <2>4, <3>1, <3>2, <3>3 DEF OnItsOwn, Panicked
  <2>5. CASE pc[j] # "api"
    BY <2>1, <2>2, <2>3, <2>5 DEF OnItsOwn, Panicked
  <2>. QED BY <2>4, <2>5
<1>14. CASE GuestServes(j) \/ GuestRejects(j)
  <2>. DEFINE h == Head(backlog[j])
  <2>1. h = j /\ pc[j] = "await"
    <3>1. backlog[j] \in Seq(Job) /\ backlog[j] # <<>> /\ vm[j] = "running"
      BY <1>0, <1>14 DEF GuestServes, GuestRejects, Serves
    <3>2. 1 \in DOMAIN backlog[j] /\ h = backlog[j][1] /\ h \in Job
      BY <3>1
    <3>3. peer[h] = j /\ pc[h] = "await"
      BY <3>1, <3>2 DEF GuestInv
    <3>4. CandOf[h] = CandOf[j]
      BY <3>2, <3>3, HypervisorAssumption DEF PeerInv
    <3>. QED BY <3>2, <3>3, <3>4 DEF Alone
  <2>2. CASE GuestRejects(j)
    BY <1>n, <2>1, <2>2 DEF GuestRejects
  <2>3. CASE GuestServes(j)
    <3>1. /\ UNCHANGED <<pc, peer, verdict, dir, home>>
          /\ \E result \in {"passed", "failed"} : answer' = [answer EXCEPT ![h] = result]
      BY <2>3 DEF GuestServes, Execute, jobVars
    <3>. HIDE DEF h
    <3>2. answer'[j] # "none"
      BY <1>0, <2>1, <3>1
    <3>. QED BY <2>1, <3>1, <3>2 DEF OnItsOwn, Panicked
  <2>. QED BY <1>14, <2>2, <2>3
<1>. QED BY <1>1, <1>2, <1>3, <1>4, <1>5, <1>6, <1>7, <1>8, <1>9, <1>10, <1>11, <1>12,
         <1>13, <1>14 DEF Task, Guest, restore_golden_vm, Exchange, Plain

LEMMA SoloStep ==
    ASSUME TypeOK, PeerInv, VmInv, GuestInv, SoloInv, NEW k \in Job,
           Accept(k) \/ Task(k) \/ Guest(k)
    PROVE  SoloInv'
<1>. SUFFICES ASSUME NEW j \in Job, Alone(j), j \notin troubled'
              PROVE  OnItsOwn(j)'
  BY DEF SoloInv, Alone
<1>1. OnItsOwn(j)
  BY TroubleGrows DEF SoloInv
<1>2. CASE k = j
  BY <1>1, <1>2, OwnStep
<1>3. CASE k # j
  <2>1. Untouched(j)
    BY <1>3, StrangerStep DEF Alone
  <2>2. Dir(j)' = Dir(j)
    BY <2>1 DEF Dir, vm_dir, Untouched
  <2>. QED BY <1>1, <2>1, <2>2 DEF Untouched, OnItsOwn, Panicked
<1>. QED BY <1>2, <1>3

-----------------------------------------------------------------------------
(* Every step                                                              *)

LEMMA HypervisorInit == Init => HypervisorInv
<1>. SUFFICES ASSUME Init PROVE HypervisorInv
  OBVIOUS
<1>1. TypeOK
  BY HypervisorAssumption DEF Init, TypeOK, Label, Alive
<1>2. \A c \in Cand : dir[c] = NoDir
  BY DEF Init
<1>3. PeerInv /\ DirectoryIsReclaimed
  BY <1>2, DirFacts DEF Init, PeerInv, DirectoryIsReclaimed
<1>4. VmInv
  BY DEF Init, VmInv
<1>5. PermitInv
  <2>1. Holders = {}
    BY DEF Init, Holders
  <2>. QED BY <2>1, FS_EmptySet, HypervisorAssumption DEF PermitInv, Init
<1>6. GuestInv
  <2>1. \A v \in Job : DOMAIN backlog[v] = {}
    BY DEF Init
  <2>. QED BY <2>1 DEF Init, GuestInv
<1>7. SoloInv
  BY DEF Init, SoloInv, OnItsOwn, Panicked
<1>. QED BY <1>1, <1>3, <1>4, <1>5, <1>6, <1>7 DEF HypervisorInv

LEMMA HypervisorStep == HypervisorInv /\ [Next]_vars => HypervisorInv'
<1>. SUFFICES ASSUME HypervisorInv, [Next]_vars PROVE HypervisorInv'
  OBVIOUS
<1>1. CASE UNCHANGED vars \/ CoreUnwinds
  <2>1. /\ UNCHANGED <<pc, permits, child, peer, verdict, published, dir, vm, home, leaked>>
        /\ UNCHANGED <<backlog, served, answer, troubled, failures>>
        /\ pool' \in {pool, "down"}
    BY <1>1 DEF CoreUnwinds, Smooth, vars, jobVars, hostVars, guestVars
  <2>2. TypeOK' /\ PeerInv' /\ VmInv'
    BY <2>1 DEF HypervisorInv, TypeOK, PeerInv, VmInv
  <2>3. PermitInv'
    BY <2>1 DEF HypervisorInv, PermitInv, Holders
  <2>4. DirectoryIsReclaimed'
    BY <2>1 DEF HypervisorInv, DirectoryIsReclaimed, InDir, Panicked
  <2>5. GuestInv'
    BY <2>1 DEF HypervisorInv, GuestInv
  <2>6. SoloInv'
    BY <2>1 DEF HypervisorInv, SoloInv, OnItsOwn, Alone, Panicked, Dir, vm_dir
  <2>. QED BY <2>2, <2>3, <2>4, <2>5, <2>6 DEF HypervisorInv
<1>2. ASSUME NEW j \in Job, Accept(j) \/ Task(j) \/ Guest(j)
      PROVE  HypervisorInv'
  BY <1>2, TypeStep, VmStep, DirectoryStep, GuestStep, SoloStep DEF HypervisorInv
<1>. QED BY <1>1, <1>2 DEF Next

LEMMA HypervisorInvariant == Spec => []HypervisorInv
BY HypervisorInit, HypervisorStep, PTL DEF Spec

\* The state of a core stays well typed whatever its jobs, its VMs and their
\* guests do: the semaphore never has more permits than it was made with and
\* sockets are only bound in directories that exist.
THEOREM HypervisorTypes == Spec => []TypeOK
<1>1. HypervisorInv => TypeOK
  BY DEF HypervisorInv
<1>. QED BY <1>1, HypervisorInvariant, PTL

\* However many capsules a core is sent, the VMs that its jobs still own are
\* at most MAX_CONCURRENT_VMS_PER_CORE: every one of them belongs to a task
\* that holds a permit of the semaphore.
THEOREM VmsAreLimited == Spec => []VmsWithinLimit
<1>1. HypervisorInv => VmsWithinLimit
  <2>. SUFFICES ASSUME HypervisorInv PROVE VmsWithinLimit
    OBVIOUS
  <2>. DEFINE Owned == {v \in Job : vm[v] \in Alive} \ Abandoned
  <2>1. /\ pc \in [Job -> Label] /\ permits \in Nat /\ MaxVms \in Nat
        /\ IsFiniteSet(Holders) /\ permits + Cardinality(Holders) = MaxVms
    BY HypervisorAssumption DEF HypervisorInv, TypeOK, PermitInv
  <2>2. Owned \subseteq Holders
    BY <2>1 DEF HypervisorInv, VmInv, Abandoned, Alive, Holders
  <2>3. /\ Cardinality(Owned) <= Cardinality(Holders)
        /\ Cardinality(Owned) \in Nat /\ Cardinality(Holders) \in Nat
    BY <2>1, <2>2, FS_Subset, FS_CardinalityType
  <2>. QED BY <2>1, <2>3 DEF VmsWithinLimit
<1>. QED BY <1>1, HypervisorInvariant, PTL

\* Whatever path the jobs of a candidate take through errors and deadlines,
\* its VM directory is gone when the last of them has left: only a task that
\* panicked in spawn(), or a removal that failed, leaves one behind.
THEOREM DirectoriesAreReclaimed == Spec => []DirectoryIsReclaimed
<1>1. HypervisorInv => DirectoryIsReclaimed
  BY DEF HypervisorInv
<1>. QED BY <1>1, HypervisorInvariant, PTL

\* A verdict that a job publishes was computed by a VM that executed this
\* payload and no other, even when two executions of a candidate share a
\* directory and connect to the same guest.
THEOREM VerdictsAreFresh == Spec => []VerdictFromFreshVm
<1>1. HypervisorInv => VerdictFromFreshVm
  BY DEF HypervisorInv, GuestInv, VerdictFromFreshVm
<1>. QED BY <1>1, HypervisorInvariant, PTL

\* A job that shares its candidate with no other job and met no error and no
\* deadline ends with the guest's verdict, whatever the jobs of the other
\* candidates create, remove and kill on the same core.
THEOREM StrangersAreHarmless == Spec => []StrangersDoNotInterfere
<1>1. HypervisorInv => StrangersDoNotInterfere
  BY DEF HypervisorInv, SoloInv, OnItsOwn, StrangersDoNotInterfere
<1>. QED BY <1>1, HypervisorInvariant, PTL
=============================================================================
