-------------------------- MODULE AcceptanceProofs --------------------------
(***************************************************************************)
(* What the steps of the consumer loop, the policy gate and the merger     *)
(* preserve, for every specification that PolicyGate and Merger are part   *)
(* of, and what follows for Acceptance, for any trees, candidates, runs,   *)
(* batch sizes and number of failures.  PipelineProofs uses the lemmas.    *)
(***************************************************************************)
EXTENDS Acceptance, LedgerProofs

-----------------------------------------------------------------------------
(* Sequences and their entries                                             *)

LEMMA EntryAppend ==
    ASSUME NEW S, NEW s \in Seq(S), NEW x
    PROVE  Entry(Append(s, x)) = Entry(s) \cup {x}
BY DEF Entry

LEMMA EntryConcat ==
    ASSUME NEW S, NEW s \in Seq(S), NEW u \in Seq(S)
    PROVE  Entry(s \o u) = Entry(s) \cup Entry(u)
<1>1. /\ Len(s \o u) = Len(s) + Len(u)
      /\ \A i \in 1..Len(s) : (s \o u)[i] = s[i]
      /\ \A i \in 1..Len(u) : (s \o u)[i + Len(s)] = u[i]
  OBVIOUS
<1>2. Entry(s \o u) \subseteq Entry(s) \cup Entry(u)
  <2>. SUFFICES ASSUME NEW i \in 1..(Len(s) + Len(u))
       PROVE  (s \o u)[i] \in Entry(s) \cup Entry(u)
    BY <1>1 DEF Entry
  <2>1. CASE i <= Len(s)
    BY <1>1, <2>1 DEF Entry
  <2>2. CASE i > Len(s)
    <3>1. i - Len(s) \in 1..Len(u)
      BY <2>2
    <3>2. (s \o u)[i] = u[i - Len(s)]
      BY <1>1, <3>1
    <3>. QED BY <3>1, <3>2 DEF Entry
  <2>. QED BY <2>1, <2>2
<1>3. Entry(s) \cup Entry(u) \subseteq Entry(s \o u)
  <2>1. \A i \in 1..Len(s) : i \in 1..Len(s \o u)
    BY <1>1
  <2>2. \A i \in 1..Len(u) : i + Len(s) \in 1..Len(s \o u)
    BY <1>1
  <2>3. DOMAIN (s \o u) = 1..Len(s \o u) /\ DOMAIN s = 1..Len(s) /\ DOMAIN u = 1..Len(u)
    OBVIOUS
  <2>. QED BY <1>1, <2>1, <2>2, <2>3 DEF Entry
<1>. QED BY <1>2, <1>3

LEMMA EntryTail ==
    ASSUME NEW S, NEW s \in Seq(S), s # <<>>
    PROVE  /\ Head(s) \in Entry(s)
           /\ Entry(Tail(s)) \subseteq Entry(s)
BY DEF Entry

LEMMA EntryOne == /\ Entry(<<>>) = {}
                  /\ \A x : Entry(<<x>>) = {x}
BY DEF Entry

LEMMA EntryCons ==
    ASSUME NEW S, NEW x \in S, NEW u \in Seq(S)
    PROVE  Entry(<<x>> \o u) = {x} \cup Entry(u)
<1>1. <<x>> \in Seq(S)
  OBVIOUS
<1>2. Entry(<<x>>) = {x}
  BY EntryOne
<1>3. \A s \in Seq(S) : Entry(s \o u) = Entry(s) \cup Entry(u)
  BY EntryConcat
<1>. QED BY <1>1, <1>2, <1>3, Zenon

-----------------------------------------------------------------------------
(* The consumer loop                                                       *)

\* A daemon is never ahead of what was delivered to it, nor is that ahead of
\* its stream; in the middle of a handler there is an entry being handled.
PositionInv ==
    \A d \in Daemon :
        /\ handled[d] <= delivered[d]
        /\ delivered[d] <= Entries(d)
        /\ pc[d] \notin {"read", "next"} => handled[d] < delivered[d]

DaemonTypeOK ==
    /\ pc \in [Daemon -> Label]
    /\ delivered \in [Daemon -> Nat]
    /\ handled \in [Daemon -> Nat]
    /\ pipeAcks \in [Daemon -> SUBSET Nat]
    /\ acked \in [Daemon -> SUBSET Nat]

LEMMA LoopInit ==
    ASSUME StreamsInit, FabricInit
    PROVE  StreamsTypeOK /\ PositionInv
BY StreamsAssumption
   DEF StreamsInit, FabricInit, StreamsTypeOK, PositionInv, Entries, Label

\* The steps of one daemon, while streams only grow.
LEMMA LoopStep ==
    ASSUME DaemonTypeOK, PositionInv, NEW d \in Daemon,
           \A x \in Daemon : /\ Entries(x) \in Nat /\ Entries(x)' \in Nat
                             /\ Entries(x) <= Entries(x)',
           \/ XReadGroup(d)
           \/ ExecutePipe(d)
           \/ handled[d] < delivered[d] /\ FinishEntry(d)
           \/ handled[d] < delivered[d] /\ \E l \in Label : Goto(d, l)
           \/ LoseBatch(d)
           \/ UNCHANGED daemonVars
    PROVE  DaemonTypeOK' /\ PositionInv'
<1>. USE DEF DaemonTypeOK
<1>1. CASE XReadGroup(d)
  <2>1. BatchMax[d] \in Nat \ {0}
    BY StreamsAssumption
  <2>2. /\ delivered'[d] \in Nat /\ delivered[d] <= delivered'[d]
        /\ delivered'[d] <= Entries(d) /\ handled[d] < delivered'[d]
    BY <1>1, <2>1 DEF XReadGroup, PositionInv
  <2>3. DaemonTypeOK'
    BY <1>1, <2>1 DEF XReadGroup, Label
  <2>4. PositionInv'
    <3>. SUFFICES ASSUME NEW x \in Daemon
         PROVE  /\ handled'[x] <= delivered'[x]
                /\ delivered'[x] <= Entries(x)'
                /\ pc'[x] \notin {"read", "next"} => handled'[x] < delivered'[x]
      BY DEF PositionInv
    <3>1. CASE x = d
      BY <1>1, <2>2, <3>1 DEF XReadGroup
    <3>2. CASE x # d
      BY <1>1, <3>2 DEF XReadGroup, PositionInv
    <3>. QED BY <3>1, <3>2
  <2>. QED BY <2>3, <2>4
<1>2. CASE ExecutePipe(d)
  BY <1>2 DEF ExecutePipe, PositionInv, Label
<1>3. CASE handled[d] < delivered[d] /\ FinishEntry(d)
  BY <1>3 DEF FinishEntry, PositionInv, Label, Current
<1>4. CASE handled[d] < delivered[d] /\ \E l \in Label : Goto(d, l)
  BY <1>4 DEF Goto, PositionInv
<1>5. CASE LoseBatch(d)
  BY <1>5 DEF LoseBatch, PositionInv, Label
<1>6. CASE UNCHANGED daemonVars
  BY <1>6 DEF daemonVars, PositionInv
<1>. QED BY <1>1, <1>2, <1>3, <1>4, <1>5, <1>6

\* Streams that grow, or stay as they are.
LEMMA GrownConcat ==
    ASSUME NEW S, NEW s \in Seq(S), NEW u \in Seq(S)
    PROVE  s \o u \in Seq(S) /\ Len(s) \in Nat /\ Len(s) <= Len(s \o u)
<1>1. s \o u \in Seq(S) /\ Len(s \o u) = Len(s) + Len(u)
  OBVIOUS
<1>2. Len(s) \in Nat /\ Len(u) \in Nat
  OBVIOUS
<1>. QED BY <1>1, <1>2

LEMMA GrownAppend ==
    ASSUME NEW S, NEW s \in Seq(S), NEW x \in S
    PROVE  Append(s, x) \in Seq(S) /\ Len(s) \in Nat /\ Len(s) <= Len(Append(s, x))
OBVIOUS

LEMMA StreamsGrow ==
    ASSUME StreamsTypeOK, FabricTypeOK,
           \/ UNCHANGED dispatchStream
           \/ \E q \in Seq(Request) : dispatchStream' = dispatchStream \o q,
           \/ UNCHANGED resultsStream
           \/ \E p \in Pack : resultsStream' = Append(resultsStream, p),
           \/ UNCHANGED acceptedStream
           \/ \E q \in Seq(Cand) : acceptedStream' = acceptedStream \o q
    PROVE  /\ \A x \in Daemon : /\ Entries(x) \in Nat /\ Entries(x)' \in Nat
                                /\ Entries(x) <= Entries(x)'
           /\ dispatchStream' \in Seq(Request)
           /\ resultsStream' \in Seq(Pack)
           /\ acceptedStream' \in Seq(Cand)
<1>0. /\ dispatchStream \in Seq(Request)
      /\ resultsStream \in Seq(Pack)
      /\ acceptedStream \in Seq(Cand)
  BY DEF FabricTypeOK, StreamsTypeOK
<1>1. dispatchStream' \in Seq(Request) /\ Len(dispatchStream) <= Len(dispatchStream')
  <2>1. CASE UNCHANGED dispatchStream
    BY <1>0, <2>1
  <2>2. CASE \E q \in Seq(Request) : dispatchStream' = dispatchStream \o q
    BY <1>0, <2>2, GrownConcat
  <2>. QED BY <2>1, <2>2
<1>2. resultsStream' \in Seq(Pack) /\ Len(resultsStream) <= Len(resultsStream')
  <2>1. CASE UNCHANGED resultsStream
    BY <1>0, <2>1
  <2>2. CASE \E p \in Pack : resultsStream' = Append(resultsStream, p)
    BY <1>0, <2>2, GrownAppend
  <2>. QED BY <2>1, <2>2
<1>3. acceptedStream' \in Seq(Cand) /\ Len(acceptedStream) <= Len(acceptedStream')
  <2>1. CASE UNCHANGED acceptedStream
    BY <1>0, <2>1
  <2>2. CASE \E q \in Seq(Cand) : acceptedStream' = acceptedStream \o q
    BY <1>0, <2>2, GrownConcat
  <2>. QED BY <2>1, <2>2
<1>4. /\ Len(dispatchStream) \in Nat /\ Len(dispatchStream') \in Nat
      /\ Len(resultsStream) \in Nat /\ Len(resultsStream') \in Nat
      /\ Len(acceptedStream) \in Nat /\ Len(acceptedStream') \in Nat
  BY <1>0, <1>1, <1>2, <1>3
<1>5. \A x \in Daemon : /\ Entries(x) \in Nat /\ Entries(x)' \in Nat
                        /\ Entries(x) <= Entries(x)'
  BY <1>1, <1>2, <1>3, <1>4 DEF Entries
<1>. QED BY <1>1, <1>2, <1>3, <1>5

-----------------------------------------------------------------------------
(* Types of the steps of gate and merger                                   *)

BaseTypeOK ==
    /\ LedgerTypeOK
    /\ FabricTypeOK
    /\ StreamsTypeOK
    /\ GateTypeOK
    /\ MergerTypeOK

GateStep == (GateHandler \/ GateLoop \/ RestartGate) /\ UNCHANGED mergerVars

MergerStep == MergerHandler \/ MergerLoop \/ RestartMerger

LEMMA BaseInit ==
    ASSUME LedgerInit, FabricInit, StreamsInit, GateInit, MergerInit
    PROVE  BaseTypeOK /\ PositionInv
<1>1. FabricTypeOK
  <2>1. FreshHash \in NodeHash /\ NoHash \in NodeHash
    BY DEF FreshHash, NoHash, NodeHash
  <2>. QED BY <2>1 DEF FabricInit, FabricTypeOK
<1>2. GateTypeOK
  <2>1. acceptedKey \in [Tree -> Cand \cup {NoCand}] /\ gatePipe \in Seq(Cand)
    BY DEF GateInit
  <2>2. reserved \in BOOLEAN
    BY DEF GateInit
  <2>3. trustedKey \in trustLog /\ trustLog \in SUBSET Nat
    BY DEF GateInit
  <2>. QED BY <2>1, <2>2, <2>3 DEF GateTypeOK
<1>3. MergerTypeOK
  BY DEF MergerInit, MergerTypeOK
<1>. QED BY <1>1, <1>2, <1>3, LedgerInitType, LoopInit DEF BaseTypeOK

\* The entries that gate and merger have in hand.
LEMMA InHand ==
    ASSUME BaseTypeOK, PositionInv
    PROVE  /\ handled["gate"] < delivered["gate"] =>
                 /\ Current("gate") \in 1..Len(resultsStream)
                 /\ GatePack \in Pack
                 /\ GatePack \in Entry(resultsStream)
                 /\ GatePack.cand \in Cand
                 /\ TreeOf[GatePack.cand] \in Tree
           /\ handled["merger"] < delivered["merger"] =>
                 /\ Current("merger") \in 1..Len(acceptedStream)
                 /\ Winner \in Cand
                 /\ Winner \in Entry(acceptedStream)
                 /\ MyTree \in Tree
<1>1. /\ resultsStream \in Seq(Pack) /\ acceptedStream \in Seq(Cand)
      /\ handled["gate"] \in Nat /\ delivered["gate"] \in Nat
      /\ handled["merger"] \in Nat /\ delivered["merger"] \in Nat
      /\ delivered["gate"] <= Len(resultsStream)
      /\ delivered["merger"] <= Len(acceptedStream)
  BY DEF BaseTypeOK, StreamsTypeOK, PositionInv, Daemon, Entries
<1>2. ASSUME handled["gate"] < delivered["gate"]
      PROVE  /\ Current("gate") \in 1..Len(resultsStream)
             /\ GatePack \in Pack
             /\ GatePack \in Entry(resultsStream)
             /\ GatePack.cand \in Cand
             /\ TreeOf[GatePack.cand] \in Tree
  <2>1. Current("gate") \in 1..Len(resultsStream)
    BY <1>1, <1>2 DEF Current
  <2>2. GatePack \in Pack /\ GatePack \in Entry(resultsStream)
    BY <1>1, <2>1 DEF GatePack, Entry
  <2>. QED BY <2>1, <2>2, FabricAssumption DEF Pack
<1>3. ASSUME handled["merger"] < delivered["merger"]
      PROVE  /\ Current("merger") \in 1..Len(acceptedStream)
             /\ Winner \in Cand
             /\ Winner \in Entry(acceptedStream)
             /\ MyTree \in Tree
  <2>1. Current("merger") \in 1..Len(acceptedStream)
    BY <1>1, <1>3 DEF Current
  <2>2. Winner \in Cand /\ Winner \in Entry(acceptedStream)
    BY <1>1, <2>1 DEF Winner, Entry
  <2>. QED BY <2>1, <2>2, FabricAssumption DEF MyTree
<1>. QED BY <1>2, <1>3

\* The ledger and the loop, from what a step does to them.
LEMMA CommonStep ==
    ASSUME LedgerTypeOK, FabricTypeOK, StreamsTypeOK, PositionInv,
           NEW d \in Daemon,
           \/ UNCHANGED ledgerVars
           \/ \E p \in Proc, cs \in Seq(Call) : MakeCalls(p, cs),
           \/ UNCHANGED dispatchStream
           \/ \E q \in Seq(Request) : dispatchStream' = dispatchStream \o q,
           \/ UNCHANGED resultsStream
           \/ \E p \in Pack : resultsStream' = Append(resultsStream, p),
           \/ UNCHANGED acceptedStream
           \/ \E q \in Seq(Cand) : acceptedStream' = acceptedStream \o q,
           \/ XReadGroup(d)
           \/ ExecutePipe(d)
           \/ handled[d] < delivered[d] /\ FinishEntry(d)
           \/ handled[d] < delivered[d] /\ \E l \in Label : Goto(d, l)
           \/ LoseBatch(d)
           \/ UNCHANGED daemonVars,
           execKey' \in {execKey, execKey + 1},
           UNCHANGED crashes \/ Fails
    PROVE  LedgerTypeOK' /\ StreamsTypeOK' /\ PositionInv'
           /\ dispatchStream' \in Seq(Request)
<1>1. LedgerTypeOK'
  BY LedgerUnchangedType, MakeCallsType
<1>2. /\ \A x \in Daemon : /\ Entries(x) \in Nat /\ Entries(x)' \in Nat
                           /\ Entries(x) <= Entries(x)'
      /\ dispatchStream' \in Seq(Request)
      /\ resultsStream' \in Seq(Pack)
      /\ acceptedStream' \in Seq(Cand)
  BY StreamsGrow
<1>3. DaemonTypeOK' /\ PositionInv'
  <2>1. DaemonTypeOK
    BY DEF DaemonTypeOK, StreamsTypeOK
  <2>. QED BY <1>2, <2>1, LoopStep
<1>4. crashes' \in 0..MaxCrashes /\ execKey' \in Nat \ {0}
  BY StreamsAssumption DEF StreamsTypeOK, Fails
<1>5. StreamsTypeOK'
  BY <1>2, <1>3, <1>4 DEF DaemonTypeOK, StreamsTypeOK
<1>. QED BY <1>1, <1>2, <1>3, <1>5

\* The same for a step that leaves the fabric alone.
LEMMA BaseStep ==
    ASSUME LedgerTypeOK, FabricTypeOK, StreamsTypeOK, PositionInv,
           NEW d \in Daemon, Daemon \subseteq Proc,
           UNCHANGED ledgerVars \/ \E cs \in Seq(Call) : MakeCalls(d, cs),
           UNCHANGED fabricVars,
           \/ UNCHANGED resultsStream
           \/ \E p \in Pack : resultsStream' = Append(resultsStream, p),
           \/ UNCHANGED acceptedStream
           \/ \E q \in Seq(Cand) : acceptedStream' = acceptedStream \o q,
           \/ XReadGroup(d)
           \/ ExecutePipe(d)
           \/ handled[d] < delivered[d] /\ FinishEntry(d)
           \/ handled[d] < delivered[d] /\ \E l \in Label : Goto(d, l)
           \/ LoseBatch(d)
           \/ UNCHANGED daemonVars,
           UNCHANGED execKey,
           UNCHANGED crashes \/ Fails
    PROVE  LedgerTypeOK' /\ FabricTypeOK' /\ StreamsTypeOK' /\ PositionInv'
<1>1. FabricTypeOK'
  BY DEF fabricVars, FabricTypeOK
<1>2. UNCHANGED dispatchStream /\ d \in Proc
  BY DEF fabricVars
<1>3. LedgerTypeOK' /\ StreamsTypeOK' /\ PositionInv'
  BY <1>2, CommonStep
<1>. QED BY <1>1, <1>3

LEMMA GateStepType ==
    ASSUME BaseTypeOK, PositionInv, Daemon \subseteq Proc, GateStep
    PROVE  BaseTypeOK' /\ PositionInv'
<1>. USE DEF BaseTypeOK
<1>0. /\ "gate" \in Daemon
      /\ MergerTypeOK'
      /\ pc["gate"] = "winner" => handled["gate"] < delivered["gate"]
  BY DEF Daemon, GateStep, MergerTypeOK, mergerVars, PositionInv
<1>1. CASE ReserveTree
  <2>1. /\ handled["gate"] < delivered["gate"]
        /\ \E l \in Label : Goto("gate", l)
        /\ UNCHANGED <<ledgerVars, fabricVars, resultsStream, acceptedStream,
                       execKey, crashes>>
    BY <1>1 DEF ReserveTree, Handling, Label, gateFrame, streamVars, failureVars
  <2>2. LedgerTypeOK' /\ FabricTypeOK' /\ StreamsTypeOK' /\ PositionInv'
    BY <1>0, <2>1, BaseStep
  <2>3. GateTypeOK'
    BY <1>1, <2>1, InHand DEF ReserveTree, GateTypeOK
  <2>. QED BY <1>0, <2>2, <2>3
<1>2. CASE Accept
  <2>1. update_candidate_status(GatePack.cand, "accepted") \in Seq(Call)
    BY <1>0, <1>2, InHand, CallTypes DEF Accept, CandStatus
  <2>2. /\ handled["gate"] < delivered["gate"]
        /\ FinishEntry("gate")
        /\ \E cs \in Seq(Call) : MakeCalls("gate", cs)
        /\ UNCHANGED <<fabricVars, resultsStream, acceptedStream, execKey, crashes>>
    BY <1>0, <1>2, <2>1 DEF Accept, gateFrame, streamVars, failureVars
  <2>3. LedgerTypeOK' /\ FabricTypeOK' /\ StreamsTypeOK' /\ PositionInv'
    BY <1>0, <2>2, BaseStep
  <2>4. GateTypeOK'
    BY <1>2, <2>2, InHand DEF Accept, GateTypeOK
  <2>. QED BY <1>0, <2>3, <2>4
<1>3. CASE Reject
  <2>0. handled["gate"] < delivered["gate"]
    BY <1>0, <1>3 DEF Reject, Handling
  <2>1. update_candidate_status(GatePack.cand, "rejected_policy") \in Seq(Call)
    BY <2>0, InHand, CallTypes DEF CandStatus
  <2>2. /\ FinishEntry("gate")
        /\ \E cs \in Seq(Call) : MakeCalls("gate", cs)
        /\ UNCHANGED <<fabricVars, resultsStream, acceptedStream, execKey, crashes>>
    BY <1>3, <2>1 DEF Reject, gateFrame, streamVars, failureVars
  <2>3. LedgerTypeOK' /\ FabricTypeOK' /\ StreamsTypeOK' /\ PositionInv'
    BY <1>0, <2>0, <2>2, BaseStep
  <2>4. GateTypeOK'
    BY <1>3 DEF Reject, GateTypeOK
  <2>. QED BY <1>0, <2>3, <2>4
<1>4. CASE ReadGateBatch
  <2>1. LedgerTypeOK' /\ FabricTypeOK' /\ StreamsTypeOK' /\ PositionInv'
    BY <1>0, <1>4, BaseStep DEF ReadGateBatch, gateFrame, streamVars, failureVars
  <2>2. GateTypeOK'
    BY <1>4 DEF ReadGateBatch, GateTypeOK, gateVars
  <2>. QED BY <1>0, <2>1, <2>2
<1>5. CASE ExecuteGatePipe
  <2>1. /\ ExecutePipe("gate")
        /\ \E q \in Seq(Cand) : acceptedStream' = acceptedStream \o q
        /\ UNCHANGED <<ledgerVars, fabricVars, resultsStream, execKey, crashes>>
    BY <1>5 DEF ExecuteGatePipe, GateTypeOK, failureVars
  <2>2. LedgerTypeOK' /\ FabricTypeOK' /\ StreamsTypeOK' /\ PositionInv'
    BY <1>0, <2>1, BaseStep
  <2>3. GateTypeOK'
    BY <1>5 DEF ExecuteGatePipe, GateTypeOK
  <2>. QED BY <1>0, <2>2, <2>3
<1>6. CASE RestartGate
  <2>0. <<>> \in Seq(Call)
    OBVIOUS
  <2>1. /\ LoseBatch("gate") /\ Fails
        /\ MakeCalls("gate", <<>>)
        /\ UNCHANGED <<fabricVars, resultsStream, acceptedStream, execKey>>
    BY <1>6 DEF RestartGate, LoseBatch, MakeCalls, streamVars
  <2>2. LedgerTypeOK' /\ FabricTypeOK' /\ StreamsTypeOK' /\ PositionInv'
    BY <1>0, <2>0, <2>1, BaseStep
  <2>3. GateTypeOK'
    BY <1>6 DEF RestartGate, GateTypeOK, StreamsTypeOK
  <2>. QED BY <1>0, <2>2, <2>3
<1>. QED BY <1>1, <1>2, <1>3, <1>4, <1>5, <1>6 DEF GateStep, GateHandler, GateLoop

LEMMA MergerStepType ==
    ASSUME BaseTypeOK, PositionInv, Daemon \subseteq Proc, MergerStep
    PROVE  BaseTypeOK' /\ PositionInv'
<1>. USE DEF BaseTypeOK
<1>0. /\ "merger" \in Daemon
      /\ <<>> \in Seq(Call)
      /\ pc["merger"] \in {"claim", "recheck", "patch", "record", "release"}
            => handled["merger"] < delivered["merger"]
  BY DEF Daemon, PositionInv
<1>1. CASE CheckWinner
  <2>1. /\ handled["merger"] < delivered["merger"]
        /\ FinishEntry("merger") \/ \E l \in Label : Goto("merger", l)
        /\ UNCHANGED <<ledgerVars, fabricVars, resultsStream, acceptedStream,
                       execKey, crashes, acceptedKey, gateVars, mergerVars>>
    BY <1>1 DEF CheckWinner, Handling, Label, mergerFrame, streamVars, failureVars
  <2>2. LedgerTypeOK' /\ FabricTypeOK' /\ StreamsTypeOK' /\ PositionInv'
    BY <1>0, <2>1, BaseStep
  <2>. QED BY <2>1, <2>2 DEF GateTypeOK, MergerTypeOK, gateVars, mergerVars
<1>2. CASE ClaimTree
  <2>1. /\ handled["merger"] < delivered["merger"]
        /\ \E l \in Label : Goto("merger", l)
        /\ UNCHANGED <<ledgerVars, fabricVars, resultsStream, acceptedStream,
                       execKey, crashes, gateVars, mergerVars>>
    BY <1>0, <1>2 DEF ClaimTree, Label, mergerFrame, streamVars, failureVars
  <2>2. LedgerTypeOK' /\ FabricTypeOK' /\ StreamsTypeOK' /\ PositionInv'
    BY <1>0, <2>1, BaseStep
  <2>3. acceptedKey' \in [Tree -> Cand \cup {NoCand}]
    BY <1>2, <2>1, InHand DEF ClaimTree, GateTypeOK
  <2>. QED BY <2>1, <2>2, <2>3 DEF GateTypeOK, MergerTypeOK, gateVars, mergerVars
<1>3. CASE RecheckWinner
  <2>1. /\ handled["merger"] < delivered["merger"]
        /\ FinishEntry("merger") \/ \E l \in Label : Goto("merger", l)
        /\ UNCHANGED <<ledgerVars, fabricVars, resultsStream, acceptedStream,
                       execKey, crashes, acceptedKey, gateVars, mergerVars>>
    BY <1>0, <1>3 DEF RecheckWinner, Label, mergerFrame, streamVars, failureVars
  <2>2. LedgerTypeOK' /\ FabricTypeOK' /\ StreamsTypeOK' /\ PositionInv'
    BY <1>0, <2>1, BaseStep
  <2>. QED BY <2>1, <2>2 DEF GateTypeOK, MergerTypeOK, gateVars, mergerVars
<1>4. CASE PatchApplied
  <2>1. /\ handled["merger"] < delivered["merger"]
        /\ \E l \in Label : Goto("merger", l)
        /\ UNCHANGED <<fabricVars, resultsStream, acceptedStream,
                       execKey, crashes, acceptedKey, gateVars, clean, released>>
    BY <1>0, <1>4 DEF PatchApplied, Label, mergerFrame, streamVars, failureVars
  <2>2. /\ update_candidate_status(Winner, "merged") \in Seq(Call)
        /\ update_task_status(MyTree, "merged") \in Seq(Call)
    BY <2>1, InHand, CallTypes DEF CandStatus, TaskStatus
  <2>3. \E cs \in Seq(Call) : MakeCalls("merger", cs)
    <3>1. update_candidate_status(Winner, "merged")
             \o update_task_status(MyTree, "merged") \in Seq(Call)
      BY <2>2
    <3>. QED BY <1>4, <3>1 DEF PatchApplied
  <2>4. LedgerTypeOK' /\ FabricTypeOK' /\ StreamsTypeOK' /\ PositionInv'
    BY <1>0, <2>1, <2>3, BaseStep
  <2>5. commits' \in Seq(Cand)
    BY <1>4, <2>1, InHand DEF PatchApplied, MergerTypeOK
  <2>. QED BY <2>1, <2>4, <2>5 DEF GateTypeOK, MergerTypeOK, gateVars
<1>5. CASE MergeRecorded
  <2>1. /\ handled["merger"] < delivered["merger"]
        /\ FinishEntry("merger")
        /\ UNCHANGED <<ledgerVars, fabricVars, resultsStream, acceptedStream,
                       execKey, crashes, acceptedKey, gateVars, commits, released>>
    BY <1>0, <1>5 DEF MergeRecorded, mergerFrame, streamVars, failureVars
  <2>2. LedgerTypeOK' /\ FabricTypeOK' /\ StreamsTypeOK' /\ PositionInv'
    BY <1>0, <2>1, BaseStep
  <2>3. clean' \in SUBSET Cand
    BY <1>5, <2>1, InHand DEF MergeRecorded, MergerTypeOK
  <2>. QED BY <2>1, <2>2, <2>3 DEF GateTypeOK, MergerTypeOK, gateVars
<1>6. CASE MergeRaises
  <2>1. /\ handled["merger"] < delivered["merger"]
        /\ \E l \in Label : Goto("merger", l)
        /\ MakeCalls("merger", <<>>)
        /\ Fails
        /\ UNCHANGED <<fabricVars, resultsStream, acceptedStream,
                       execKey, acceptedKey, gateVars, clean, released>>
    BY <1>0, <1>6 DEF MergeRaises, Label, streamVars
  <2>2. LedgerTypeOK' /\ FabricTypeOK' /\ StreamsTypeOK' /\ PositionInv'
    BY <1>0, <2>1, BaseStep
  <2>3. commits' \in Seq(Cand)
    BY <1>6, <2>1, InHand DEF MergeRaises, MergerTypeOK
  <2>. QED BY <2>1, <2>2, <2>3 DEF GateTypeOK, MergerTypeOK, gateVars
<1>7. CASE ReleaseTree
  <2>1. /\ handled["merger"] < delivered["merger"]
        /\ FinishEntry("merger")
        /\ UNCHANGED <<fabricVars, resultsStream, acceptedStream,
                       execKey, crashes, gateVars, commits, clean>>
    BY <1>0, <1>7 DEF ReleaseTree, mergerFrame, streamVars, failureVars
  <2>2. update_candidate_status(Winner, "merge_failed") \in Seq(Call)
    BY <2>1, InHand, CallTypes DEF CandStatus
  <2>3. \E cs \in Seq(Call) : MakeCalls("merger", cs)
    BY <1>7, <2>2 DEF ReleaseTree
  <2>4. LedgerTypeOK' /\ FabricTypeOK' /\ StreamsTypeOK' /\ PositionInv'
    BY <1>0, <2>1, <2>3, BaseStep
  <2>5. /\ acceptedKey' \in [Tree -> Cand \cup {NoCand}]
        /\ released' \in SUBSET Cand
    BY <1>7, <2>1, InHand DEF ReleaseTree, MergerTypeOK, GateTypeOK
  <2>. QED BY <2>1, <2>4, <2>5 DEF GateTypeOK, MergerTypeOK, gateVars
<1>8. CASE MergerLoop
  <2>1. LedgerTypeOK' /\ FabricTypeOK' /\ StreamsTypeOK' /\ PositionInv'
    BY <1>0, <1>8, BaseStep DEF MergerLoop, mergerFrame, streamVars, failureVars
  <2>. QED BY <1>8, <2>1
       DEF MergerLoop, mergerFrame, GateTypeOK, MergerTypeOK, gateVars, mergerVars
<1>9. CASE RestartMerger
  <2>1. /\ LoseBatch("merger") /\ Fails
        /\ MakeCalls("merger", <<>>)
        /\ UNCHANGED <<fabricVars, resultsStream, acceptedStream, execKey,
                       acceptedKey, gateVars, mergerVars>>
    BY <1>9 DEF RestartMerger, LoseBatch, MakeCalls, streamVars
  <2>2. LedgerTypeOK' /\ FabricTypeOK' /\ StreamsTypeOK' /\ PositionInv'
    BY <1>0, <2>1, BaseStep
  <2>. QED BY <2>1, <2>2 DEF GateTypeOK, MergerTypeOK, gateVars, mergerVars
<1>. QED BY <1>1, <1>2, <1>3, <1>4, <1>5, <1>6, <1>7, <1>8, <1>9
     DEF MergerStep, MergerHandler

-----------------------------------------------------------------------------
(* The reservation of a tree                                               *)

\* A tree is reserved for one of its own candidates; from its last look at
\* the key until it is done the merger's winner holds the tree; and who was
\* merged without an error holds its tree still, unless a later merge of the
\* same candidate failed.
ReservationInv ==
    /\ \A t \in Tree : acceptedKey[t] # NoCand => TreeOf[acceptedKey[t]] = t
    /\ pc["merger"] \in {"patch", "record", "release"} =>
          acceptedKey[MyTree] = Winner
    /\ \A c \in clean : acceptedKey[TreeOf[c]] = c \/ c \in released

Reserves(c) ==
    /\ acceptedKey[TreeOf[c]] = NoCand
    /\ acceptedKey' = [acceptedKey EXCEPT ![TreeOf[c]] = c]

\* All that steps of others do to what the merger works with: they append to
\* its stream and reserve trees that are free.
OutsideMerger ==
    /\ pc'["merger"] = pc["merger"]
    /\ handled'["merger"] = handled["merger"]
    /\ delivered'["merger"] = delivered["merger"]
    /\ \/ UNCHANGED acceptedStream
       \/ \E q \in Seq(Cand) : acceptedStream' = acceptedStream \o q
    /\ UNCHANGED acceptedKey \/ \E c \in Cand : Reserves(c)
    /\ UNCHANGED mergerVars

LEMMA GateIsOutside ==
    ASSUME BaseTypeOK, PositionInv, GateStep
    PROVE  OutsideMerger
<1>1. /\ pc \in [Daemon -> Label]
      /\ handled \in [Daemon -> Nat] /\ delivered \in [Daemon -> Nat]
      /\ "gate" \in Daemon /\ "merger" \in Daemon /\ "gate" # "merger"
  BY DEF BaseTypeOK, StreamsTypeOK, Daemon
<1>2. UNCHANGED acceptedKey \/ \E c \in Cand : Reserves(c)
  <2>1. CASE ReserveTree
    <3>1. GatePack.cand \in Cand
      BY <2>1, InHand DEF ReserveTree, Handling
    <3>2. CASE acceptedKey[TreeOf[GatePack.cand]] = NoCand
      BY <2>1, <3>1, <3>2 DEF ReserveTree, Reserves
    <3>3. CASE acceptedKey[TreeOf[GatePack.cand]] # NoCand
      BY <2>1, <3>3 DEF ReserveTree, BaseTypeOK, GateTypeOK
    <3>. QED BY <3>2, <3>3
  <2>. QED BY <2>1 DEF GateStep, GateHandler, GateLoop, Accept, Reject,
       ReadGateBatch, ExecuteGatePipe, RestartGate
<1>3. /\ pc'["merger"] = pc["merger"]
      /\ handled'["merger"] = handled["merger"]
      /\ delivered'["merger"] = delivered["merger"]
  BY <1>1 DEF GateStep, GateHandler, GateLoop, ReserveTree, Accept, Reject,
     ReadGateBatch, ExecuteGatePipe, RestartGate, Goto, FinishEntry, XReadGroup,
     ExecutePipe, LoseBatch
<1>4. \/ UNCHANGED acceptedStream
      \/ \E q \in Seq(Cand) : acceptedStream' = acceptedStream \o q
  BY DEF GateStep, GateHandler, GateLoop, ReserveTree, Accept, Reject,
     ReadGateBatch, ExecuteGatePipe, RestartGate, gateFrame, streamVars,
     BaseTypeOK, GateTypeOK
<1>. QED BY <1>2, <1>3, <1>4 DEF OutsideMerger, GateStep

\* The entry in the merger's hand stays the same while others move.
LEMMA WinnerStays ==
    ASSUME BaseTypeOK, PositionInv, OutsideMerger,
           handled["merger"] < delivered["merger"]
    PROVE  Winner' = Winner /\ MyTree' = MyTree
<1>1. Current("merger") \in 1..Len(acceptedStream) /\ acceptedStream \in Seq(Cand)
  BY InHand DEF BaseTypeOK, StreamsTypeOK
<1>2. Current("merger")' = Current("merger")
  BY DEF OutsideMerger, Current
<1>3. acceptedStream'[Current("merger")] = acceptedStream[Current("merger")]
  <2>1. CASE \E q \in Seq(Cand) : acceptedStream' = acceptedStream \o q
    BY <1>1, <2>1
  <2>. QED BY <2>1 DEF OutsideMerger
<1>. QED BY <1>2, <1>3 DEF Winner, MyTree

LEMMA ReservationOutside ==
    ASSUME BaseTypeOK, PositionInv, ReservationInv, OutsideMerger
    PROVE  ReservationInv'
<1>0. /\ acceptedKey \in [Tree -> Cand \cup {NoCand}]
      /\ NoCand \notin Cand
      /\ \A c \in Cand : TreeOf[c] \in Tree
      /\ clean \subseteq Cand /\ UNCHANGED <<clean, released>>
  BY PolicyGateAssumption, FabricAssumption
  DEF BaseTypeOK, GateTypeOK, MergerTypeOK, OutsideMerger, mergerVars
<1>1. \A t \in Tree : acceptedKey[t] # NoCand => acceptedKey'[t] = acceptedKey[t]
  BY <1>0 DEF OutsideMerger, Reserves
<1>2. \A t \in Tree : acceptedKey'[t] # NoCand => TreeOf[acceptedKey'[t]] = t
  BY <1>0 DEF OutsideMerger, Reserves, ReservationInv
<1>3. pc'["merger"] \in {"patch", "record", "release"} => acceptedKey'[MyTree'] = Winner'
  <2>1. SUFFICES ASSUME pc["merger"] \in {"patch", "record", "release"}
        PROVE  acceptedKey'[MyTree'] = Winner'
    BY DEF OutsideMerger
  <2>2. handled["merger"] < delivered["merger"]
    BY <2>1 DEF PositionInv, Daemon
  <2>3. Winner \in Cand /\ MyTree \in Tree /\ Winner' = Winner /\ MyTree' = MyTree
    BY <2>2, InHand, WinnerStays
  <2>. QED BY <1>0, <1>1, <2>1, <2>3 DEF ReservationInv
<1>4. \A c \in clean : acceptedKey'[TreeOf[c]] = c \/ c \in released
  BY <1>0, <1>1 DEF ReservationInv
<1>. QED BY <1>0, <1>2, <1>3, <1>4 DEF ReservationInv

LEMMA ReservationMerger ==
    ASSUME BaseTypeOK, PositionInv, ReservationInv, MergerStep
    PROVE  ReservationInv'
<1>0. /\ acceptedKey \in [Tree -> Cand \cup {NoCand}]
      /\ NoCand \notin Cand
      /\ \A c \in Cand : TreeOf[c] \in Tree
      /\ clean \subseteq Cand
      /\ pc \in [Daemon -> Label] /\ "merger" \in Daemon
  BY PolicyGateAssumption, FabricAssumption
  DEF BaseTypeOK, GateTypeOK, MergerTypeOK, StreamsTypeOK, Daemon
<1>1. UNCHANGED acceptedStream
  BY DEF MergerStep, MergerHandler, CheckWinner, ClaimTree, RecheckWinner,
     PatchApplied, MergeRecorded, MergeRaises, ReleaseTree, MergerLoop,
     RestartMerger, mergerFrame, streamVars
<1>2. ASSUME NEW l, Goto("merger", l)
      PROVE  Winner' = Winner /\ MyTree' = MyTree /\ pc'["merger"] = l
  BY <1>0, <1>1, <1>2 DEF Goto, Winner, MyTree, Current
<1>3. pc["merger"] \in {"claim", "recheck", "patch", "record", "release"}
         => Winner \in Cand /\ MyTree \in Tree
  BY InHand DEF PositionInv, Daemon
<1>4. FinishEntry("merger") => pc'["merger"] = "next"
  BY <1>0 DEF FinishEntry
<1>5. CASE CheckWinner \/ RecheckWinner
  BY <1>2, <1>4, <1>5
  DEF CheckWinner, RecheckWinner, ReservationInv, mergerVars
<1>6. CASE ClaimTree
  <2>1. Winner \in Cand /\ MyTree \in Tree /\ TreeOf[Winner] = MyTree
    BY <1>3, <1>6 DEF ClaimTree, MyTree
  <2>2. CASE acceptedKey[MyTree] = NoCand
    <3>1. /\ acceptedKey' = [acceptedKey EXCEPT ![MyTree] = Winner]
          /\ Goto("merger", "patch")
      BY <1>6, <2>2 DEF ClaimTree
    <3>2. \A t \in Tree : acceptedKey'[t] = IF t = MyTree THEN Winner ELSE acceptedKey[t]
      BY <1>0, <3>1
    <3>3. UNCHANGED <<clean, released>>
      BY <1>6 DEF ClaimTree, mergerVars
    <3>4. \A c \in clean : acceptedKey[TreeOf[c]] = c => TreeOf[c] # MyTree
      BY <1>0, <2>2
    <3>. QED BY <1>0, <1>2, <2>1, <3>1, <3>2, <3>3, <3>4 DEF ReservationInv
  <2>3. CASE acceptedKey[MyTree] # NoCand
    BY <1>2, <1>6, <2>3 DEF ClaimTree, ReservationInv, mergerVars
  <2>. QED BY <2>2, <2>3
<1>7. CASE PatchApplied \/ MergeRaises
  <2>1. UNCHANGED <<acceptedKey, clean, released>>
    BY <1>7 DEF PatchApplied, MergeRaises
  <2>2. /\ pc["merger"] \in {"patch", "record"}
        /\ Goto("merger", "record") \/ Goto("merger", "release")
    BY <1>7 DEF PatchApplied, MergeRaises
  <2>. QED BY <1>2, <2>1, <2>2 DEF ReservationInv
<1>8. CASE MergeRecorded
  <2>1. /\ pc["merger"] = "record"
        /\ clean' = clean \cup {Winner}
        /\ UNCHANGED <<acceptedKey, released>>
        /\ FinishEntry("merger")
    BY <1>8 DEF MergeRecorded
  <2>. QED BY <1>4, <2>1 DEF ReservationInv, MyTree
<1>9. CASE ReleaseTree
  <2>1. /\ pc["merger"] = "release"
        /\ acceptedKey' = [acceptedKey EXCEPT ![MyTree] = NoCand]
        /\ released' = released \cup {Winner}
        /\ UNCHANGED clean
        /\ FinishEntry("merger")
    BY <1>9 DEF ReleaseTree
  <2>2. acceptedKey[MyTree] = Winner
    BY <2>1 DEF ReservationInv
  <2>3. \A t \in Tree : acceptedKey'[t] = IF t = MyTree THEN NoCand ELSE acceptedKey[t]
    BY <1>0, <2>1
  <2>. QED BY <1>0, <1>4, <2>1, <2>2, <2>3 DEF ReservationInv
<1>10. CASE MergerLoop \/ RestartMerger
  <2>1. pc'["merger"] \in {"read", "next"}
    BY <1>0, <1>10
    DEF MergerLoop, RestartMerger, XReadGroup, ExecutePipe, LoseBatch
  <2>2. UNCHANGED <<acceptedKey, clean, released>>
    BY <1>10 DEF MergerLoop, RestartMerger, mergerVars
  <2>. QED BY <2>1, <2>2 DEF ReservationInv
<1>. QED BY <1>5, <1>6, <1>7, <1>8, <1>9, <1>10 DEF MergerStep, MergerHandler

-----------------------------------------------------------------------------
(* Where what is merged comes from                                         *)

\* Steps of neither: they may add a result.
OutsideBoth ==
    /\ UNCHANGED <<acceptedStream, acceptedKey, gateVars, mergerVars>>
    /\ \A d \in {"gate", "merger"} : /\ pc'[d] = pc[d]
                                     /\ handled'[d] = handled[d]
                                     /\ delivered'[d] = delivered[d]
    /\ \/ UNCHANGED resultsStream
       \/ \E p \in Pack : resultsStream' = Append(resultsStream, p)
    /\ crashes' = 0 => crashes = 0

LEMMA NeitherIsOutside == OutsideBoth => OutsideMerger
BY DEF OutsideBoth, OutsideMerger

Verified(c) ==
    /\ c \in PolicyOK
    /\ \E p \in Entry(resultsStream) : Vouches(p, c)

\* Wherever a candidate is on its way from the gate's decision to a commit,
\* the policy accepts it and a result vouches for it.
ProvenanceInv ==
    /\ \A c \in Entry(acceptedStream) \cup Entry(gatePipe) \cup Entry(commits) :
          Verified(c)
    /\ pc["gate"] = "winner" => Verified(GatePack.cand)

\* Results stay, and so does the record of the keys that were trusted.
LEMMA VerifiedStays ==
    ASSUME Entry(resultsStream) \subseteq Entry(resultsStream'),
           trustLog \subseteq trustLog', NEW c, Verified(c)
    PROVE  Verified(c)'
BY DEF Verified, Vouches

LEMMA GatePackStays ==
    ASSUME BaseTypeOK, PositionInv, handled["gate"] < delivered["gate"],
           handled'["gate"] = handled["gate"],
           \/ UNCHANGED resultsStream
           \/ \E p \in Pack : resultsStream' = Append(resultsStream, p)
    PROVE  GatePack' = GatePack
<1>1. Current("gate") \in 1..Len(resultsStream) /\ resultsStream \in Seq(Pack)
  BY InHand DEF BaseTypeOK, StreamsTypeOK
<1>2. Current("gate")' = Current("gate")
  BY DEF Current
<1>3. resultsStream'[Current("gate")] = resultsStream[Current("gate")]
  BY <1>1
<1>. QED BY <1>2, <1>3 DEF GatePack

LEMMA ProvenanceStep ==
    ASSUME BaseTypeOK, PositionInv, ProvenanceInv,
           GateStep \/ MergerStep \/ OutsideBoth
    PROVE  ProvenanceInv'
<1>0. /\ acceptedStream \in Seq(Cand) /\ gatePipe \in Seq(Cand)
      /\ commits \in Seq(Cand) /\ resultsStream \in Seq(Pack)
      /\ trustedKey \in trustLog
      /\ pc \in [Daemon -> Label] /\ "gate" \in Daemon /\ "merger" \in Daemon
      /\ pc["gate"] = "winner" => handled["gate"] < delivered["gate"]
  BY DEF BaseTypeOK, StreamsTypeOK, GateTypeOK, MergerTypeOK, PositionInv, Daemon
<1>1. CASE OutsideBoth
  <2>1. Entry(resultsStream) \subseteq Entry(resultsStream')
    BY <1>0, <1>1, EntryAppend DEF OutsideBoth
  <2>2. \A c : Verified(c) => Verified(c)'
    BY <1>1, <2>1, VerifiedStays DEF OutsideBoth, gateVars
  <2>3. pc["gate"] = "winner" => GatePack' = GatePack
    BY <1>0, <1>1, GatePackStays DEF OutsideBoth
  <2>. QED BY <1>1, <2>2, <2>3 DEF ProvenanceInv, OutsideBoth, gateVars, mergerVars
<1>2. CASE MergerStep
  <2>1. /\ UNCHANGED <<resultsStream, acceptedStream, gatePipe, trustLog>>
        /\ pc'["gate"] = pc["gate"] /\ (pc["gate"] = "winner" => GatePack' = GatePack)
    BY <1>0, <1>2
    DEF MergerStep, MergerHandler, CheckWinner, ClaimTree, RecheckWinner,
        PatchApplied, MergeRecorded, MergeRaises, ReleaseTree, MergerLoop,
        RestartMerger, mergerFrame, streamVars, gateVars, Goto, FinishEntry,
        XReadGroup, ExecutePipe, LoseBatch, GatePack, Current,
        BaseTypeOK, StreamsTypeOK
  <2>2. \A c : Verified(c)' <=> Verified(c)
    BY <2>1 DEF Verified, Vouches
  <2>3. \A c \in Entry(commits') : Verified(c)
    <3>1. CASE UNCHANGED commits
      BY <3>1 DEF ProvenanceInv
    <3>2. CASE pc["merger"] = "patch" /\ commits' = Append(commits, Winner)
      <4>1. Winner \in Entry(acceptedStream)
        BY <3>2, InHand DEF PositionInv, Daemon
      <4>. QED BY <1>0, <3>2, <4>1, EntryAppend DEF ProvenanceInv
    <3>. QED BY <1>2, <3>1, <3>2
         DEF MergerStep, MergerHandler, CheckWinner, ClaimTree, RecheckWinner,
             PatchApplied, MergeRecorded, MergeRaises, ReleaseTree, MergerLoop,
             RestartMerger, mergerVars
  <2>. QED BY <2>1, <2>2, <2>3 DEF ProvenanceInv
<1>3. CASE GateStep
  <2>1. /\ UNCHANGED <<resultsStream, commits>>
        /\ trustLog \subseteq trustLog'
    BY <1>3 DEF GateStep, GateHandler, GateLoop, ReserveTree, Accept, Reject,
       ReadGateBatch, ExecuteGatePipe, RestartGate, gateFrame, gateVars,
       streamVars, mergerVars
  <2>2. \A c : Verified(c) => Verified(c)'
    BY <2>1, VerifiedStays
  <2>3. CASE ReserveTree
    <3>1. Verified(GatePack.cand)
      <4>1. GatePack \in Entry(resultsStream)
        BY <2>3, InHand DEF ReserveTree, Handling
      <4>2. GatePack.cand \in PolicyOK /\ Vouches(GatePack, GatePack.cand)
        BY <1>0, <2>3 DEF ReserveTree, Acceptable, verify_pack,
           inputs_digest_matches, enforce_semantic_policy, Vouches
      <4>. QED BY <4>1, <4>2 DEF Verified
    <3>2. GatePack' = GatePack
      BY <2>1, <2>3 DEF ReserveTree, Goto, GatePack, Current
    <3>. QED BY <2>1, <2>2, <2>3, <3>1, <3>2
         DEF ReserveTree, ProvenanceInv, gateFrame, streamVars
  <2>4. CASE Accept
    <3>1. Entry(gatePipe') = Entry(gatePipe) \cup {GatePack.cand}
      BY <1>0, <2>4, EntryAppend DEF Accept
    <3>2. pc'["gate"] = "next"
      BY <1>0, <2>4 DEF Accept, FinishEntry
    <3>. QED BY <2>1, <2>2, <2>4, <3>1, <3>2
         DEF Accept, ProvenanceInv, gateFrame, streamVars
  <2>5. CASE Reject
    <3>1. pc'["gate"] = "next"
      BY <1>0, <2>5 DEF Reject, FinishEntry
    <3>. QED BY <2>1, <2>2, <2>5, <3>1
         DEF Reject, ProvenanceInv, gateFrame, streamVars
  <2>6. CASE ExecuteGatePipe
    <3>1. Entry(acceptedStream') = Entry(acceptedStream) \cup Entry(gatePipe)
      BY <1>0, <2>6, EntryConcat DEF ExecuteGatePipe
    <3>2. pc'["gate"] = "read" /\ Entry(gatePipe') = {}
      BY <1>0, <2>6, EntryOne DEF ExecuteGatePipe, ExecutePipe
    <3>. QED BY <2>1, <2>2, <3>1, <3>2 DEF ProvenanceInv
  <2>7. CASE ReadGateBatch
    <3>1. pc'["gate"] = "next"
      BY <1>0, <2>7 DEF ReadGateBatch, XReadGroup
    <3>. QED BY <2>1, <2>2, <2>7, <3>1
         DEF ReadGateBatch, ProvenanceInv, gateFrame, gateVars, streamVars
  <2>8. CASE RestartGate
    <3>1. pc'["gate"] = "read" /\ Entry(gatePipe') = {} /\ UNCHANGED acceptedStream
      BY <1>0, <2>8, EntryOne DEF RestartGate, LoseBatch, streamVars
    <3>. QED BY <2>1, <2>2, <3>1 DEF ProvenanceInv
  <2>. QED BY <1>3, <2>3, <2>4, <2>5, <2>6, <2>7, <2>8
       DEF GateStep, GateHandler, GateLoop
<1>. QED BY <1>1, <1>2, <1>3

-----------------------------------------------------------------------------
(* Reservations that somebody will act on                                  *)

OrphanInv ==
    /\ NoOrphanReservation
    /\ crashes = 0 => pc["merger"] # "release"

LEMMA OrphanStep ==
    ASSUME BaseTypeOK, PositionInv, ReservationInv, OrphanInv,
           GateStep \/ MergerStep \/ OutsideBoth
    PROVE  OrphanInv'
<1>0. /\ acceptedStream \in Seq(Cand) /\ gatePipe \in Seq(Cand)
      /\ resultsStream \in Seq(Pack) /\ crashes \in Nat
      /\ acceptedKey \in [Tree -> Cand \cup {NoCand}] /\ NoCand \notin Cand
      /\ handled \in [Daemon -> Nat] /\ delivered \in [Daemon -> Nat]
      /\ pc \in [Daemon -> Label] /\ "gate" \in Daemon /\ "merger" \in Daemon
      /\ pc["gate"] = "winner" => handled["gate"] < delivered["gate"]
      /\ handled["merger"] <= Len(acceptedStream)
  <2>1. /\ acceptedStream \in Seq(Cand) /\ gatePipe \in Seq(Cand)
        /\ resultsStream \in Seq(Pack)
        /\ acceptedKey \in [Tree -> Cand \cup {NoCand}] /\ NoCand \notin Cand
        /\ handled \in [Daemon -> Nat] /\ delivered \in [Daemon -> Nat]
        /\ pc \in [Daemon -> Label] /\ "gate" \in Daemon /\ "merger" \in Daemon
    BY PolicyGateAssumption DEF BaseTypeOK, StreamsTypeOK, GateTypeOK, Daemon
  <2>2. crashes \in Nat
    BY StreamsAssumption DEF BaseTypeOK, StreamsTypeOK
  <2>3. pc["gate"] = "winner" => handled["gate"] < delivered["gate"]
    BY <2>1 DEF PositionInv
  <2>4. handled["merger"] <= delivered["merger"] /\ delivered["merger"] <= Len(acceptedStream)
    BY <2>1 DEF PositionInv, Entries
  <2>5. Len(acceptedStream) \in Nat
    BY <2>1
  <2>. QED BY <2>1, <2>2, <2>3, <2>4, <2>5
<1>. SUFFICES ASSUME crashes' = 0
     PROVE  /\ pc'["merger"] # "release"
            /\ \A c : \A t \in Tree : acceptedKey'[t] = c /\ c # NoCand =>
                  c \in clean' \/ AcceptanceInFlight(c)'
  BY DEF OrphanInv, NoOrphanReservation, AcceptanceInFlight
<1>1. crashes = 0 /\ ~Fails
  BY <1>0 DEF GateStep, GateHandler, GateLoop, ReserveTree, Accept, Reject,
     ReadGateBatch, ExecuteGatePipe, RestartGate, gateFrame, LoseBatch, Fails,
     MergerStep, MergerHandler, CheckWinner, ClaimTree, RecheckWinner,
     PatchApplied, MergeRecorded, MergeRaises, ReleaseTree, MergerLoop,
     RestartMerger, mergerFrame, failureVars, OutsideBoth
<1>2. /\ pc["merger"] # "release"
      /\ \A c : \A t \in Tree : acceptedKey[t] = c /\ c # NoCand =>
            c \in clean \/ AcceptanceInFlight(c)
  BY <1>1 DEF OrphanInv, NoOrphanReservation
<1>3. CASE OutsideBoth
  <2>1. pc["gate"] = "winner" => GatePack' = GatePack
    BY <1>0, <1>3, GatePackStays DEF OutsideBoth
  <2>2. \A c : AcceptanceInFlight(c) => AcceptanceInFlight(c)'
    BY <1>3, <2>1 DEF AcceptanceInFlight, OutsideBoth, gateVars
  <2>. QED BY <1>2, <1>3, <2>2 DEF OutsideBoth, mergerVars
<1>4. CASE GateStep
  <2>1. OutsideMerger /\ UNCHANGED <<clean, resultsStream>>
    BY <1>4, GateIsOutside DEF GateStep, GateHandler, GateLoop, ReserveTree,
       Accept, Reject, ReadGateBatch, ExecuteGatePipe, RestartGate, gateFrame,
       streamVars, mergerVars
  <2>2. pc'["merger"] # "release" /\ handled'["merger"] = handled["merger"]
    BY <1>2, <2>1 DEF OutsideMerger
  <2>3. CASE ReserveTree
    <3>1. /\ GatePack' = GatePack /\ pc'["gate"] = "winner"
          /\ UNCHANGED <<gatePipe, acceptedStream>>
          /\ pc["gate"] = "next"
      BY <1>0, <2>1, <2>3 DEF ReserveTree, Handling, Goto, GatePack, Current,
         gateFrame, streamVars
    <3>2. \A c : AcceptanceInFlight(c) => AcceptanceInFlight(c)'
      BY <2>2, <3>1 DEF AcceptanceInFlight
    <3>3. \A c : c = GatePack.cand => AcceptanceInFlight(c)'
      BY <3>1 DEF AcceptanceInFlight
    <3>4. \A t \in Tree : acceptedKey'[t] = acceptedKey[t] \/ acceptedKey'[t] = GatePack.cand
      BY <1>0, <2>3 DEF ReserveTree
    <3>. QED BY <1>2, <2>1, <2>2, <3>2, <3>3, <3>4
  <2>4. CASE Accept
    <3>1. /\ Entry(gatePipe') = Entry(gatePipe) \cup {GatePack.cand}
          /\ UNCHANGED <<acceptedKey, acceptedStream>>
      BY <1>0, <2>4, EntryAppend DEF Accept, gateFrame, streamVars
    <3>2. \A c : AcceptanceInFlight(c) => AcceptanceInFlight(c)'
      BY <2>2, <3>1 DEF AcceptanceInFlight
    <3>. QED BY <1>2, <2>1, <2>2, <3>1, <3>2
  <2>5. CASE Reject
    <3>1. UNCHANGED <<acceptedKey, gatePipe, acceptedStream>>
      BY <2>5 DEF Reject, gateFrame, streamVars
    <3>2. ASSUME NEW t \in Tree, acceptedKey[t] # NoCand
          PROVE  ~(pc["gate"] = "winner" /\ GatePack.cand = acceptedKey[t])
      <4>1. TreeOf[acceptedKey[t]] = t
        BY <3>2 DEF ReservationInv
      <4>. QED BY <2>5, <4>1 DEF Reject, Handling
    <3>3. \A c : \A t \in Tree : acceptedKey[t] = c /\ c # NoCand /\ AcceptanceInFlight(c)
                               => AcceptanceInFlight(c)'
      BY <2>2, <3>1, <3>2 DEF AcceptanceInFlight
    <3>. QED BY <1>2, <2>1, <2>2, <3>1, <3>3
  <2>6. CASE ExecuteGatePipe
    <3>1. /\ acceptedStream' = acceptedStream \o gatePipe
          /\ UNCHANGED acceptedKey
          /\ pc["gate"] = "next"
      BY <2>6 DEF ExecuteGatePipe, ExecutePipe
    <3>2. ASSUME NEW i \in DOMAIN acceptedStream
          PROVE  i \in DOMAIN acceptedStream' /\ acceptedStream'[i] = acceptedStream[i]
      BY <1>0, <3>1
    <3>3. ASSUME NEW i \in DOMAIN gatePipe
          PROVE  /\ i + Len(acceptedStream) \in DOMAIN acceptedStream'
                 /\ acceptedStream'[i + Len(acceptedStream)] = gatePipe[i]
                 /\ i + Len(acceptedStream) > handled["merger"]
      BY <1>0, <3>1
    <3>4. \A c : AcceptanceInFlight(c) => AcceptanceInFlight(c)'
      BY <2>2, <3>1, <3>2, <3>3 DEF AcceptanceInFlight, Entry
    <3>. QED BY <1>2, <2>1, <2>2, <3>1, <3>4
  <2>7. CASE ReadGateBatch
    <3>1. /\ UNCHANGED <<acceptedKey, gatePipe, acceptedStream>>
          /\ pc["gate"] # "winner"
      BY <2>7 DEF ReadGateBatch, XReadGroup, gateVars, gateFrame, streamVars
    <3>2. \A c : AcceptanceInFlight(c) => AcceptanceInFlight(c)'
      BY <2>2, <3>1 DEF AcceptanceInFlight
    <3>. QED BY <1>2, <2>1, <2>2, <3>1, <3>2
  <2>8. ~RestartGate
    BY <1>1 DEF RestartGate, LoseBatch
  <2>. QED BY <1>4, <2>3, <2>4, <2>5, <2>6, <2>7, <2>8
       DEF GateStep, GateHandler, GateLoop
<1>5. CASE MergerStep
  <2>1. /\ UNCHANGED <<resultsStream, acceptedStream, gatePipe>>
        /\ pc'["gate"] = pc["gate"] /\ GatePack' = GatePack
    BY <1>0, <1>5
    DEF MergerStep, MergerHandler, CheckWinner, ClaimTree, RecheckWinner,
        PatchApplied, MergeRecorded, MergeRaises, ReleaseTree, MergerLoop,
        RestartMerger, mergerFrame, streamVars, gateVars, Goto, FinishEntry,
        XReadGroup, ExecutePipe, LoseBatch, GatePack, Current
  <2>2. ASSUME handled'["merger"] = handled["merger"], NEW c, AcceptanceInFlight(c)
        PROVE  AcceptanceInFlight(c)'
    BY <2>1, <2>2 DEF AcceptanceInFlight
  <2>3. ASSUME FinishEntry("merger"), NEW c, c # Winner, AcceptanceInFlight(c)
        PROVE  AcceptanceInFlight(c)'
    <3>1. handled'["merger"] = handled["merger"] + 1
      BY <1>0, <2>3 DEF FinishEntry
    <3>2. \A i \in DOMAIN acceptedStream :
             i > handled["merger"] /\ acceptedStream[i] = c => i > handled["merger"] + 1
      BY <1>0, <2>3 DEF Winner, Current
    <3>. QED BY <2>1, <2>3, <3>1, <3>2 DEF AcceptanceInFlight
  <2>4. ASSUME NEW t \in Tree, acceptedKey[t] # NoCand
        PROVE  TreeOf[acceptedKey[t]] = t
    BY <2>4 DEF ReservationInv
  <2>5. CASE CheckWinner \/ RecheckWinner
    <3>1. UNCHANGED <<acceptedKey, clean>>
      BY <2>5 DEF CheckWinner, RecheckWinner, mergerVars
    <3>2. CASE FinishEntry("merger")
      <4>1. acceptedKey[MyTree] # Winner \/ pc'["merger"] # "next"
        BY <1>0, <2>5 DEF CheckWinner, RecheckWinner, Goto
      <4>2. pc'["merger"] = "next"
        BY <1>0, <3>2 DEF FinishEntry
      <4>3. \A t \in Tree : acceptedKey[t] # NoCand => acceptedKey[t] # Winner
        BY <2>4, <4>1, <4>2 DEF MyTree
      <4>. QED BY <1>2, <2>3, <3>1, <3>2, <4>2, <4>3
    <3>3. CASE \E l \in {"patch", "claim"} : Goto("merger", l)
      <4>1. handled'["merger"] = handled["merger"] /\ pc'["merger"] # "release"
        BY <1>0, <3>3 DEF Goto
      <4>. QED BY <1>2, <2>2, <3>1, <4>1
    <3>. QED BY <2>5, <3>2, <3>3 DEF CheckWinner, RecheckWinner
  <2>6. CASE ClaimTree
    <3>0. Winner \in Cand /\ Current("merger") \in 1..Len(acceptedStream)
      BY <2>6, InHand DEF ClaimTree, PositionInv, Daemon
    <3>1. /\ handled'["merger"] = handled["merger"] /\ pc'["merger"] # "release"
          /\ UNCHANGED clean
      BY <1>0, <2>6 DEF ClaimTree, Goto, mergerVars
    <3>2. \A t \in Tree : acceptedKey'[t] = acceptedKey[t] \/ acceptedKey'[t] = Winner
      BY <1>0, <2>6 DEF ClaimTree
    <3>3. AcceptanceInFlight(Winner)
      <4>1. Current("merger") > handled["merger"]
        BY <1>0 DEF Current
      <4>2. Current("merger") \in DOMAIN acceptedStream
        BY <1>0, <3>0
      <4>. QED BY <4>1, <4>2 DEF AcceptanceInFlight, Winner
    <3>. QED BY <1>2, <2>2, <3>1, <3>2, <3>3
  <2>7. CASE PatchApplied
    <3>1. /\ handled'["merger"] = handled["merger"] /\ pc'["merger"] # "release"
          /\ UNCHANGED <<acceptedKey, clean>>
      BY <1>0, <2>7 DEF PatchApplied, Goto
    <3>. QED BY <1>2, <2>2, <3>1
  <2>8. CASE MergeRecorded
    <3>1. /\ FinishEntry("merger") /\ clean' = clean \cup {Winner}
          /\ UNCHANGED acceptedKey
      BY <2>8 DEF MergeRecorded
    <3>2. pc'["merger"] # "release"
      BY <1>0, <3>1 DEF FinishEntry
    <3>. QED BY <1>2, <2>3, <3>1, <3>2
  <2>9. CASE MergerLoop
    <3>1. /\ handled'["merger"] = handled["merger"] /\ pc'["merger"] # "release"
          /\ UNCHANGED <<acceptedKey, clean>>
      BY <1>0, <2>9 DEF MergerLoop, XReadGroup, ExecutePipe, mergerVars
    <3>. QED BY <1>2, <2>2, <3>1
  <2>10. ~MergeRaises /\ ~RestartMerger /\ ~ReleaseTree
    BY <1>1, <1>2 DEF MergeRaises, RestartMerger, LoseBatch, ReleaseTree
  <2>. QED BY <1>5, <2>5, <2>6, <2>7, <2>8, <2>9, <2>10
       DEF MergerStep, MergerHandler
<1>. QED BY <1>3, <1>4, <1>5

-----------------------------------------------------------------------------
(* What the ledger says of merges                                          *)

\* A ledger call under way that will say "merged" has its commit.
Backed(call) ==
    call.status = "merged" =>
        /\ call.table = "candidates" => call.id \in Entry(commits)
        /\ call.table = "tasks" => \E c \in Entry(commits) : TreeOf[c] = call.id

LedgerInv ==
    /\ \A p \in Proc : \A call \in Entry(calls[p]) : Backed(call)
    /\ LedgerMergedIsCommitted

LEMMA MadeEntry ==
    ASSUME NEW call \in Call
    PROVE  Entry(Made(call)) \subseteq {call}
BY EntryOne DEF Made

\* Entries of the calls, whether their table is observed or not.
LEMMA CallEntries ==
    /\ \A c \in Cand, s \in CandStatus :
          /\ \A x \in Entry(update_candidate_status(c, s)) :
                x.table = "candidates" /\ x.id = c /\ x.status = s
          /\ \A x \in Entry(record_candidate(c, s)) :
                x.table = "candidates" /\ x.id = c /\ x.status = s
    /\ \A t \in Tree, s \in TaskStatus :
          \A x \in Entry(update_task_status(t, s)) :
             x.table = "tasks" /\ x.id = t /\ x.status = s
<1>1. ASSUME NEW c \in Cand, NEW s \in CandStatus
      PROVE  /\ \A x \in Entry(update_candidate_status(c, s)) :
                   x.table = "candidates" /\ x.id = c /\ x.status = s
             /\ \A x \in Entry(record_candidate(c, s)) :
                   x.table = "candidates" /\ x.id = c /\ x.status = s
  <2>1. \A ph \in {"select", "upsert"} :
           [table |-> "candidates", id |-> c, status |-> s, phase |-> ph] \in Call
    BY DEF Call, CandCall
  <2>2. \A x \in Entry(update_candidate_status(c, s)) :
           x = [table |-> "candidates", id |-> c, status |-> s, phase |-> "select"]
    BY <2>1, MadeEntry DEF update_candidate_status
  <2>3. \A x \in Entry(record_candidate(c, s)) :
           x = [table |-> "candidates", id |-> c, status |-> s, phase |-> "upsert"]
    BY <2>1, MadeEntry DEF record_candidate
  <2>. QED BY <2>2, <2>3
<1>2. ASSUME NEW t \in Tree, NEW s \in TaskStatus
      PROVE  \A x \in Entry(update_task_status(t, s)) :
                x.table = "tasks" /\ x.id = t /\ x.status = s
  <2>1. [table |-> "tasks", id |-> t, status |-> s, phase |-> "select"] \in Call
    BY DEF Call, TaskCall
  <2>2. \A x \in Entry(update_task_status(t, s)) :
           x = [table |-> "tasks", id |-> t, status |-> s, phase |-> "select"]
    BY <2>1, MadeEntry DEF update_task_status
  <2>. QED BY <2>2
<1>. QED BY <1>1, <1>2

\* Commits are never taken back, and no other step than a ledger's own
\* touches the status columns.
LEMMA LedgerInvKept ==
    ASSUME LedgerTypeOK, LedgerInv, Entry(commits) \subseteq Entry(commits'),
           \/ UNCHANGED ledgerVars
           \/ \E p \in Proc, cs \in Seq(Call) :
                 MakeCalls(p, cs) /\ \A x \in Entry(cs) : Backed(x)'
    PROVE  LedgerInv'
<1>1. \A x : Backed(x) => Backed(x)'
  BY DEF Backed
<1>2. UNCHANGED <<taskStatus, candStatus>>
  BY DEF ledgerVars, MakeCalls, statusVars
<1>3. LedgerMergedIsCommitted'
  BY <1>2 DEF LedgerInv, LedgerMergedIsCommitted
<1>4. CASE UNCHANGED ledgerVars
  BY <1>1, <1>3, <1>4 DEF ledgerVars, LedgerInv
<1>5. ASSUME NEW p \in Proc, NEW cs \in Seq(Call), MakeCalls(p, cs),
             \A x \in Entry(cs) : Backed(x)'
      PROVE  LedgerInv'
  <2>1. \A q \in Proc : calls'[q] = IF q = p THEN cs ELSE calls[q]
    BY <1>5 DEF MakeCalls, LedgerTypeOK
  <2>. QED BY <1>1, <1>3, <1>5, <2>1 DEF LedgerInv
<1>. QED BY <1>4, <1>5

LEMMA LedgerInvStep ==
    ASSUME LedgerTypeOK, LedgerInv, NEW p \in Proc, LedgerStep(p),
           UNCHANGED commits
    PROVE  LedgerInv'
<1>. DEFINE call == Head(calls[p])
<1>0. /\ calls[p] \in Seq(Call)
      /\ calls[p] # <<>>
      /\ call \in Call
      /\ call \in Entry(calls[p])
      /\ Tail(calls[p]) \in Seq(Call)
      /\ Entry(Tail(calls[p])) \subseteq Entry(calls[p])
      /\ calls \in [Proc -> Seq(Call)]
  BY EntryTail DEF LedgerTypeOK, LedgerStep, FetchStatus, WriteStatus
<1>1. \A x : Backed(x)' <=> Backed(x)
  BY DEF Backed
<1>2. Backed(call)
  BY <1>0 DEF LedgerInv
<1>3. CASE FetchStatus(p)
  <2>1. LedgerMergedIsCommitted'
    BY <1>3 DEF FetchStatus, statusVars, LedgerInv, LedgerMergedIsCommitted
  <2>. DEFINE checked == [call EXCEPT !.phase = "update"]
  <2>2. checked \in Call
    <3>1. call.phase = "select"
      BY <1>3 DEF FetchStatus
    <3>. QED BY <1>0, <3>1 DEF Call, TaskCall, CandCall, ExecCall
  <2>3. Backed(checked)
    BY <1>0, <1>2 DEF Backed, Call, TaskCall, CandCall, ExecCall
  <2>4. Entry(<<checked>> \o Tail(calls[p])) = {checked} \cup Entry(Tail(calls[p]))
    <3>. HIDE DEF checked
    <3>. QED BY <1>0, <2>2, EntryCons
  <2>5. \A x \in Entry(calls'[p]) : Backed(x)
    <3>1. calls'[p] = <<checked>> \o Tail(calls[p]) \/ calls'[p] = Tail(calls[p])
      BY <1>0, <1>3 DEF FetchStatus
    <3>. HIDE DEF checked
    <3>. QED BY <1>0, <2>3, <2>4, <3>1 DEF LedgerInv
  <2>6. \A q \in Proc \ {p} : calls'[q] = calls[q]
    BY <1>0, <1>3 DEF FetchStatus
  <2>. QED BY <1>1, <2>1, <2>5, <2>6 DEF LedgerInv
<1>4. CASE WriteStatus(p)
  <2>1. \A q \in Proc : Entry(calls'[q]) \subseteq Entry(calls[q])
    BY <1>0, <1>4 DEF WriteStatus
  <2>2. LedgerMergedIsCommitted'
    <3>1. CASE call.table = "tasks" /\ taskStatus' = Written(taskStatus, call)
               /\ UNCHANGED candStatus
      <4>1. call.id \in Tree /\ taskStatus \in [Tree -> TaskStatus]
        BY <1>0, <3>1 DEF Call, TaskCall, CandCall, ExecCall, LedgerTypeOK
      <4>2. \A t \in Tree : \/ taskStatus'[t] = taskStatus[t]
                            \/ t = call.id /\ taskStatus'[t] = call.status
        BY <3>1, <4>1 DEF Written
      <4>. QED BY <1>2, <3>1, <4>2 DEF LedgerInv, LedgerMergedIsCommitted, Backed
    <3>2. CASE call.table = "candidates" /\ candStatus' = Written(candStatus, call)
               /\ UNCHANGED taskStatus
      <4>1. call.id \in Cand /\ candStatus \in [Cand -> CandStatus]
        BY <1>0, <3>2 DEF Call, TaskCall, CandCall, ExecCall, LedgerTypeOK
      <4>2. \A c \in Cand : \/ candStatus'[c] = candStatus[c]
                            \/ c = call.id /\ candStatus'[c] = call.status
        BY <3>2, <4>1 DEF Written
      <4>. QED BY <1>2, <3>2, <4>2 DEF LedgerInv, LedgerMergedIsCommitted, Backed
    <3>3. CASE UNCHANGED <<taskStatus, candStatus>>
      BY <3>3 DEF LedgerInv, LedgerMergedIsCommitted
    <3>. QED BY <1>4, <3>1, <3>2, <3>3 DEF WriteStatus
  <2>. QED BY <1>1, <2>1, <2>2 DEF LedgerInv
<1>. QED BY <1>3, <1>4 DEF LedgerStep

\* The calls of gate and merger: "merged" only behind a commit.
LEMMA LedgerInvDaemons ==
    ASSUME BaseTypeOK, PositionInv, LedgerInv, Daemon \subseteq Proc,
           GateStep \/ MergerStep
    PROVE  LedgerInv'
<1>0. /\ "gate" \in Proc /\ "merger" \in Proc
      /\ commits \in Seq(Cand) /\ LedgerTypeOK
      /\ <<>> \in Seq(Call) /\ Entry(<<>>) = {}
      /\ pc["gate"] = "winner" => handled["gate"] < delivered["gate"]
      /\ pc["merger"] \in {"claim", "recheck", "patch", "record", "release"}
            => handled["merger"] < delivered["merger"]
  BY EntryOne DEF Daemon, BaseTypeOK, MergerTypeOK, PositionInv
<1>1. CASE UNCHANGED <<ledgerVars, commits>>
  BY <1>0, <1>1, LedgerInvKept
<1>2. CASE Accept /\ UNCHANGED mergerVars
  <2>1. GatePack.cand \in Cand
    BY <1>0, <1>2, InHand DEF Accept
  <2>2. update_candidate_status(GatePack.cand, "accepted") \in Seq(Call)
    BY <2>1, CallTypes DEF CandStatus
  <2>3. \A x \in Entry(update_candidate_status(GatePack.cand, "accepted")) : Backed(x)'
    BY <2>1, CallEntries DEF CandStatus, Backed
  <2>. QED BY <1>0, <1>2, <2>2, <2>3, LedgerInvKept DEF Accept, mergerVars
<1>3. CASE Reject /\ UNCHANGED mergerVars
  <2>1. GatePack.cand \in Cand
    BY <1>0, <1>3, InHand DEF Reject, Handling
  <2>2. update_candidate_status(GatePack.cand, "rejected_policy") \in Seq(Call)
    BY <2>1, CallTypes DEF CandStatus
  <2>3. \A x \in Entry(update_candidate_status(GatePack.cand, "rejected_policy")) : Backed(x)'
    BY <2>1, CallEntries DEF CandStatus, Backed
  <2>. QED BY <1>0, <1>3, <2>2, <2>3, LedgerInvKept DEF Reject, mergerVars
<1>4. CASE PatchApplied
  <2>. DEFINE cs == update_candidate_status(Winner, "merged")
              ts == update_task_status(MyTree, "merged")
  <2>1. Winner \in Cand /\ MyTree \in Tree
    BY <1>0, <1>4, InHand DEF PatchApplied
  <2>2. Entry(commits') = Entry(commits) \cup {Winner}
    BY <1>0, <1>4, <2>1, EntryAppend DEF PatchApplied
  <2>3. cs \in Seq(Call) /\ ts \in Seq(Call)
    BY <2>1, CallTypes DEF CandStatus, TaskStatus
  <2>4. cs \o ts \in Seq(Call) /\ Entry(cs \o ts) = Entry(cs) \cup Entry(ts)
    <3>. HIDE DEF cs, ts
    <3>. QED BY <2>3, EntryConcat
  <2>5. \A x \in Entry(cs) : Backed(x)'
    BY <2>1, <2>2, CallEntries DEF CandStatus, Backed
  <2>6. \A x \in Entry(ts) : Backed(x)'
    BY <2>1, <2>2, CallEntries DEF TaskStatus, Backed, MyTree
  <2>7. MakeCalls("merger", cs \o ts)
    BY <1>4 DEF PatchApplied
  <2>. HIDE DEF cs, ts
  <2>. QED BY <1>0, <2>2, <2>4, <2>5, <2>6, <2>7, LedgerInvKept
<1>5. CASE ReleaseTree
  <2>1. Winner \in Cand
    BY <1>0, <1>5, InHand DEF ReleaseTree
  <2>2. update_candidate_status(Winner, "merge_failed") \in Seq(Call)
    BY <2>1, CallTypes DEF CandStatus
  <2>3. \A x \in Entry(update_candidate_status(Winner, "merge_failed")) : Backed(x)'
    BY <2>1, CallEntries DEF CandStatus, Backed
  <2>. QED BY <1>0, <1>5, <2>2, <2>3, LedgerInvKept DEF ReleaseTree
<1>6. CASE MergeRaises
  <2>1. Entry(commits) \subseteq Entry(commits')
    BY <1>0, <1>6, EntryAppend DEF MergeRaises
  <2>2. MakeCalls("merger", <<>>)
    BY <1>6 DEF MergeRaises
  <2>. QED BY <1>0, <2>1, <2>2, LedgerInvKept
<1>7. CASE (RestartGate /\ UNCHANGED mergerVars) \/ RestartMerger
  <2>1. UNCHANGED commits
    BY <1>7 DEF RestartMerger, mergerVars
  <2>2. MakeCalls("gate", <<>>) \/ MakeCalls("merger", <<>>)
    BY <1>7 DEF RestartGate, RestartMerger, LoseBatch, MakeCalls
  <2>. QED BY <1>0, <2>1, <2>2, LedgerInvKept
<1>. QED BY <1>1, <1>2, <1>3, <1>4, <1>5, <1>6, <1>7
     DEF GateStep, GateHandler, GateLoop, ReserveTree, ReadGateBatch,
         ExecuteGatePipe, MergerStep, MergerHandler, CheckWinner, ClaimTree,
         RecheckWinner, MergeRecorded, MergerLoop, mergerVars

-----------------------------------------------------------------------------
(* Gate and merger together                                                *)

GateMergerInv ==
    /\ BaseTypeOK
    /\ PositionInv
    /\ ReservationInv
    /\ ProvenanceInv
    /\ OrphanInv
    /\ LedgerInv

LEMMA GateMergerInit ==
    ASSUME LedgerInit, FabricInit, StreamsInit, GateInit, MergerInit
    PROVE  GateMergerInv
<1>1. BaseTypeOK /\ PositionInv
  BY BaseInit
<1>2. Entry(<<>>) = {}
  BY EntryOne
<1>3. ReservationInv /\ ProvenanceInv /\ OrphanInv
  BY <1>2 DEF StreamsInit, GateInit, MergerInit, Daemon, ReservationInv,
     ProvenanceInv, OrphanInv, NoOrphanReservation
<1>4. LedgerInv
  BY <1>2 DEF LedgerInit, MergerInit, LedgerInv, LedgerMergedIsCommitted, Absent
<1>. QED BY <1>1, <1>3, <1>4 DEF GateMergerInv

\* A step of the gate or the merger.
LEMMA GateMergerStep ==
    ASSUME GateMergerInv, Daemon \subseteq Proc, GateStep \/ MergerStep
    PROVE  GateMergerInv'
<1>. USE DEF GateMergerInv
<1>1. BaseTypeOK' /\ PositionInv'
  BY GateStepType, MergerStepType
<1>2. ReservationInv'
  BY GateIsOutside, ReservationOutside, ReservationMerger
<1>3. ProvenanceInv' /\ OrphanInv'
  BY ProvenanceStep, OrphanStep
<1>4. LedgerInv'
  BY LedgerInvDaemons
<1>. QED BY <1>1, <1>2, <1>3, <1>4

\* A step of anything else, whose effect on types, positions and the ledger
\* is known.
LEMMA GateMergerElse ==
    ASSUME GateMergerInv, OutsideBoth, BaseTypeOK', PositionInv', LedgerInv'
    PROVE  GateMergerInv'
<1>. USE DEF GateMergerInv
<1>1. ReservationInv'
  BY NeitherIsOutside, ReservationOutside
<1>2. ProvenanceInv' /\ OrphanInv'
  BY ProvenanceStep, OrphanStep
<1>. QED BY <1>1, <1>2

\* What the invariant says of the properties.
LEMMA GateMergerSafety ==
    ASSUME GateMergerInv
    PROVE  /\ MergesAreVerified
           /\ OneCleanWinner
           /\ NoOrphanReservation
           /\ LedgerMergedIsCommitted
<1>1. MergesAreVerified
  BY DEF GateMergerInv, ProvenanceInv, Verified, MergesAreVerified
<1>2. OneCleanWinner
  BY DEF GateMergerInv, ReservationInv, OneCleanWinner
<1>. QED BY <1>1, <1>2 DEF GateMergerInv, OrphanInv, LedgerInv

\* Only the merger ends a reservation, and only its own winner's.
LEMMA OnlyItsOwnRelease ==
    ASSUME GateMergerInv, GateStep \/ MergerStep \/ OutsideBoth,
           NEW t \in Tree, acceptedKey[t] # NoCand, acceptedKey'[t] # acceptedKey[t]
    PROVE  /\ acceptedKey'[t] = NoCand
           /\ pc["merger"] = "release"
           /\ Winner = acceptedKey[t]
<1>0. /\ acceptedKey \in [Tree -> Cand \cup {NoCand}]
      /\ \A c \in Cand : TreeOf[c] \in Tree
  BY FabricAssumption DEF GateMergerInv, BaseTypeOK, GateTypeOK
<1>1. ~OutsideMerger
  BY <1>0 DEF OutsideMerger, Reserves
<1>2. MergerStep
  BY <1>1, GateIsOutside, NeitherIsOutside DEF GateMergerInv
<1>3. CASE ReleaseTree
  <2>1. acceptedKey[MyTree] = Winner /\ pc["merger"] = "release"
    BY <1>3 DEF ReleaseTree, GateMergerInv, ReservationInv
  <2>2. t = MyTree /\ acceptedKey'[t] = NoCand
    BY <1>0, <1>3 DEF ReleaseTree
  <2>. QED BY <2>1, <2>2
<1>4. CASE ClaimTree
  BY <1>0, <1>4 DEF ClaimTree
<1>. QED BY <1>2, <1>3, <1>4
     DEF MergerStep, MergerHandler, CheckWinner, RecheckWinner, PatchApplied,
         MergeRecorded, MergeRaises, MergerLoop, RestartMerger

\* Every step is a step of Reservation, or none.
LEMMA ReservationRefined ==
    ASSUME GateMergerInv, GateStep \/ MergerStep \/ OutsideBoth
    PROVE  [R!Next]_(R!vars)
<1>. USE DEF R!Next, R!vars
<1>0. \A c \in Cand : Reserves(c) /\ UNCHANGED commits => R!Reserve(c)
  BY DEF Reserves, R!Reserve
<1>1. CASE OutsideMerger
  BY <1>0, <1>1 DEF OutsideMerger, mergerVars
<1>2. CASE MergerStep
  <2>0. pc["merger"] \in {"claim", "patch", "record", "release"} =>
           Winner \in Cand /\ MyTree = TreeOf[Winner]
    BY InHand DEF GateMergerInv, PositionInv, Daemon, MyTree
  <2>1. CASE ClaimTree
    BY <1>0, <2>0, <2>1 DEF ClaimTree, Reserves, mergerVars
  <2>2. CASE PatchApplied \/ MergeRaises
    <3>1. /\ pc["merger"] \in {"patch", "record"}
          /\ UNCHANGED acceptedKey
          /\ commits' \in {commits, Append(commits, Winner)}
      BY <2>2 DEF PatchApplied, MergeRaises
    <3>2. acceptedKey[TreeOf[Winner]] = Winner
      BY <2>0, <3>1 DEF GateMergerInv, ReservationInv
    <3>. QED BY <2>0, <3>1, <3>2 DEF R!Commit
  <2>3. CASE ReleaseTree
    <3>1. /\ acceptedKey[TreeOf[Winner]] = Winner /\ Winner \in Cand
          /\ acceptedKey' = [acceptedKey EXCEPT ![TreeOf[Winner]] = NoCand]
          /\ UNCHANGED commits
      BY <2>0, <2>3 DEF ReleaseTree, GateMergerInv, ReservationInv
    <3>. QED BY <3>1 DEF R!GiveUp
  <2>4. CASE UNCHANGED <<acceptedKey, commits>>
    BY <2>4
  <2>. QED BY <1>2, <2>1, <2>2, <2>3, <2>4
       DEF MergerStep, MergerHandler, CheckWinner, RecheckWinner,
           MergeRecorded, MergerLoop, RestartMerger, mergerVars
<1>. QED BY <1>1, <1>2, GateIsOutside, NeitherIsOutside DEF GateMergerInv

-----------------------------------------------------------------------------
(* Acceptance: gate and merger, fed with any results that executor and     *)
(* dispatcher can publish                                                  *)

LEMMA ProcFacts == Daemon \subseteq Proc
BY AcceptanceAssumption

\* A result is added: the gate may have to decide on it, later.
LEMMA PublishKeeps ==
    ASSUME GateMergerInv, NEW r \in Run, NEW c \in Cand, NEW p \in Pack,
           PublishPack(r, c, p)
    PROVE  OutsideBoth /\ GateMergerInv'
<1>1. OutsideBoth
  BY DEF PublishPack, sourceFrame, OutsideBoth, daemonVars, failureVars
<1>2. /\ node' = [node EXCEPT ![c] = FreshHash]
      /\ resultsStream' = Append(resultsStream, p)
      /\ UNCHANGED <<ledgerVars, dispatchStream, doneKey, acceptedStream,
                     daemonVars, execKey, crashes, acceptedKey, gateVars, mergerVars>>
  BY DEF PublishPack, sourceFrame, failureVars
<1>3. LedgerTypeOK' /\ GateTypeOK' /\ MergerTypeOK'
  BY <1>2, LedgerUnchangedType
  DEF GateMergerInv, BaseTypeOK, GateTypeOK, MergerTypeOK, gateVars, mergerVars
<1>4. FabricTypeOK'
  <2>1. c \in Node /\ FreshHash \in NodeHash
    BY DEF Node, FreshHash, NoHash, NodeHash
  <2>. QED BY <1>2, <2>1 DEF GateMergerInv, BaseTypeOK, FabricTypeOK
<1>5. StreamsTypeOK' /\ PositionInv'
  <2>1. /\ \A x \in Daemon : /\ Entries(x) \in Nat /\ Entries(x)' \in Nat
                             /\ Entries(x) <= Entries(x)'
        /\ resultsStream' \in Seq(Pack)
    BY <1>2, StreamsGrow DEF GateMergerInv, BaseTypeOK
  <2>2. DaemonTypeOK
    BY DEF GateMergerInv, BaseTypeOK, StreamsTypeOK, DaemonTypeOK
  <2>3. DaemonTypeOK' /\ PositionInv'
    BY <1>2, <2>1, <2>2, LoopStep DEF GateMergerInv, Daemon
  <2>. QED BY <1>2, <2>1, <2>3
       DEF GateMergerInv, BaseTypeOK, StreamsTypeOK, DaemonTypeOK
<1>6. LedgerInv'
  BY <1>2, LedgerInvKept DEF GateMergerInv, BaseTypeOK, mergerVars
<1>. QED BY <1>1, <1>3, <1>4, <1>5, <1>6, GateMergerElse DEF BaseTypeOK

LEMMA AcceptanceStep ==
    ASSUME GateMergerInv, [AcceptanceNext]_acceptanceVars
    PROVE  GateMergerInv' /\ (GateStep \/ MergerStep \/ OutsideBoth)
<1>0. execKey \in Nat
  BY DEF GateMergerInv, BaseTypeOK, StreamsTypeOK
<1>1. ASSUME NEW r \in Run, NEW c \in Cand, ExecutorPublishes(r, c)
      PROVE  GateMergerInv' /\ OutsideBoth
  <2>1. PICK passed \in BOOLEAN :
           PublishPack(r, c, [run |-> r, cand |-> c, passed |-> passed,
                              isolated |-> Hardware, digest |-> c,
                              key |-> execKey])
    BY <1>1 DEF ExecutorPublishes
  <2>2. [run |-> r, cand |-> c, passed |-> passed, isolated |-> Hardware,
         digest |-> c, key |-> execKey] \in Pack
    BY <1>0, StreamsAssumption DEF Pack
  <2>. QED BY <2>1, <2>2, PublishKeeps
<1>2. ASSUME NEW r \in Run, NEW c \in Cand, DispatcherPublishes(r, c)
      PROVE  GateMergerInv' /\ OutsideBoth
  <2>1. [run |-> r, cand |-> c, passed |-> FALSE, isolated |-> FALSE,
         digest |-> c, key |-> 0] \in Pack
    BY DEF Pack
  <2>. QED BY <1>2, <2>1, PublishKeeps DEF DispatcherPublishes
<1>3. CASE GateActs \/ (RestartGate /\ UNCHANGED mergerVars)
  BY <1>3, ProcFacts, GateMergerStep DEF GateActs, GateStep
<1>4. CASE MergerActs \/ RestartMerger
  BY <1>4, ProcFacts, GateMergerStep DEF MergerActs, MergerStep
<1>5. ASSUME NEW p \in Proc, LedgerActs(p)
      PROVE  GateMergerInv' /\ OutsideBoth
  <2>1. LedgerTypeOK' /\ LedgerInv'
    BY <1>5, LedgerStepType, LedgerInvStep
    DEF LedgerActs, GateMergerInv, BaseTypeOK, mergerVars
  <2>2. OutsideBoth
    BY <1>5 DEF LedgerActs, OutsideBoth, streamVars, daemonVars, failureVars
  <2>3. BaseTypeOK' /\ PositionInv'
    BY <1>5, <2>1 DEF LedgerActs, GateMergerInv, BaseTypeOK, FabricTypeOK,
       StreamsTypeOK, GateTypeOK, MergerTypeOK, PositionInv, Entries, fabricVars,
       streamVars, daemonVars, failureVars, gateVars, mergerVars
  <2>. QED BY <2>1, <2>2, <2>3, GateMergerElse
<1>6. CASE ExecutorRestarts
  <2>1. OutsideBoth
    BY <1>6, StreamsAssumption DEF ExecutorRestarts, OutsideBoth, streamVars,
       daemonVars, Fails, GateMergerInv, BaseTypeOK, StreamsTypeOK
  <2>2. LedgerTypeOK' /\ LedgerInv'
    BY <1>6, LedgerUnchangedType, LedgerInvKept
    DEF ExecutorRestarts, GateMergerInv, BaseTypeOK, mergerVars
  <2>3. execKey' \in Nat \ {0} /\ crashes' \in 0..MaxCrashes
    BY <1>6, StreamsAssumption
    DEF ExecutorRestarts, Fails, GateMergerInv, BaseTypeOK, StreamsTypeOK
  <2>4. BaseTypeOK' /\ PositionInv'
    BY <1>6, <2>2, <2>3 DEF ExecutorRestarts, GateMergerInv, BaseTypeOK,
       FabricTypeOK, StreamsTypeOK, GateTypeOK, MergerTypeOK, PositionInv,
       Entries, fabricVars, streamVars, daemonVars, gateVars, mergerVars
  <2>. QED BY <2>1, <2>2, <2>4, GateMergerElse
<1>7. CASE UNCHANGED acceptanceVars
  <2>1. OutsideBoth
    BY <1>7 DEF acceptanceVars, OutsideBoth, streamVars, daemonVars, failureVars
  <2>2. LedgerTypeOK' /\ LedgerInv'
    BY <1>7, LedgerUnchangedType, LedgerInvKept
    DEF acceptanceVars, GateMergerInv, BaseTypeOK, mergerVars
  <2>3. BaseTypeOK' /\ PositionInv'
    BY <1>7, <2>2 DEF acceptanceVars, GateMergerInv, BaseTypeOK,
       FabricTypeOK, StreamsTypeOK, GateTypeOK, MergerTypeOK, PositionInv,
       Entries, fabricVars, streamVars, daemonVars, failureVars, gateVars, mergerVars
  <2>. QED BY <2>1, <2>2, <2>3, GateMergerElse
<1>. QED BY <1>1, <1>2, <1>3, <1>4, <1>5, <1>6, <1>7 DEF AcceptanceNext

LEMMA AcceptanceInvariant == AcceptanceSpec => []GateMergerInv
<1>1. AcceptanceInit => GateMergerInv
  BY GateMergerInit DEF AcceptanceInit
<1>. QED BY <1>1, AcceptanceStep, PTL DEF AcceptanceSpec

-----------------------------------------------------------------------------
(* What follows                                                            *)

\* "merges only policy-compliant fixes": whatever is restarted, repeated or
\* lost on the way, a commit of merger.py is for a candidate that the semantic
\* policy accepts and that a pack signed by a trusted key vouches for.
THEOREM OnlyVerifiedMerges == AcceptanceSpec => []MergesAreVerified
BY AcceptanceInvariant, GateMergerSafety, PTL

\* Two candidates of one tree are both merged cleanly only after a failed
\* merge of one of them deleted the accepted key.
THEOREM OneWinnerPerTree == AcceptanceSpec => []OneCleanWinner
BY AcceptanceInvariant, GateMergerSafety, PTL

\* As long as nothing fails, a tree that is reserved has its winner merged or
\* on its way to the merger.
THEOREM NoReservationIsOrphaned == AcceptanceSpec => []NoOrphanReservation
BY AcceptanceInvariant, GateMergerSafety, PTL

\* The ledger says "merged" of a candidate or of a task only once the commit
\* is made, although each status is written in two steps, long after the
\* handler that asked for it read its guard.
THEOREM MergedMeansCommitted == AcceptanceSpec => []LedgerMergedIsCommitted
BY AcceptanceInvariant, GateMergerSafety, PTL

\* A reservation ends only when the merger, having failed to merge its very
\* holder, deletes the key (which the code does without looking at its value).
THEOREM ReservationEnds == AcceptanceSpec => ReservationEndsByItsOwnRelease
<1>1. ASSUME GateMergerInv, [AcceptanceNext]_acceptanceVars
      PROVE  [\A t \in Tree :
                 acceptedKey[t] # NoCand /\ acceptedKey'[t] # acceptedKey[t]
                    => acceptedKey'[t] = NoCand /\ pc["merger"] = "release"
                       /\ Winner = acceptedKey[t]]_<<acceptedKey, pc, handled,
                                                     acceptedStream>>
  BY <1>1, AcceptanceStep, OnlyItsOwnRelease
<1>. QED BY <1>1, AcceptanceInvariant, PTL DEF AcceptanceSpec, ReservationEndsByItsOwnRelease

\* SET NX, GET and DEL of the accepted key, spread over two processes,
\* implement the abstract Reservation: at each commit of apply_patch the tree
\* is reserved for the committed candidate.
THEOREM ReservationImplemented == AcceptanceSpec => ImplementsReservation
<1>1. AcceptanceInit => R!Init
  BY DEF AcceptanceInit, GateInit, MergerInit, R!Init
<1>2. GateMergerInv /\ [AcceptanceNext]_acceptanceVars => [R!Next]_(R!vars)
  BY AcceptanceStep, ReservationRefined
<1>. QED BY <1>1, <1>2, AcceptanceInvariant, PTL
     DEF AcceptanceSpec, ImplementsReservation, R!Spec
=============================================================================
