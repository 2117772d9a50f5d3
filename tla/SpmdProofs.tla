----------------------------- MODULE SpmdProofs -----------------------------
(***************************************************************************)
(* The inductive invariant of Spmd and what follows from it, for any       *)
(* number of processes, any legal programs, any ring size and any number   *)
(* of posted receives.                                                     *)
(***************************************************************************)
EXTENDS Spmd, FiniteSetTheorems, TLAPS

USE DEF cacheVars, doneVars, rmaVars, fabricVars, machineVars, spmdVars,
        engineVars

----------------------------------------------------------------------------
(* Facts about programs, requests and calls *)

\* The superstep a process is in is one of its program.
LEMMA SuperstepFacts ==
  ASSUME program \in Programs, TypeOK, NEW p \in Procs, step[p] < Len(program)
  PROVE  /\ Superstep(p) \in Supersteps
         /\ IsFiniteSet(Superstep(p).rma)
         /\ Inbound(Superstep(p), p) \in Nat
<1>1. program \in Seq(Supersteps) /\ LegalProgram(program)
  BY ProgramsAssumption
<1>2. step[p] + 1 \in DOMAIN program
  BY <1>1 DEF TypeOK, SpmdType
<1>3. Superstep(p) \in Supersteps /\ IsFiniteSet(Superstep(p).rma)
  BY <1>1, <1>2 DEF Superstep, LegalProgram
<1>4. IsFiniteSet({r \in Superstep(p).rma : r.dst = p})
  BY <1>3, FS_Subset
<1> QED BY <1>3, <1>4, FS_CardinalityType DEF Inbound

LEMMA CallIsRecord ==
  ASSUME NEW op \in CollectiveOps, NEW a \in BOOLEAN, NEW r \in BOOLEAN,
         NEW c \in SUBSET WorkRequests
  PROVE  Call(op, a, r, c) \in CallRecords
BY DEF Call, CallRecords

LEMMA BarrierIsRecord ==
  ASSUME NEW op \in CollectiveOps
  PROVE  Barrier(op) \in CallRecords
BY CallIsRecord DEF Barrier

LEMMA EnterType ==
  ASSUME CallsType, NEW p \in Procs, NEW c \in CallRecords, Enter(p, c)
  PROVE  CallsType'
BY DEF CallsType, Enter

LEMMA CallsSame ==
  ASSUME CallsType, UNCHANGED calls
  PROVE  CallsType'
BY DEF CallsType

LEMMA VoteCountType ==
  ASSUME NEW p \in Procs
  PROVE  VotedAbort(p) \in Nat
<1>1. IsFiniteSet({q \in Procs : Contributions(p)[q].abort})
  BY ProcsAssumption, FS_Subset
<1> QED BY <1>1, FS_CardinalityType DEF VotedAbort

\* The outcome of the exchange of counters is a number.
LEMMA SumType ==
  ASSUME TypeOK, FiniteCounts, Phases, NEW p \in Procs, at[p] = "sum", Completed(p)
  PROVE  SumFor(p) \in Nat
<1> DEFINE C == {Contributions(p)[q].counts : q \in Procs}
<1>1. ASSUME NEW q \in Procs
      PROVE  IsFiniteSet(Contributions(p)[q].counts)
  <2>1. LastCall(p) \in 1..Len(calls[q])
    BY <1>1 DEF Phases, Phase, Completed, LastCall, TypeOK, CallsType
  <2>2. LastCall(p) \in DOMAIN calls[q]
    BY <1>1, <2>1 DEF TypeOK, CallsType
  <2> QED BY <1>1, <2>2 DEF FiniteCounts, Contributions
<1>2. IsFiniteSet(C)
  <2> DEFINE f == [q \in Procs |-> Contributions(p)[q].counts]
  <2>1. f \in Surjection(Procs, C)
    BY DEF Surjection
  <2> QED BY <2>1, ProcsAssumption, FS_Surjection
<1>3. IsFiniteSet(UNION C)
  BY <1>1, <1>2, FS_UNION
<1>4. IsFiniteSet({w \in UNION C : w.req.dst = p})
  BY <1>3, FS_Subset
<1> QED BY <1>4, FS_CardinalityType DEF SumFor

----------------------------------------------------------------------------
(* Type correctness *)

LEMMA InitType == Init => TypeOK
<1> SUFFICES ASSUME Init PROVE TypeOK
  OBVIOUS
<1>1. MachineType
  BY DEF Init, MachineInit, MachineType
<1>2. CountType
  BY DEF Init, EngineInit, CountType
<1>3. CallsType
  BY DEF Init, MachineInit, CallsType
<1>4. SyncType
  BY PostCountAssumption DEF Init, EngineInit, SyncType, NoRequest, Locations
<1>5. SpmdType
  BY ProgramsAssumption DEF Init, SpmdType
<1> QED BY <1>1, <1>2, <1>3, <1>4, <1>5 DEF TypeOK

LEMMA FabricPreservesType ==
  ASSUME TypeOK, Fabric
  PROVE  TypeOK'
<1>1. PICK w \in wire : Deliver(w)
  BY DEF Fabric
<1>2. MachineType'
  BY <1>1 DEF TypeOK, MachineType, Deliver, WorkRequests, Requests
<1>3. CountType' /\ SyncType' /\ SpmdType'
  BY <1>1 DEF Fabric, TypeOK, CountType, SyncType, SpmdType
<1>4. CallsType'
  BY CallsSame DEF TypeOK, Fabric
<1> QED BY <1>2, <1>3, <1>4 DEF TypeOK

\* A request that p may issue now.
LEMMA IssuedRequest ==
  ASSUME program \in Programs, TypeOK, NEW p \in Procs, Computing(p),
         NEW r \in Pending(p)
  PROVE  /\ r \in Requests
         /\ r.src = p
         /\ [req |-> r, step |-> step[p], imm |-> m_sync_counter[p]] \in WorkRequests
         /\ \A w \in sent : ~ (w.req = r /\ w.step = step[p])
<1>1. r \in Superstep(p).rma /\ r.src = p
  BY DEF Pending
<1>2. r \in Requests
  BY <1>1, SuperstepFacts DEF Computing, Supersteps
<1>3. [req |-> r, step |-> step[p], imm |-> m_sync_counter[p]] \in WorkRequests
  BY <1>2 DEF TypeOK, SpmdType, CountType, WorkRequests
<1> QED BY <1>1, <1>2, <1>3 DEF Pending

LEMMA CommunicatePreservesType ==
  ASSUME program \in Programs, TypeOK, NEW p \in Procs, Communicate(p)
  PROVE  TypeOK'
<1>1. PICK r \in Pending(p) : Post(r, step[p])
  BY DEF Communicate, put, get, atomic_fetch_and_add, atomic_cmp_and_swp
<1> DEFINE w == [req |-> r, step |-> step[p], imm |-> m_sync_counter[p]]
<1>2. r \in Requests /\ r.src = p /\ w \in WorkRequests
  BY IssuedRequest DEF Communicate
<1> HIDE DEF w
<1>3. wire' = wire \cup {w}
  BY <1>1, <1>2 DEF Post, w
<1>4. MachineType'
  BY <1>1, <1>2, <1>3 DEF TypeOK, MachineType, Post
<1>5. CountType'
  <2>1. /\ m_numMsgs' = [m_numMsgs EXCEPT ![p] = @ + 1]
        /\ m_numMsgsSync' = [m_numMsgsSync EXCEPT ![p] = @ \cup {w}]
        /\ UNCHANGED <<m_recvCounts, m_sync_counter>>
    BY <1>1, <1>2 DEF Post, CountIssued, w
  <2> QED BY <1>2, <2>1 DEF TypeOK, CountType
<1>6. SyncType'
  BY <1>1 DEF TypeOK, SyncType, Post
<1>7. SpmdType'
  BY <1>4 DEF Communicate, TypeOK, SpmdType, MachineType
<1>8. CallsType'
  BY <1>1, CallsSame DEF TypeOK, Post
<1> QED BY <1>4, <1>5, <1>6, <1>7, <1>8 DEF TypeOK

LEMMA ResizePreservesType ==
  ASSUME TypeOK, NEW p \in Procs, resizeMesgQueue(p)
  PROVE  TypeOK'
<1>1. m_qps' = [m_qps EXCEPT ![p].staged = step[p] + 1] /\ UNCHANGED calls
  BY DEF resizeMesgQueue, resizeMesgq, stageQPs
<1>2. MachineType' /\ CountType' /\ SpmdType'
  <2>1. PostCount - m_postCount[p] \in Nat
    BY PostCountAssumption DEF TypeOK, SyncType
  <2>2. srq' \in [Procs -> Nat]
    BY <2>1 DEF resizeMesgQueue, resizeMesgq, TypeOK, MachineType
  <2> QED BY <2>2 DEF resizeMesgQueue, resizeMesgq, TypeOK, MachineType, CountType, SpmdType
<1>3. m_qps' \in [Procs -> [staged : Nat, connected : Nat]]
  <2> DEFINE qps == [m_qps[p] EXCEPT !.staged = step[p] + 1]
  <2>1. qps \in [staged : Nat, connected : Nat]
    <3>1. step[p] + 1 \in Nat /\ m_qps[p] \in [staged : Nat, connected : Nat]
      BY DEF TypeOK, SyncType, SpmdType
    <3> QED BY <3>1
  <2>2. m_qps' = [m_qps EXCEPT ![p] = qps]
    BY <1>1
  <2> QED BY <2>1, <2>2 DEF TypeOK, SyncType
<1>4. m_postCount' \in [Procs -> 0..PostCount]
  BY PostCountAssumption DEF resizeMesgQueue, resizeMesgq, TypeOK, SyncType
<1>5. SyncType'
  BY <1>3, <1>4 DEF resizeMesgQueue, resizeMesgq, TypeOK, SyncType
<1> QED BY <1>1, <1>2, <1>5, CallsSame DEF TypeOK

\* Entering sync, from the program or on the way out of it.
LEMMA EnterSyncType ==
  ASSUME TypeOK, NEW p \in Procs, NEW mode, NEW a \in BOOLEAN,
         SyncEnter(p, mode, a, m_resized[p])
  PROVE  MachineType' /\ CountType' /\ CallsType' /\ SyncType'
<1>1. MachineType' /\ CountType'
  BY DEF SyncEnter, TypeOK, MachineType, CountType
<1>2. CallsType'
  <2>1. Call("vote", a, m_resized[p], {}) \in CallRecords
    BY CallIsRecord DEF TypeOK, SpmdType, CollectiveOps
  <2> QED BY <2>1, EnterType, CallsSame DEF TypeOK, SyncEnter
<1>3. SyncType'
  BY DEF SyncEnter, TypeOK, SyncType, Locations
<1> QED BY <1>1, <1>2, <1>3

LEMMA ProgramSyncPreservesType ==
  ASSUME TypeOK, NEW p \in Procs, sync(p)
  PROVE  TypeOK'
<1>1. MachineType' /\ CountType' /\ CallsType' /\ SyncType'
  BY EnterSyncType DEF sync
<1>2. SpmdType'
  BY DEF sync, TypeOK, SpmdType
<1> QED BY <1>1, <1>2 DEF TypeOK

LEMMA ReturnPreservesType ==
  ASSUME TypeOK, NEW p \in Procs, Return(p)
  PROVE  TypeOK'
<1>1. SpmdType'
  BY DEF Return, TypeOK, SpmdType
<1>2. CASE MustVote(p)
  BY <1>1, <1>2, EnterSyncType DEF Return, TypeOK
<1>3. CASE ~ MustVote(p)
  <2>1. UNCHANGED machineVars /\ UNCHANGED engineVars
    BY <1>3 DEF Return
  <2>2. MachineType' /\ CountType' /\ SyncType'
    BY <2>1 DEF TypeOK, MachineType, CountType, SyncType
  <2> QED BY <1>1, <2>1, <2>2, CallsSame DEF TypeOK
<1> QED BY <1>2, <1>3

LEMMA VoteFailedPreservesType ==
  ASSUME TypeOK, NEW p \in Procs, VoteFailed(p)
  PROVE  TypeOK'
<1>1. VotedAbort(p) \in Nat
  BY VoteCountType
<1>2. MachineType' /\ CountType'
  BY DEF VoteFailed, SyncAborted, TypeOK, MachineType, CountType
<1>3. SyncType'
  BY DEF VoteFailed, SyncAborted, TypeOK, SyncType, Locations
<1>4. SpmdType'
  BY <1>1 DEF VoteFailed, Verdict, TypeOK, SpmdType
<1> QED BY <1>2, <1>3, <1>4, CallsSame DEF VoteFailed, SyncAborted, TypeOK

\* A pending request and its event.
LEMMA ActivateType ==
  ASSUME SyncType, Phases, NEW p \in Procs, at[p] # "wait",
         NEW b \in BOOLEAN, NEW n \in Nat, Activate(p, b, n)
  PROVE  /\ syncRequest' \in [Procs -> [isActive : BOOLEAN, withBarrier : BOOLEAN,
                                        secondPhase : BOOLEAN, remoteMsgs : Nat]]
         /\ syncEvents' \in [Procs -> {0, 1}]
         /\ at' \in [Procs -> Locations]
<1>1. Request(syncRequest[p], b, n) \in [isActive : BOOLEAN, withBarrier : BOOLEAN,
                                         secondPhase : BOOLEAN, remoteMsgs : Nat]
  BY ZenonT(30) DEF SyncType, Request
<1>2. syncEvents[p] = 0
  BY DEF Phases, Phase, SyncType
<1>3. syncRequest' = [syncRequest EXCEPT ![p] = Request(syncRequest[p], b, n)]
  BY DEF Activate
<1> QED BY <1>1, <1>2, <1>3 DEF Activate, SyncType, Locations

LEMMA SyncReturnsPreservesType ==
  ASSUME program \in Programs, TypeOK, FiniteCounts, Phases, NEW p \in Procs,
         run[p] = "spmd", SyncReturns(p)
  PROVE  TypeOK'
<1>1. at[p] \in {"drain", "sum"}
  BY DEF SyncReturns, SyncKnown, Drained, SyncExchanged
<1>2. /\ Superstep(p).barrier \in BOOLEAN
      /\ Inbound(Superstep(p), p) \in Nat
  <2>1. step[p] < Len(program)
    BY <1>1 DEF Phases, Phase
  <2> QED BY <2>1, SuperstepFacts DEF Supersteps
<1>3. SpmdType'
  BY DEF SyncReturns, WithdrawResized, TypeOK, SpmdType
<1>4. MachineType' /\ UNCHANGED calls
  BY DEF SyncReturns, SyncKnown, SyncExchanged, Drained, TypeOK, MachineType
<1>5. CountType'
  BY DEF SyncReturns, SyncKnown, SyncExchanged, Drained, TypeOK, CountType
<1>6. SyncType'
  <2>1. CASE SyncKnown(p, Superstep(p).mode, Superstep(p).barrier,
                       Inbound(Superstep(p), p))
    <3> DEFINE n == IF Superstep(p).mode = "CACHED" THEN m_sync_cached_value[p]
                    ELSE Inbound(Superstep(p), p)
    <3>1. n \in Nat
      BY <1>2 DEF TypeOK, SyncType
    <3>2. Activate(p, Superstep(p).barrier, n)
      BY <2>1 DEF SyncKnown
    <3> HIDE DEF n
    <3>3. /\ syncRequest' \in [Procs -> [isActive : BOOLEAN, withBarrier : BOOLEAN,
                                         secondPhase : BOOLEAN, remoteMsgs : Nat]]
          /\ syncEvents' \in [Procs -> {0, 1}]
          /\ at' \in [Procs -> Locations]
      BY <1>1, <1>2, <3>1, <3>2, ActivateType DEF TypeOK
    <3>4. UNCHANGED cacheVars /\ UNCHANGED <<m_blockTask, m_qps, m_postCount>>
      BY <2>1 DEF SyncKnown, Drained
    <3> QED BY <3>3, <3>4 DEF TypeOK, SyncType
  <2>2. CASE SyncExchanged(p, Superstep(p).mode, Superstep(p).barrier)
    <3>1. SumFor(p) \in Nat
      BY <2>2, SumType DEF SyncExchanged
    <3>2. Activate(p, Superstep(p).barrier, SumFor(p))
      BY <2>2 DEF SyncExchanged
    <3>3. /\ syncRequest' \in [Procs -> [isActive : BOOLEAN, withBarrier : BOOLEAN,
                                         secondPhase : BOOLEAN, remoteMsgs : Nat]]
          /\ syncEvents' \in [Procs -> {0, 1}]
          /\ at' \in [Procs -> Locations]
      BY <1>1, <1>2, <3>1, <3>2, ActivateType DEF TypeOK
    <3>4. /\ m_sync_cached' \in [Procs -> BOOLEAN]
          /\ m_sync_cached_value' \in [Procs -> Nat]
          /\ UNCHANGED <<m_blockTask, m_qps, m_postCount>>
      BY <2>2, <3>1 DEF SyncExchanged, TypeOK, SyncType
    <3> QED BY <3>3, <3>4 DEF TypeOK, SyncType
  <2> QED BY <2>1, <2>2 DEF SyncReturns
<1> QED BY <1>3, <1>4, <1>5, <1>6, CallsSame DEF TypeOK

LEMMA VotedPreservesType ==
  ASSUME TypeOK, NEW p \in Procs, SyncVoted(p), UNCHANGED spmdVars
  PROVE  TypeOK'
<1>1. MachineType' /\ CountType' /\ SpmdType'
  BY DEF SyncVoted, TypeOK, MachineType, CountType, SpmdType
<1>2. SyncType'
  BY DEF SyncVoted, TypeOK, SyncType, Locations
<1>3. CallsType'
  <2>1. Barrier("reconnect") \in CallRecords
    BY BarrierIsRecord DEF CollectiveOps
  <2> QED BY <2>1, EnterType, CallsSame DEF TypeOK, SyncVoted
<1> QED BY <1>1, <1>2, <1>3 DEF TypeOK

LEMMA ReconnectPreservesType ==
  ASSUME TypeOK, NEW p \in Procs, reconnectQPs(p), UNCHANGED spmdVars
  PROVE  TypeOK'
<1>1. MachineType'
  BY DEF reconnectQPs, DestroyQPs, TypeOK, MachineType
<1>2. CountType' /\ SpmdType'
  BY DEF reconnectQPs, TypeOK, CountType, SpmdType
<1>3. m_qps' \in [Procs -> [staged : Nat, connected : Nat]]
  BY DEF reconnectQPs, Swap, TypeOK, SyncType
<1>4. SyncType'
  BY <1>3 DEF reconnectQPs, TypeOK, SyncType, Locations
<1>5. CallsType'
  <2>1. Barrier("reconnected") \in CallRecords
    BY BarrierIsRecord DEF CollectiveOps
  <2> QED BY <2>1, EnterType DEF TypeOK, reconnectQPs
<1> QED BY <1>1, <1>2, <1>4, <1>5 DEF TypeOK

LEMMA ReconnectedPreservesType ==
  ASSUME TypeOK, NEW p \in Procs, SyncReconnected(p), UNCHANGED spmdVars
  PROVE  TypeOK'
<1>1. MachineType' /\ CountType' /\ SpmdType'
  BY DEF SyncReconnected, TypeOK, MachineType, CountType, SpmdType
<1>2. SyncType'
  BY DEF SyncReconnected, TypeOK, SyncType, Locations
<1> QED BY <1>1, <1>2, CallsSame DEF TypeOK, SyncReconnected

LEMMA ExchangePreservesType ==
  ASSUME TypeOK, NEW p \in Procs, NEW mode, SyncExchange(p, mode), UNCHANGED spmdVars
  PROVE  TypeOK'
<1>1. MachineType' /\ SpmdType'
  BY DEF SyncExchange, Drained, TypeOK, MachineType, SpmdType
<1>2. CountType'
  BY DEF SyncExchange, Drained, TypeOK, CountType
<1>3. SyncType'
  BY DEF SyncExchange, Drained, NowValid, TypeOK, SyncType, Locations
<1>4. CallsType'
  <2>1. Call("sum", FALSE, FALSE, Contribution(p)) \in CallRecords
    BY CallIsRecord DEF TypeOK, CountType, Contribution, CollectiveOps
  <2> QED BY <2>1, EnterType DEF TypeOK, SyncExchange
<1> QED BY <1>1, <1>2, <1>3, <1>4 DEF TypeOK

LEMMA DonePreservesType ==
  ASSUME TypeOK, NEW p \in Procs, SyncDone(p)
  PROVE  TypeOK'
<1>1. MachineType' /\ CountType' /\ SpmdType'
  BY SMTT(20) DEF SyncDone, SyncReleased, TypeOK, MachineType, CountType, SpmdType
<1>2. SyncType'
  BY DEF SyncDone, SyncReleased, TypeOK, SyncType, Locations
<1> QED BY <1>1, <1>2, CallsSame DEF TypeOK, SyncDone, SyncReleased

\* The requests of a process that have not come back are finitely many, and a
\* completion that is waiting to be polled is one of them.
LEMMA OutstandingFinite ==
  ASSUME Conserved, NEW p \in Procs
  PROVE  /\ IsFiniteSet(Outstanding(p))
         /\ Cardinality(Outstanding(p)) \in Nat
         /\ cqLocal[p] # {} => Cardinality(Outstanding(p)) >= 1
<1>1. IsFiniteSet({w \in sent \ executed : w.req.src = p})
  BY FS_Subset DEF Conserved
<1>2. IsFiniteSet(Outstanding(p))
  BY <1>1, FS_Union DEF Conserved, Outstanding
<1>3. Cardinality(Outstanding(p)) \in Nat
  BY <1>2, FS_CardinalityType
<1>4. ASSUME cqLocal[p] # {}
      PROVE  Cardinality(Outstanding(p)) >= 1
  <2>1. Outstanding(p) # {}
    BY <1>4 DEF Outstanding
  <2> QED BY <1>2, <1>3, <2>1, FS_EmptySet
<1> QED BY <1>2, <1>3, <1>4

LEMMA LocalPreservesType ==
  ASSUME TypeOK, Conserved, NEW p \in Procs, PollLocal(p)
  PROVE  TypeOK'
<1>1. PICK w \in cqLocal[p] :
        /\ cqLocal'   = [cqLocal EXCEPT ![p] = @ \ {w}]
        /\ m_numMsgs' = [m_numMsgs EXCEPT ![p] = @ - 1]
  BY DEF PollLocal, Poll, doLocalProgress
<1>2. m_numMsgs[p] - 1 \in Nat
  <2>1. /\ Cardinality(Outstanding(p)) \in Nat /\ Cardinality(Outstanding(p)) >= 1
        /\ Cardinality(Outstanding(p)) <= m_numMsgs[p]
    BY <1>1, OutstandingFinite DEF Conserved
  <2> QED BY <2>1 DEF TypeOK, CountType
<1>3. MachineType'
  BY <1>1 DEF PollLocal, Poll, doLocalProgress, TypeOK, MachineType
<1>4. CountType'
  BY <1>1, <1>2 DEF PollLocal, Poll, doLocalProgress, TypeOK, CountType
<1>5. SyncType' /\ SpmdType'
  BY DEF PollLocal, Poll, doLocalProgress, TypeOK, SyncType, SpmdType
<1> QED
  BY <1>3, <1>4, <1>5, CallsSame DEF TypeOK, PollLocal, Poll, doLocalProgress

\* Whatever the counter, its cell is in the ring.
LEMMA CellInRing ==
  ASSUME NEW c \in Nat
  PROVE  Cell(c) \in 0..(RingSize - 1)
BY RingSizeAssumption DEF Cell

\* Reading and storing a number in one cell of an array of numbers.
LEMMA ReadType ==
  ASSUME NEW D, NEW f \in [D -> Nat], NEW c \in D
  PROVE  f[c] \in Nat
OBVIOUS

LEMMA StoreType ==
  ASSUME NEW D, NEW f \in [D -> Nat], NEW c \in D, NEW n \in Nat
  PROVE  [f EXCEPT ![c] = n] \in [D -> Nat]
OBVIOUS

LEMMA RemotePreservesType ==
  ASSUME TypeOK, NEW p \in Procs, PollRemote(p)
  PROVE  TypeOK'
<1>1. PICK w \in cqRemote[p] :
        /\ cqRemote'     = [cqRemote EXCEPT ![p] = @ \ {w}]
        /\ m_recvCounts' = [m_recvCounts EXCEPT ![p][Cell(w.imm)] = @ + 1]
  BY DEF PollRemote, Poll, doRemoteProgress
<1>2. Cell(w.imm) \in 0..(RingSize - 1)
  BY CellInRing DEF TypeOK, MachineType, WorkRequests
<1>3. MachineType'
  BY <1>1 DEF PollRemote, Poll, doRemoteProgress, Repost, TypeOK, MachineType
<1>4. m_recvCounts' \in [Procs -> [0..(RingSize - 1) -> Nat]]
  <2> DEFINE c == Cell(w.imm)
             cells == [m_recvCounts[p] EXCEPT ![c] = m_recvCounts[p][c] + 1]
  <2>1. m_recvCounts' = [m_recvCounts EXCEPT ![p] = cells]
    BY <1>1
  <2>2. m_recvCounts[p] \in [0..(RingSize - 1) -> Nat]
    BY DEF TypeOK, CountType
  <2>3. m_recvCounts[p][c] + 1 \in Nat
    <3>1. m_recvCounts[p][c] \in Nat
      BY <1>2, <2>2, ReadType, Zenon
    <3> QED BY <3>1
  <2>4. cells \in [0..(RingSize - 1) -> Nat]
    BY <1>2, <2>2, <2>3, StoreType
  <2> HIDE DEF cells
  <2> QED BY <2>1, <2>4 DEF TypeOK, CountType
<1>5. CountType' /\ SyncType' /\ SpmdType'
  BY <1>4 DEF PollRemote, Poll, doRemoteProgress, TypeOK, CountType, SyncType, SpmdType
<1> QED
  BY <1>3, <1>5, CallsSame DEF TypeOK, PollRemote, Poll, doRemoteProgress

LEMMA BlockPreservesType ==
  ASSUME TypeOK, NEW p \in Procs, PollBlock(p)
  PROVE  TypeOK'
<1>1. MachineType' /\ CountType' /\ SyncType' /\ SpmdType'
  BY DEF PollBlock, Poll, processBlock, TypeOK, MachineType, CountType, SyncType,
         SpmdType
<1> QED BY <1>1, CallsSame DEF TypeOK, PollBlock, Poll, processBlock

\* Taking what was expected off the counter leaves a number.
LEMMA AllArrivedType ==
  ASSUME CountType, SyncType, NEW p \in Procs, AllArrived(p)
  PROVE  m_recvCounts' \in [Procs -> [0..(RingSize - 1) -> Nat]]
<1> DEFINE c == Cell(m_sync_counter[p])
<1>1. c \in 0..(RingSize - 1)
  BY CellInRing DEF CountType
<1>2. m_recvCounts[p] \in [0..(RingSize - 1) -> Nat] /\ syncRequest[p].remoteMsgs \in Nat
  BY DEF CountType, SyncType
<1>3. m_recvCounts[p][c] >= syncRequest[p].remoteMsgs
  BY DEF AllArrived, Enough
<1> DEFINE cells == [m_recvCounts[p] EXCEPT
                       ![c] = m_recvCounts[p][c] - syncRequest[p].remoteMsgs]
<1>4. m_recvCounts' = [m_recvCounts EXCEPT ![p] = cells]
  BY DEF AllArrived
<1> HIDE DEF c
<1>5. m_recvCounts[p][c] - syncRequest[p].remoteMsgs \in Nat
  <2>1. m_recvCounts[p][c] \in Nat
    BY <1>1, <1>2, ReadType, Zenon
  <2> QED BY <1>2, <1>3, <2>1
<1>6. cells \in [0..(RingSize - 1) -> Nat]
  BY <1>1, <1>2, <1>5, StoreType
<1> HIDE DEF cells
<1> QED BY <1>4, <1>6 DEF CountType

LEMMA FinishType ==
  ASSUME CountType, SyncType, Phases, NEW p \in Procs, syncRequest[p].isActive,
         FinishSync(p)
  PROVE  /\ m_sync_counter' \in [Procs -> Nat]
         /\ syncRequest' \in [Procs -> [isActive : BOOLEAN, withBarrier : BOOLEAN,
                                        secondPhase : BOOLEAN, remoteMsgs : Nat]]
         /\ syncEvents' \in [Procs -> {0, 1}]
<1>1. syncEvents[p] = 1
  BY DEF Phases, Phase
<1> DEFINE req == [syncRequest[p] EXCEPT !.isActive = FALSE, !.secondPhase = FALSE,
                                         !.remoteMsgs = 0]
<1>2. req \in [isActive : BOOLEAN, withBarrier : BOOLEAN, secondPhase : BOOLEAN,
               remoteMsgs : Nat]
  BY DEF SyncType
<1>3. syncRequest' = [syncRequest EXCEPT ![p] = req]
  BY DEF FinishSync
<1> HIDE DEF req
<1>4. /\ m_sync_counter' = [m_sync_counter EXCEPT ![p] = @ + 1]
      /\ syncEvents' = [syncEvents EXCEPT ![p] = @ - 1]
  BY DEF FinishSync
<1>5. m_sync_counter' \in [Procs -> Nat]
  BY <1>4 DEF CountType
<1>6. syncEvents' \in [Procs -> {0, 1}]
  BY <1>1, <1>4 DEF SyncType
<1> QED BY <1>2, <1>3, <1>5, <1>6 DEF SyncType

LEMMA SyncRequestPreservesType ==
  ASSUME TypeOK, Phases, NEW p \in Procs, PollSync(p)
  PROVE  TypeOK'
<1>1. MachineType' /\ SpmdType'
  BY DEF PollSync, Poll, processSyncRequest, TypeOK, MachineType, SpmdType
<1>2. CallsType'
  <2>1. Barrier("barrier") \in CallRecords
    BY BarrierIsRecord DEF CollectiveOps
  <2>2. CASE UNCHANGED calls
    BY <2>2, CallsSame DEF TypeOK
  <2>3. CASE Enter(p, Barrier("barrier"))
    BY <2>1, <2>3, EnterType DEF TypeOK
  <2> QED BY <2>2, <2>3 DEF PollSync, Poll, processSyncRequest
<1>3. syncRequest[p].isActive
  BY DEF PollSync, Poll, processSyncRequest, AllArrived
<1>4. m_recvCounts' \in [Procs -> [0..(RingSize - 1) -> Nat]]
  BY AllArrivedType DEF PollSync, Poll, processSyncRequest, TypeOK, CountType
<1>5. /\ m_sync_counter' \in [Procs -> Nat]
      /\ syncRequest' \in [Procs -> [isActive : BOOLEAN, withBarrier : BOOLEAN,
                                     secondPhase : BOOLEAN, remoteMsgs : Nat]]
      /\ syncEvents' \in [Procs -> {0, 1}]
  <2>1. CASE FinishSync(p)
    BY <1>3, <2>1, FinishType DEF TypeOK
  <2>2. CASE ~ FinishSync(p)
    <3> DEFINE req == [syncRequest[p] EXCEPT !.secondPhase = TRUE, !.remoteMsgs = 0]
    <3>1. /\ syncRequest' = [syncRequest EXCEPT ![p] = req]
          /\ UNCHANGED <<m_sync_counter, syncEvents>>
      BY <2>2 DEF PollSync, Poll, processSyncRequest
    <3>2. req \in [isActive : BOOLEAN, withBarrier : BOOLEAN, secondPhase : BOOLEAN,
                   remoteMsgs : Nat]
      BY ZenonT(30) DEF TypeOK, SyncType
    <3> HIDE DEF req
    <3> QED BY <3>1, <3>2 DEF TypeOK, CountType, SyncType
  <2> QED BY <2>1, <2>2
<1>6. CountType' /\ SyncType'
  BY <1>4, <1>5 DEF PollSync, Poll, processSyncRequest, TypeOK, CountType, SyncType
<1> QED BY <1>1, <1>2, <1>6 DEF TypeOK

----------------------------------------------------------------------------
(* Requests under way are accounted for *)

LEMMA ConservedSame ==
  ASSUME Conserved, UNCHANGED <<wire, executed, cqLocal, sent, m_numMsgs>>
  PROVE  Conserved'
BY DEF Conserved, Outstanding

\* Requests that are lost or move on to the completion queue leave the books
\* in order.
LEMMA ConservedShrinks ==
  ASSUME Conserved, CountType, UNCHANGED <<sent, m_numMsgs>>,
         executed' \subseteq sent, wire' \subseteq sent \ executed',
         \A q \in Procs : /\ IsFiniteSet(cqLocal'[q])
                          /\ cqLocal'[q] \subseteq executed'
                          /\ \A w \in cqLocal'[q] : w.req.src = q
                          /\ Outstanding(q)' \subseteq Outstanding(q)
  PROVE  Conserved'
<1>1. /\ IsFiniteSet(sent') /\ executed' \subseteq sent'
      /\ wire' \subseteq sent' \ executed'
  BY DEF Conserved
<1>2. ASSUME NEW q \in Procs
      PROVE  Cardinality(Outstanding(q)') <= m_numMsgs[q]
  <2>1. IsFiniteSet(Outstanding(q)) /\ Cardinality(Outstanding(q)) \in Nat
    BY OutstandingFinite
  <2>2. /\ IsFiniteSet(Outstanding(q)')
        /\ Cardinality(Outstanding(q)') <= Cardinality(Outstanding(q))
    BY <2>1, FS_Subset
  <2>3. Cardinality(Outstanding(q)') \in Nat
    BY <2>2, FS_CardinalityType
  <2>4. Cardinality(Outstanding(q)) <= m_numMsgs[q] /\ m_numMsgs[q] \in Nat
    BY DEF Conserved, CountType
  <2> QED BY <2>1, <2>2, <2>3, <2>4
<1> QED BY <1>1, <1>2 DEF Conserved

LEMMA FabricShrinks ==
  ASSUME TypeOK, Conserved, Fabric
  PROVE  /\ Conserved'
         /\ \A q \in Procs : Outstanding(q)' \subseteq Outstanding(q)
<1>1. PICK w \in wire : Deliver(w)
  BY DEF Fabric
<1>2. /\ wire' = wire \ {w} /\ executed' = executed \cup {w}
      /\ UNCHANGED <<sent, m_numMsgs>>
  BY <1>1 DEF Deliver, Fabric
<1>3. w.req.src \in Procs
  BY DEF TypeOK, MachineType, WorkRequests, Requests
<1>4. ASSUME NEW q \in Procs
      PROVE  cqLocal'[q] = IF q = w.req.src THEN cqLocal[q] \cup {w} ELSE cqLocal[q]
  BY <1>1, <1>3 DEF Deliver, TypeOK, MachineType
<1>5. ASSUME NEW q \in Procs
      PROVE  /\ IsFiniteSet(cqLocal'[q])
             /\ cqLocal'[q] \subseteq executed'
             /\ \A v \in cqLocal'[q] : v.req.src = q
             /\ Outstanding(q)' \subseteq Outstanding(q)
  <2> DEFINE new == cqLocal'[q]
  <2>a. /\ IsFiniteSet(cqLocal[q]) /\ cqLocal[q] \subseteq executed
        /\ \A v \in cqLocal[q] : v.req.src = q
        /\ w \in sent \ executed
    BY DEF Conserved
  <2>b. \/ q = w.req.src /\ new = cqLocal[q] \cup {w}
        \/ new = cqLocal[q]
    BY <1>4
  <2> HIDE DEF new
  <2>1. IsFiniteSet(new)
    BY <2>a, <2>b, FS_AddElement
  <2>2. /\ new \subseteq executed'
        /\ \A v \in new : v.req.src = q
    BY <1>2, <2>a, <2>b
  <2>3. Outstanding(q)' = {v \in sent \ executed' : v.req.src = q} \cup new
    BY <1>2 DEF Outstanding, new
  <2>4. Outstanding(q)' \subseteq Outstanding(q)
    BY <1>2, <2>a, <2>b, <2>3 DEF Outstanding
  <2> USE DEF new
  <2> QED BY <2>1, <2>2, <2>4
<1>6. executed' \subseteq sent /\ wire' \subseteq sent \ executed'
  BY <1>2 DEF Conserved
<1>7. Conserved'
  BY <1>2, <1>5, <1>6, ConservedShrinks DEF TypeOK
<1> QED BY <1>5, <1>7

LEMMA ReconnectShrinks ==
  ASSUME TypeOK, Conserved, NEW p \in Procs, reconnectQPs(p), UNCHANGED spmdVars
  PROVE  /\ Conserved'
         /\ \A q \in Procs : Outstanding(q)' \subseteq Outstanding(q)
<1>1. wire' \subseteq wire /\ UNCHANGED <<executed, sent, m_numMsgs>>
  BY DEF reconnectQPs, DestroyQPs
<1>2. ASSUME NEW q \in Procs
      PROVE  cqLocal'[q] = {} \/ cqLocal'[q] = cqLocal[q]
  BY DEF reconnectQPs, DestroyQPs, TypeOK, MachineType
<1>3. ASSUME NEW q \in Procs
      PROVE  /\ IsFiniteSet(cqLocal'[q])
             /\ cqLocal'[q] \subseteq executed'
             /\ \A v \in cqLocal'[q] : v.req.src = q
             /\ Outstanding(q)' \subseteq Outstanding(q)
  <2>1. IsFiniteSet(cqLocal'[q])
    BY <1>2, FS_EmptySet DEF Conserved
  <2>2. /\ cqLocal'[q] \subseteq executed'
        /\ \A v \in cqLocal'[q] : v.req.src = q
    BY <1>1, <1>2 DEF Conserved
  <2>3. Outstanding(q)' \subseteq Outstanding(q)
    BY <1>1, <1>2 DEF Outstanding
  <2> QED BY <2>1, <2>2, <2>3
<1>4. executed' \subseteq sent /\ wire' \subseteq sent \ executed'
  BY <1>1 DEF Conserved
<1>5. Conserved'
  BY <1>1, <1>3, <1>4, ConservedShrinks DEF TypeOK
<1> QED BY <1>3, <1>5

\* Polling a completion takes one request out of the books, and one off
\* m_numMsgs.
LEMMA LocalShrinks ==
  ASSUME TypeOK, Conserved, NEW p \in Procs, PollLocal(p)
  PROVE  /\ Conserved'
         /\ \A q \in Procs : Outstanding(q)' \subseteq Outstanding(q)
<1>1. PICK w \in cqLocal[p] :
        /\ cqLocal'   = [cqLocal EXCEPT ![p] = @ \ {w}]
        /\ m_numMsgs' = [m_numMsgs EXCEPT ![p] = @ - 1]
  BY DEF PollLocal, Poll, doLocalProgress
<1>2. UNCHANGED <<wire, executed, sent>>
  BY DEF PollLocal, Poll, doLocalProgress
<1>3. cqLocal'[p] = cqLocal[p] \ {w} /\ m_numMsgs'[p] = m_numMsgs[p] - 1
  BY <1>1 DEF TypeOK, MachineType, CountType
<1>4. ASSUME NEW q \in Procs, q # p
      PROVE  cqLocal'[q] = cqLocal[q] /\ m_numMsgs'[q] = m_numMsgs[q]
  BY <1>1, <1>4 DEF TypeOK, MachineType, CountType
<1>5. w \in executed
  BY DEF Conserved
<1>6. Outstanding(p)' = Outstanding(p) \ {w} /\ w \in Outstanding(p)
  BY <1>2, <1>3, <1>5 DEF Outstanding
<1>7. ASSUME NEW q \in Procs, q # p
      PROVE  Outstanding(q)' = Outstanding(q)
  BY <1>2, <1>4, <1>7 DEF Outstanding
<1>8. Cardinality(Outstanding(p)') <= m_numMsgs'[p]
  <2>1. Cardinality(Outstanding(p)') = Cardinality(Outstanding(p)) - 1
    BY <1>6, OutstandingFinite, FS_RemoveElement
  <2>2. Cardinality(Outstanding(p)) <= m_numMsgs[p]
    BY DEF Conserved
  <2>3. Cardinality(Outstanding(p)) \in Nat /\ m_numMsgs[p] \in Nat
    BY OutstandingFinite DEF TypeOK, CountType
  <2> QED BY <1>3, <2>1, <2>2, <2>3
<1>9. IsFiniteSet(cqLocal'[p])
  BY <1>3, FS_RemoveElement DEF Conserved
<1>10. ASSUME NEW q \in Procs
       PROVE  /\ IsFiniteSet(cqLocal'[q])
              /\ cqLocal'[q] \subseteq executed
              /\ \A v \in cqLocal'[q] : v.req.src = q
              /\ Cardinality(Outstanding(q)') <= m_numMsgs'[q]
  <2>1. CASE q = p
    BY <1>3, <1>8, <1>9, <2>1 DEF Conserved
  <2>2. CASE q # p
    BY <1>4, <1>7, <2>2 DEF Conserved
  <2> QED BY <2>1, <2>2
<1>11. Conserved'
  BY <1>2, <1>10 DEF Conserved
<1> QED BY <1>6, <1>7, <1>11

\* Issuing a request enters it into the books, and adds one to m_numMsgs.
LEMMA CommunicateConserves ==
  ASSUME program \in Programs, TypeOK, Conserved, NEW p \in Procs, Communicate(p)
  PROVE  /\ Conserved'
         /\ \A q \in Procs \ {p} : Outstanding(q)' = Outstanding(q)
<1>1. PICK r \in Pending(p) : Post(r, step[p])
  BY DEF Communicate, put, get, atomic_fetch_and_add, atomic_cmp_and_swp
<1> DEFINE w == [req |-> r, step |-> step[p], imm |-> m_sync_counter[p]]
<1>2. r.src = p /\ w \in WorkRequests /\ w.req.src = p /\ w \notin sent
  BY IssuedRequest DEF Communicate
<1>3. /\ wire' = wire \cup {w}
      /\ sent' = sent \cup wire'
      /\ cqLocal' = cqLocal /\ executed' = executed
      /\ m_numMsgs' = [m_numMsgs EXCEPT ![p] = @ + 1]
  BY <1>1, <1>2 DEF Post, CountIssued, Communicate
<1> HIDE DEF w
<1>4. sent' = sent \cup {w}
  BY <1>3 DEF Conserved
<1>a. /\ IsFiniteSet(sent') /\ executed' \subseteq sent'
      /\ wire' \subseteq sent' \ executed'
  BY <1>2, <1>3, <1>4, FS_AddElement DEF Conserved
<1>5. Outstanding(p)' = Outstanding(p) \cup {w} /\ w \notin Outstanding(p)
  BY <1>2, <1>3, <1>4, ZenonT(30) DEF Outstanding, Conserved
<1>6. ASSUME NEW q \in Procs \ {p}
      PROVE  Outstanding(q)' = Outstanding(q) /\ m_numMsgs'[q] = m_numMsgs[q]
  BY <1>2, <1>3, <1>4 DEF Outstanding, TypeOK, CountType
<1>7. Cardinality(Outstanding(p)') <= m_numMsgs'[p]
  <2>1. Cardinality(Outstanding(p)') = Cardinality(Outstanding(p)) + 1
    BY <1>5, OutstandingFinite, FS_AddElement
  <2>2. Cardinality(Outstanding(p)) <= m_numMsgs[p]
    BY DEF Conserved
  <2>3. Cardinality(Outstanding(p)) \in Nat /\ m_numMsgs[p] \in Nat
    BY OutstandingFinite DEF TypeOK, CountType
  <2>4. m_numMsgs'[p] = m_numMsgs[p] + 1
    BY <1>3 DEF TypeOK, CountType
  <2> QED BY <2>1, <2>2, <2>3, <2>4
<1>8. ASSUME NEW q \in Procs
      PROVE  /\ IsFiniteSet(cqLocal'[q])
             /\ cqLocal'[q] \subseteq executed'
             /\ \A v \in cqLocal'[q] : v.req.src = q
  BY <1>2, <1>3 DEF Conserved
<1>9. ASSUME NEW q \in Procs
      PROVE  Cardinality(Outstanding(q)') <= m_numMsgs'[q]
  BY <1>6, <1>7 DEF Conserved
<1>10. Conserved'
  BY <1>a, <1>8, <1>9 DEF Conserved
<1> QED BY <1>6, <1>10

----------------------------------------------------------------------------
(* Collective calls *)

\* The call that p makes becomes its last one; nobody else's calls change.
LEMMA EnterLast ==
  ASSUME CallsType, NEW p \in Procs, NEW c, Enter(p, c)
  PROVE  /\ LastCall(p)' = LastCall(p) + 1
         /\ LastCall(p)' > 0
         /\ LastCall(p)' \in DOMAIN calls'[p]
         /\ calls'[p][LastCall(p)'] = c
         /\ \A n \in DOMAIN calls'[p] :
              \/ calls'[p][n] = c
              \/ n \in DOMAIN calls[p] /\ calls'[p][n] = calls[p][n]
         /\ \A q \in Procs \ {p} : calls'[q] = calls[q]
<1>1. calls[p] \in Seq(CallRecords) /\ calls'[p] = Append(calls[p], c)
  BY DEF Enter, CallsType
<1>2. \A q \in Procs \ {p} : calls'[q] = calls[q]
  BY DEF Enter, CallsType
<1>3. Len(calls'[p]) = Len(calls[p]) + 1 /\ Len(calls[p]) \in Nat
  BY <1>1
<1>4. DOMAIN calls'[p] = 1..(Len(calls[p]) + 1) /\ calls'[p][Len(calls[p]) + 1] = c
  BY <1>1
<1>5. \A n \in 1..Len(calls[p]) : n \in DOMAIN calls[p] /\ calls'[p][n] = calls[p][n]
  BY <1>1
<1>6. \A n \in DOMAIN calls'[p] : n = Len(calls[p]) + 1 \/ n \in 1..Len(calls[p])
  BY <1>3, <1>4
<1>7. LastCall(p)' = Len(calls[p]) + 1 /\ LastCall(p) = Len(calls[p])
  BY <1>3 DEF LastCall
<1>8. LastCall(p)' \in DOMAIN calls'[p] /\ LastCall(p)' > 0
  BY <1>3, <1>4, <1>7
<1> QED BY <1>2, <1>4, <1>5, <1>6, <1>7, <1>8

LEMMA FiniteSame ==
  ASSUME FiniteCounts, UNCHANGED <<m_numMsgsSync, calls>>
  PROVE  FiniteCounts'
BY DEF FiniteCounts

LEMMA FiniteEnter ==
  ASSUME CallsType, FiniteCounts, NEW p \in Procs, NEW c, Enter(p, c),
         IsFiniteSet(c.counts),
         \A q \in Procs : IsFiniteSet(m_numMsgsSync'[q])
  PROVE  FiniteCounts'
BY EnterLast DEF FiniteCounts

LEMMA BarrierFinite ==
  ASSUME NEW op
  PROVE  IsFiniteSet(Barrier(op).counts)
BY FS_EmptySet DEF Barrier, Call

LEMMA FiniteEnterSync ==
  ASSUME TypeOK, FiniteCounts, NEW p \in Procs, NEW mode, NEW a, NEW r,
         SyncEnter(p, mode, a, r)
  PROVE  FiniteCounts'
<1>1. UNCHANGED m_numMsgsSync
  BY DEF SyncEnter
<1>2. CASE mode = "DEFAULT"
  <2> DEFINE c == Call("vote", a, r, {})
  <2>1. Enter(p, c)
    BY <1>2 DEF SyncEnter
  <2>2. IsFiniteSet(c.counts)
    BY FS_EmptySet DEF Call
  <2> HIDE DEF c
  <2> QED BY <1>1, <2>1, <2>2, FiniteEnter DEF TypeOK, FiniteCounts
<1>3. CASE mode # "DEFAULT"
  BY <1>1, <1>3, FiniteSame DEF SyncEnter
<1> QED BY <1>2, <1>3

LEMMA CommunicateFinite ==
  ASSUME program \in Programs, TypeOK, FiniteCounts, NEW p \in Procs, Communicate(p)
  PROVE  FiniteCounts'
<1>1. PICK r \in Pending(p) : Post(r, step[p])
  BY DEF Communicate, put, get, atomic_fetch_and_add, atomic_cmp_and_swp
<1> DEFINE w == [req |-> r, step |-> step[p], imm |-> m_sync_counter[r.src]]
<1>2. r.src = p
  BY IssuedRequest DEF Communicate
<1>3. m_numMsgsSync' = [m_numMsgsSync EXCEPT ![r.src] = @ \cup {w}] /\ UNCHANGED calls
  BY <1>1 DEF Post
<1> HIDE DEF w
<1>4. IsFiniteSet(m_numMsgsSync'[p])
  <2>1. IsFiniteSet(m_numMsgsSync[p] \cup {w})
    BY FS_AddElement DEF FiniteCounts
  <2> QED BY <1>2, <1>3, <2>1 DEF TypeOK, CountType
<1>5. \A q \in Procs \ {p} : m_numMsgsSync'[q] = m_numMsgsSync[q]
  BY <1>2, <1>3 DEF TypeOK, CountType
<1> QED BY <1>3, <1>4, <1>5 DEF FiniteCounts

LEMMA DrainedFinite ==
  ASSUME TypeOK, FiniteCounts, NEW p \in Procs, Drained(p)
  PROVE  \A q \in Procs : IsFiniteSet(m_numMsgsSync'[q])
BY FS_EmptySet DEF Drained, TypeOK, CountType, FiniteCounts

LEMMA ReturnsFinite ==
  ASSUME TypeOK, FiniteCounts, NEW p \in Procs, SyncReturns(p)
  PROVE  FiniteCounts'
<1>1. UNCHANGED calls
  BY DEF SyncReturns, SyncKnown, SyncExchanged
<1>2. \A q \in Procs : IsFiniteSet(m_numMsgsSync'[q])
  BY DrainedFinite DEF SyncReturns, SyncKnown, SyncExchanged, FiniteCounts
<1> QED BY <1>1, <1>2 DEF FiniteCounts

LEMMA ExchangeFinite ==
  ASSUME TypeOK, FiniteCounts, NEW p \in Procs, NEW mode, SyncExchange(p, mode)
  PROVE  FiniteCounts'
<1> DEFINE c == Call("sum", FALSE, FALSE, Contribution(p))
<1>1. Enter(p, c)
  BY DEF SyncExchange
<1>2. IsFiniteSet(c.counts)
  BY DEF Call, Contribution, FiniteCounts
<1>3. \A q \in Procs : IsFiniteSet(m_numMsgsSync'[q])
  BY DrainedFinite DEF SyncExchange
<1> HIDE DEF c
<1> QED BY <1>1, <1>2, <1>3, FiniteEnter DEF TypeOK

----------------------------------------------------------------------------
(* Where the sync task is *)

\* A step of p that leaves program alone concerns the phase of p only.
LEMMA OthersKeepPhase ==
  ASSUME Phases, NEW p \in Procs, Phase(p)', UNCHANGED program,
         \A q \in Procs \ {p} :
           UNCHANGED <<syncEvents[q], syncRequest[q], at[q], run[q], step[q], calls[q]>>
  PROVE  Phases'
<1>1. ASSUME NEW q \in Procs, q # p
      PROVE  Phase(q)'
  BY <1>1 DEF Phases, Phase, LastCall
<1> QED BY <1>1 DEF Phases

LEMMA PhasesSame ==
  ASSUME Phases, UNCHANGED <<syncEvents, syncRequest, at, run, step, calls, program>>
  PROVE  Phases'
BY DEF Phases, Phase, LastCall

\* Outside sync nothing is handed over.
LEMMA OutIdle ==
  ASSUME Phases, NEW p \in Procs, at[p] # "wait"
  PROVE  ~ syncRequest[p].isActive /\ syncEvents[p] = 0
BY DEF Phases, Phase

LEMMA EnterSyncPhases ==
  ASSUME TypeOK, Phases, NEW p \in Procs, NEW mode, NEW a, NEW r,
         SyncEnter(p, mode, a, r), UNCHANGED <<step, program>>,
         \/ UNCHANGED run /\ run[p] = "spmd" /\ step[p] < Len(program)
         \/ run' = [run EXCEPT ![p] = "aborting"] /\ mode = "DEFAULT" /\ a
  PROVE  Phases'
<1>1. /\ ~ syncRequest'[p].isActive /\ syncEvents'[p] = 0
      /\ step'[p] <= Len(program')
  BY OutIdle DEF SyncEnter, Phases, Phase
<1>2. CASE mode = "DEFAULT"
  <2> DEFINE c == Call("vote", a, r, {})
  <2>1. Enter(p, c) /\ c.abort = a
    BY <1>2 DEF SyncEnter, Call
  <2> HIDE DEF c
  <2>2. /\ LastCall(p)' > 0 /\ calls'[p][LastCall(p)'].abort = a
        /\ \A q \in Procs \ {p} : calls'[q] = calls[q]
    BY <2>1, EnterLast DEF TypeOK
  <2>3. at' = [at EXCEPT ![p] = "vote"]
    BY <1>2 DEF SyncEnter
  <2>4. Phase(p)'
    BY <1>1, <2>2, <2>3 DEF Phase, TypeOK, SyncType, SpmdType
  <2> QED BY <2>2, <2>3, <2>4, OthersKeepPhase DEF SyncEnter, TypeOK, SyncType, SpmdType
<1>3. CASE mode # "DEFAULT"
  <2>1. at' = [at EXCEPT ![p] = "drain"] /\ UNCHANGED calls /\ UNCHANGED run
        /\ run[p] = "spmd" /\ step[p] < Len(program)
    BY <1>3 DEF SyncEnter
  <2>2. Phase(p)'
    BY <1>1, <2>1 DEF Phase, TypeOK, SyncType, SpmdType
  <2> QED BY <2>1, <2>2, OthersKeepPhase DEF SyncEnter, TypeOK, SyncType
<1> QED BY <1>2, <1>3

LEMMA ReturnPhases ==
  ASSUME TypeOK, Phases, NEW p \in Procs, Return(p)
  PROVE  Phases'
<1>1. CASE MustVote(p)
  BY <1>1, EnterSyncPhases DEF Return
<1>2. CASE ~ MustVote(p)
  <2>1. /\ run' = [run EXCEPT ![p] = "exited"]
        /\ UNCHANGED <<syncEvents, syncRequest, at, step, calls, program>>
        /\ at[p] = "out"
    BY <1>2 DEF Return
  <2>2. Phase(p)'
    BY <2>1 DEF Phases, Phase, LastCall, TypeOK, SpmdType
  <2> QED BY <2>1, <2>2, OthersKeepPhase DEF TypeOK, SpmdType
<1> QED BY <1>1, <1>2

\* Who votes for aborting finds that somebody does.
LEMMA AborterIsCounted ==
  ASSUME Phases, NEW p \in Procs, run[p] = "aborting"
  PROVE  VotedAbort(p) # 0
<1> DEFINE S == {q \in Procs : Contributions(p)[q].abort}
<1>1. p \in S
  BY DEF Phases, Phase, Contributions
<1>2. IsFiniteSet(S)
  BY ProcsAssumption, FS_Subset
<1> QED BY <1>1, <1>2, FS_EmptySet DEF VotedAbort

LEMMA VoteFailedPhases ==
  ASSUME TypeOK, Phases, NEW p \in Procs, VoteFailed(p)
  PROVE  Phases'
<1>1. /\ at' = [at EXCEPT ![p] = "out"] /\ at[p] = "vote"
      /\ UNCHANGED <<syncEvents, syncRequest, step, calls, program>>
      /\ \/ run[p] = "aborting" /\ run' = [run EXCEPT ![p] = "exited"]
         \/ run[p] # "aborting" /\ UNCHANGED run
  BY DEF VoteFailed, SyncAborted, VoteOver
<1>2. Phase(p)'
  BY <1>1 DEF Phases, Phase, TypeOK, SyncType, SpmdType
<1> QED BY <1>1, <1>2, OthersKeepPhase DEF TypeOK, SyncType, SpmdType

\* Nobody who has left, or is leaving, is beyond the vote.
LEMMA BeyondVote ==
  ASSUME TypeOK, Phases, NEW p \in Procs, at[p] \notin {"out", "vote"}
  PROVE  run[p] = "spmd" /\ step[p] < Len(program)
BY DEF TypeOK, SpmdType, Phases, Phase

LEMMA ReturnsPhases ==
  ASSUME TypeOK, Phases, NEW p \in Procs, SyncReturns(p)
  PROVE  Phases'
<1>1. PICK b, n : Activate(p, b, n)
  BY DEF SyncReturns, SyncKnown, SyncExchanged
<1>2. /\ at[p] \in {"drain", "sum"}
      /\ UNCHANGED <<step, calls, program, run>>
  BY DEF SyncReturns, SyncKnown, SyncExchanged, Drained
<1>3. at'[p] = "wait" /\ syncEvents'[p] = 1 /\ syncRequest'[p].isActive
  BY <1>1, <1>2, OutIdle DEF Activate, Request, TypeOK, SyncType
<1>4. Phase(p)'
  BY <1>2, <1>3, BeyondVote DEF Phases, Phase
<1> QED BY <1>1, <1>2, <1>4, OthersKeepPhase DEF Activate, TypeOK, SyncType

\* The inner steps of the sync task: the call made, if any, and the place
\* reached belong together.
LEMMA InnerPhases ==
  ASSUME TypeOK, Phases, NEW p \in Procs, NEW here \in Locations, NEW c,
         at[p] # "wait", run[p] = "spmd", step[p] < Len(program),
         here # "out",
         at' = [at EXCEPT ![p] = here],
         here \in {"vote", "reconnect", "reconnected", "sum"} => Enter(p, c),
         Enter(p, c) \/ UNCHANGED calls,
         UNCHANGED <<syncEvents, syncRequest, run, step, program>>
  PROVE  Phases'
<1>1. ~ syncRequest'[p].isActive /\ syncEvents'[p] = 0 /\ at'[p] = here
  BY OutIdle DEF TypeOK, SyncType
<1>2. here \in {"vote", "reconnect", "reconnected", "sum"} => LastCall(p)' > 0
  BY EnterLast DEF TypeOK
<1>3. Phase(p)'
  BY <1>1, <1>2 DEF Phases, Phase
<1>4. \A q \in Procs \ {p} : calls'[q] = calls[q]
  BY EnterLast DEF TypeOK
<1> QED BY <1>3, <1>4, OthersKeepPhase DEF TypeOK, SyncType

LEMMA ContinuesPhases ==
  ASSUME TypeOK, Phases, NEW p \in Procs, SyncContinues(p)
  PROVE  Phases'
<1>1. CASE SyncVoted(p)
  <2>1. at[p] = "vote" /\ VotedAbort(p) = 0
    BY <1>1 DEF SyncVoted, VoteOver
  <2>2. run[p] = "spmd" /\ step[p] < Len(program)
    BY <2>1, AborterIsCounted DEF Phases, Phase, TypeOK, SpmdType
  <2> QED BY <1>1, <2>1, <2>2, InnerPhases DEF SyncVoted, SyncContinues, Locations
<1>2. CASE reconnectQPs(p)
  BY <1>2, BeyondVote, InnerPhases DEF reconnectQPs, SyncContinues, Locations
<1>3. CASE SyncReconnected(p)
  BY <1>3, BeyondVote, InnerPhases DEF SyncReconnected, SyncContinues, Locations
<1>4. CASE SyncExchange(p, Superstep(p).mode)
  BY <1>4, BeyondVote, InnerPhases DEF SyncExchange, Drained, SyncContinues, Locations
<1> QED BY <1>1, <1>2, <1>3, <1>4 DEF SyncContinues

LEMMA DonePhases ==
  ASSUME TypeOK, Phases, NEW p \in Procs, SyncDone(p)
  PROVE  Phases'
<1>1. /\ at[p] = "wait" /\ syncEvents[p] = 0
      /\ at' = [at EXCEPT ![p] = "out"]
      /\ step' = [step EXCEPT ![p] = @ + 1]
      /\ UNCHANGED <<syncEvents, syncRequest, calls, run, program>>
  BY DEF SyncDone, SyncReleased
<1>2. run[p] = "spmd" /\ step[p] < Len(program)
  BY <1>1, BeyondVote
<1>3. step'[p] <= Len(program') /\ step'[p] = step[p] + 1
  BY <1>1, <1>2 DEF TypeOK, SpmdType
<1>4. ~ syncRequest'[p].isActive /\ at'[p] = "out"
  BY <1>1 DEF Phases, Phase, TypeOK, SyncType
<1>5. Phase(p)'
  BY <1>1, <1>2, <1>3, <1>4 DEF Phase
<1> QED BY <1>1, <1>5, OthersKeepPhase DEF TypeOK, SyncType, SpmdType

LEMMA PollSyncPhases ==
  ASSUME TypeOK, Phases, NEW p \in Procs, PollSync(p)
  PROVE  Phases'
<1>1. /\ syncRequest[p].isActive
      /\ UNCHANGED <<at, run, step, program>>
      /\ Enter(p, Barrier("barrier")) \/ UNCHANGED calls
  BY DEF PollSync, Poll, processSyncRequest, AllArrived
<1>2. at[p] = "wait" /\ syncEvents[p] = 1
  BY <1>1 DEF Phases, Phase
<1>3. syncEvents'[p] = IF syncRequest'[p].isActive THEN 1 ELSE 0
  <2>1. CASE FinishSync(p)
    <3>1. ~ syncRequest'[p].isActive
      BY <2>1 DEF FinishSync, TypeOK, SyncType
    <3>2. syncEvents'[p] = 0
      BY <1>2, <2>1 DEF FinishSync, TypeOK, SyncType
    <3> QED BY <3>1, <3>2
  <2>2. CASE /\ syncRequest' = [syncRequest EXCEPT ![p].secondPhase = TRUE,
                                                  ![p].remoteMsgs = 0]
             /\ UNCHANGED syncEvents
    <3>1. syncRequest'[p].isActive
      BY <1>1, <2>2 DEF TypeOK, SyncType
    <3> QED BY <1>2, <2>2, <3>1
  <2> QED BY <2>1, <2>2 DEF PollSync, Poll, processSyncRequest
<1>4. \A q \in Procs \ {p} : /\ syncEvents'[q] = syncEvents[q]
                            /\ syncRequest'[q] = syncRequest[q]
  BY DEF PollSync, Poll, processSyncRequest, FinishSync, TypeOK, SyncType
<1>5. \A q \in Procs \ {p} : calls'[q] = calls[q]
  BY <1>1, EnterLast DEF TypeOK
<1>6. Phase(p)'
  BY <1>1, <1>2, <1>3, BeyondVote DEF Phases, Phase
<1> QED BY <1>1, <1>4, <1>5, <1>6, OthersKeepPhase

----------------------------------------------------------------------------
(* Nothing is outstanding once the spin on m_numMsgs is over *)

LEMMA LocalKept ==
  ASSUME LocalCompletion,
         \A q \in Procs : /\ Outstanding(q)' \subseteq Outstanding(q)
                          /\ at'[q] \in {"sum", "wait"} => at[q] \in {"sum", "wait"}
  PROVE  LocalCompletion'
BY DEF LocalCompletion

LEMMA OutstandingSame ==
  ASSUME UNCHANGED <<executed, cqLocal, sent>>, NEW q \in Procs
  PROVE  Outstanding(q)' \subseteq Outstanding(q)
BY DEF Outstanding

\* m_numMsgs = 0 means that every request has come back.
LEMMA DrainedIsEmpty ==
  ASSUME TypeOK, Conserved, NEW p \in Procs, Drained(p)
  PROVE  Outstanding(p) = {}
<1>1. m_numMsgs[p] = 0 /\ Cardinality(Outstanding(p)) <= m_numMsgs[p]
  BY DEF Drained, SpinEnd, Conserved
<1>2. IsFiniteSet(Outstanding(p)) /\ Cardinality(Outstanding(p)) \in Nat
  BY OutstandingFinite
<1>3. Cardinality(Outstanding(p)) = 0
  BY <1>1, <1>2
<1> QED BY <1>2, <1>3, FS_EmptySet

LEMMA DrainedLocal ==
  ASSUME TypeOK, Conserved, LocalCompletion, NEW p \in Procs, Drained(p),
         UNCHANGED sent, \A q \in Procs \ {p} : at'[q] = at[q]
  PROVE  LocalCompletion'
<1>1. Outstanding(p) = {}
  BY DrainedIsEmpty
<1>2. \A q \in Procs : Outstanding(q)' = Outstanding(q)
  BY DEF Drained, Outstanding
<1> QED BY <1>1, <1>2 DEF LocalCompletion

LEMMA ProgramLocal ==
  ASSUME IInv, NEW p \in Procs, Program(p)
  PROVE  LocalCompletion'
<1>1. CASE Communicate(p)
  <2>1. at' = at /\ at[p] = "out"
    BY <1>1 DEF Communicate, put, get, atomic_fetch_and_add, atomic_cmp_and_swp, Post
  <2>2. \A q \in Procs \ {p} : Outstanding(q)' = Outstanding(q)
    BY <1>1, CommunicateConserves DEF IInv
  <2> QED BY <2>1, <2>2 DEF IInv, LocalCompletion
<1>2. CASE resizeMesgQueue(p)
  BY <1>2, LocalKept, OutstandingSame DEF resizeMesgQueue, resizeMesgq, IInv
<1>3. CASE sync(p) \/ Return(p)
  <2>1. UNCHANGED <<executed, cqLocal, sent>>
    BY <1>3 DEF sync, Return, SyncEnter
  <2>2. ASSUME NEW q \in Procs, at'[q] \in {"sum", "wait"}
        PROVE  at[q] \in {"sum", "wait"}
    BY <1>3, <2>2 DEF sync, Return, SyncEnter, IInv, TypeOK, SyncType
  <2> QED BY <2>1, <2>2, LocalKept, OutstandingSame DEF IInv
<1>4. CASE VoteFailed(p)
  <2>1. UNCHANGED <<executed, cqLocal, sent>> /\ at' = [at EXCEPT ![p] = "out"]
    BY <1>4 DEF VoteFailed, SyncAborted
  <2> QED BY <2>1, LocalKept, OutstandingSame DEF IInv, TypeOK, SyncType
<1>5. CASE SyncReturns(p)
  <2>1. \A q \in Procs \ {p} : at'[q] = at[q]
    BY <1>5 DEF SyncReturns, SyncKnown, SyncExchanged, Activate, IInv, TypeOK, SyncType
  <2>2. CASE Drained(p)
    BY <1>5, <2>1, <2>2, DrainedLocal DEF SyncReturns, IInv
  <2>3. CASE ~ Drained(p)
    <3>1. at[p] = "sum" /\ UNCHANGED <<executed, cqLocal, sent>>
      BY <1>5, <2>3 DEF SyncReturns, SyncKnown, SyncExchanged
    <3> QED BY <2>1, <3>1, LocalKept, OutstandingSame DEF IInv
  <2> QED BY <2>2, <2>3
<1>6. CASE SyncContinues(p)
  <2>1. CASE SyncExchange(p, Superstep(p).mode)
    <3>1. \A q \in Procs \ {p} : at'[q] = at[q]
      BY <2>1 DEF SyncExchange, IInv, TypeOK, SyncType
    <3> QED BY <1>6, <2>1, <3>1, DrainedLocal DEF SyncContinues, SyncExchange, IInv
  <2>2. CASE reconnectQPs(p)
    <3>1. \A q \in Procs : Outstanding(q)' \subseteq Outstanding(q)
      BY <1>6, <2>2, ReconnectShrinks DEF SyncContinues, IInv
    <3>2. at' = [at EXCEPT ![p] = "reconnected"]
      BY <2>2 DEF reconnectQPs
    <3> QED BY <3>1, <3>2, LocalKept DEF IInv, TypeOK, SyncType
  <2>3. CASE SyncVoted(p) \/ SyncReconnected(p)
    <3>1. /\ UNCHANGED <<executed, cqLocal, sent>>
          /\ at' = [at EXCEPT ![p] = "reconnect"] \/ at' = [at EXCEPT ![p] = "drain"]
      BY <1>6, <2>3 DEF SyncContinues, SyncVoted, SyncReconnected
    <3> QED BY <3>1, LocalKept, OutstandingSame DEF IInv, TypeOK, SyncType
  <2> QED BY <1>6, <2>1, <2>2, <2>3 DEF SyncContinues
<1>7. CASE SyncDone(p)
  <2>1. UNCHANGED <<executed, cqLocal, sent>> /\ at' = [at EXCEPT ![p] = "out"]
    BY <1>7 DEF SyncDone, SyncReleased
  <2> QED BY <2>1, LocalKept, OutstandingSame DEF IInv, TypeOK, SyncType
<1> QED BY <1>1, <1>2, <1>3, <1>4, <1>5, <1>6, <1>7 DEF Program

----------------------------------------------------------------------------
(* What was issued in a superstep is executed when its issuer leaves it *)

LEMMA DeliveryKept ==
  ASSUME AllIssued, IssuerDelivers, UNCHANGED <<program, step>>,
         sent \subseteq sent', executed \subseteq executed',
         \A q \in Procs : AtItsEnd(q)' => AtItsEnd(q)
  PROVE  AllIssued' /\ IssuerDelivers'
<1>1. AllIssued'
  BY DEF AllIssued
<1>2. IssuerDelivers'
  BY DEF IssuerDelivers, IsDelivered
<1> QED BY <1>1, <1>2

LEMMA SyncDelivery ==
  ASSUME IInv, NEW p \in Procs, sync(p)
  PROVE  AllIssued' /\ IssuerDelivers'
<1>1. UNCHANGED <<program, step, sent, executed>> /\ run[p] = "spmd" /\ Pending(p) = {}
  BY DEF sync, SyncEnter, Computing
<1>2. \A q \in Procs \ {p} : at'[q] = at[q]
  BY DEF sync, SyncEnter, IInv, TypeOK, SyncType
<1>3. \A r \in program[step[p] + 1].rma :
        r.src = p => \E w \in sent : w.req = r /\ w.step = step[p]
  BY <1>1 DEF Pending, Superstep
<1>4. AllIssued'
  BY <1>1, <1>2, <1>3 DEF AllIssued, AtItsEnd, IInv, sync
<1>5. IssuerDelivers'
  BY <1>1 DEF IInv, IssuerDelivers, IsDelivered
<1> QED BY <1>4, <1>5

\* The superstep that p leaves is the one it had issued completely, and nothing
\* of it is outstanding any more.
LEMMA DoneDelivery ==
  ASSUME IInv, NEW p \in Procs, SyncDone(p)
  PROVE  AllIssued' /\ IssuerDelivers'
<1>1. /\ UNCHANGED <<program, sent, executed, run>> /\ at[p] = "wait"
      /\ at' = [at EXCEPT ![p] = "out"]
      /\ step' = [step EXCEPT ![p] = step[p] + 1]
  BY DEF SyncDone, SyncReleased
<1>2. AtItsEnd(p) /\ step[p] < Len(program)
  BY <1>1, BeyondVote DEF IInv, AtItsEnd
<1>3. step[p] \in Nat /\ step'[p] = step[p] + 1 /\ at'[p] = "out"
  BY <1>1 DEF IInv, TypeOK, SpmdType, SyncType
<1>4. \A q \in Procs \ {p} : step'[q] = step[q] /\ at'[q] = at[q]
  BY <1>1 DEF IInv, TypeOK, SpmdType, SyncType
<1>5. Len(program) \in Nat
  BY DEF IInv, TypeOK, SpmdType
<1>6. \A r \in program[step[p] + 1].rma :
        r.src = p => \E w \in sent : w.req = r /\ w.step = step[p]
  BY <1>2, <1>3, <1>5 DEF IInv, AllIssued
<1>7. \A r \in program[step[p] + 1].rma : r.src = p => IsDelivered(r, step[p])
  <2>1. Outstanding(p) = {}
    BY <1>1 DEF IInv, LocalCompletion
  <2>2. \A w \in sent : w.req.src = p => w \in executed
    BY <2>1 DEF Outstanding
  <2> QED BY <1>6, <2>2 DEF IsDelivered
<1>8. ASSUME NEW s \in Int, s < step'[p]
      PROVE  s < step[p] \/ s = step[p]
  BY <1>3, <1>8
<1>9. AllIssued'
  <2> SUFFICES ASSUME NEW q \in Procs, NEW s \in 0..(Len(program) - 1),
                      s < step'[q] \/ (s = step'[q] /\ AtItsEnd(q)'),
                      NEW r \in program[s + 1].rma, r.src = q
               PROVE  \E w \in sent : w.req = r /\ w.step = s
    BY <1>1 DEF AllIssued
  <2>1. CASE q = p
    <3>1. s < step[p] \/ s = step[p]
      BY <1>3, <1>8, <2>1 DEF AtItsEnd
    <3> QED BY <1>2, <2>1, <3>1 DEF IInv, AllIssued
  <2>2. CASE q # p
    <3>1. s < step[q] \/ (s = step[q] /\ AtItsEnd(q))
      BY <1>1, <1>4, <2>2 DEF AtItsEnd
    <3> QED BY <3>1 DEF IInv, AllIssued
  <2> QED BY <2>1, <2>2
<1>10. IssuerDelivers'
  <2> SUFFICES ASSUME NEW q \in Procs, NEW s \in 0..(step'[q] - 1),
                      NEW r \in program[s + 1].rma, r.src = q
               PROVE  IsDelivered(r, s)
    BY <1>1 DEF IssuerDelivers, IsDelivered
  <2>1. CASE q = p /\ s = step[p]
    BY <1>7, <2>1
  <2>2. CASE ~ (q = p /\ s = step[p])
    <3>1. s \in 0..(step[q] - 1)
      BY <1>3, <1>4, <2>2
    <3> QED BY <3>1 DEF IInv, IssuerDelivers
  <2> QED BY <2>1, <2>2
<1> QED BY <1>9, <1>10

LEMMA ProgramDelivery ==
  ASSUME IInv, NEW p \in Procs, Program(p)
  PROVE  AllIssued' /\ IssuerDelivers'
<1>1. CASE Communicate(p)
  BY <1>1, DeliveryKept DEF Communicate, put, get, atomic_fetch_and_add,
     atomic_cmp_and_swp, Post, AtItsEnd, IInv
<1>2. CASE resizeMesgQueue(p)
  BY <1>2, DeliveryKept DEF resizeMesgQueue, resizeMesgq, AtItsEnd, IInv
<1>3. CASE sync(p)
  BY <1>3, SyncDelivery
<1>4. CASE Return(p)
  <2>1. /\ UNCHANGED <<program, step, sent, executed>>
        /\ run'[p] # "spmd"
        /\ \A q \in Procs \ {p} : at'[q] = at[q] /\ run'[q] = run[q]
    BY <1>4, ZenonT(30) DEF Return, SyncEnter, IInv, TypeOK, SyncType, SpmdType
  <2>2. \A q \in Procs : AtItsEnd(q)' => AtItsEnd(q)
    BY <2>1 DEF AtItsEnd
  <2> QED BY <2>1, <2>2, DeliveryKept DEF IInv
<1>5. CASE VoteFailed(p)
  <2>1. /\ UNCHANGED <<program, step, sent, executed>>
        /\ at'[p] = "out"
        /\ \A q \in Procs \ {p} : at'[q] = at[q] /\ run'[q] = run[q]
    BY <1>5 DEF VoteFailed, SyncAborted, IInv, TypeOK, SyncType, SpmdType
  <2>2. \A q \in Procs : AtItsEnd(q)' => AtItsEnd(q)
    BY <2>1 DEF AtItsEnd
  <2> QED BY <2>1, <2>2, DeliveryKept DEF IInv
<1>6. CASE SyncReturns(p) \/ SyncContinues(p)
  <2>1. UNCHANGED <<program, step, sent, executed, run>> /\ at[p] # "out"
    BY <1>6 DEF SyncReturns, SyncKnown, SyncExchanged, SyncContinues, SyncVoted, VoteOver,
       reconnectQPs, DestroyQPs, SyncReconnected, SyncExchange, Drained
  <2>2. \A q \in Procs \ {p} : at'[q] = at[q]
    BY <1>6 DEF SyncReturns, SyncKnown, SyncExchanged, Activate, SyncContinues, SyncVoted,
       reconnectQPs, SyncReconnected, SyncExchange, IInv, TypeOK, SyncType
  <2>3. \A q \in Procs : AtItsEnd(q)' => AtItsEnd(q)
    BY <2>1, <2>2 DEF AtItsEnd
  <2> QED BY <2>1, <2>3, DeliveryKept DEF IInv
<1>7. CASE SyncDone(p)
  BY <1>7, DoneDelivery
<1> QED BY <1>1, <1>2, <1>3, <1>4, <1>5, <1>6, <1>7 DEF Program

----------------------------------------------------------------------------
(* Every step preserves every part of the invariant *)

LEMMA ProgramKeepsType ==
  ASSUME IInv, NEW p \in Procs, Program(p)
  PROVE  TypeOK'
<1>1. CASE SyncReturns(p)
  <2>1. run[p] = "spmd"
    BY <1>1, BeyondVote DEF IInv, SyncReturns, SyncKnown, SyncExchanged, Drained
  <2> QED BY <1>1, <2>1, SyncReturnsPreservesType DEF IInv
<1>2. CASE SyncContinues(p)
  BY <1>2, VotedPreservesType, ReconnectPreservesType, ReconnectedPreservesType,
     ExchangePreservesType DEF SyncContinues, IInv
<1> QED
  BY <1>1, <1>2, CommunicatePreservesType, ResizePreservesType,
     ProgramSyncPreservesType, ReturnPreservesType, VoteFailedPreservesType,
     DonePreservesType DEF Program, IInv

LEMMA ProgramKeepsConserved ==
  ASSUME IInv, NEW p \in Procs, Program(p)
  PROVE  Conserved'
<1>1. CASE Communicate(p)
  BY <1>1, CommunicateConserves DEF IInv
<1>2. CASE SyncContinues(p)
  <2>1. CASE reconnectQPs(p)
    BY <1>2, <2>1, ReconnectShrinks DEF SyncContinues, IInv
  <2>2. CASE ~ reconnectQPs(p)
    BY <1>2, <2>2, ConservedSame
    DEF SyncContinues, SyncVoted, SyncReconnected, SyncExchange, Drained, IInv
  <2> QED BY <2>1, <2>2
<1>3. CASE SyncReturns(p)
  BY <1>3, ConservedSame DEF SyncReturns, SyncKnown, SyncExchanged, Drained, IInv
<1>4. CASE resizeMesgQueue(p) \/ sync(p) \/ Return(p)
  BY <1>4, ConservedSame DEF resizeMesgQueue, resizeMesgq, sync, Return, SyncEnter, IInv
<1>5. CASE VoteFailed(p) \/ SyncDone(p)
  BY <1>5, ConservedSame DEF VoteFailed, SyncAborted, SyncDone, SyncReleased, IInv
<1> QED BY <1>1, <1>2, <1>3, <1>4, <1>5 DEF Program

LEMMA ProgramKeepsFinite ==
  ASSUME IInv, NEW p \in Procs, Program(p)
  PROVE  FiniteCounts'
<1>1. CASE Communicate(p) \/ SyncReturns(p)
  BY <1>1, CommunicateFinite, ReturnsFinite DEF IInv
<1>2. CASE resizeMesgQueue(p)
  BY <1>2, FiniteSame DEF resizeMesgQueue, resizeMesgq, IInv
<1>3. CASE sync(p)
  BY <1>3, FiniteEnterSync DEF sync, IInv
<1>4. CASE Return(p)
  <2>1. CASE MustVote(p)
    BY <1>4, <2>1, FiniteEnterSync DEF Return, IInv
  <2>2. CASE ~ MustVote(p)
    BY <1>4, <2>2, FiniteSame DEF Return, IInv
  <2> QED BY <2>1, <2>2
<1>5. CASE VoteFailed(p) \/ SyncDone(p)
  BY <1>5, FiniteSame DEF VoteFailed, SyncAborted, SyncDone, SyncReleased, IInv
<1>6. CASE SyncContinues(p)
  <2>1. CASE SyncExchange(p, Superstep(p).mode)
    BY <2>1, ExchangeFinite DEF IInv
  <2>2. CASE ~ SyncExchange(p, Superstep(p).mode)
    <3>1. /\ UNCHANGED m_numMsgsSync
          /\ \/ Enter(p, Barrier("reconnect"))
             \/ Enter(p, Barrier("reconnected"))
             \/ UNCHANGED calls
      BY <1>6, <2>2 DEF SyncContinues, SyncVoted, reconnectQPs, SyncReconnected
    <3>2. \A q \in Procs : IsFiniteSet(m_numMsgsSync'[q])
      BY <3>1 DEF IInv, FiniteCounts
    <3> QED BY <3>1, <3>2, BarrierFinite, FiniteEnter, FiniteSame DEF IInv, TypeOK
  <2> QED BY <2>1, <2>2
<1> QED BY <1>1, <1>2, <1>3, <1>4, <1>5, <1>6 DEF Program

LEMMA ProgramKeepsPhases ==
  ASSUME IInv, NEW p \in Procs, Program(p)
  PROVE  Phases'
<1>1. CASE Communicate(p)
  BY <1>1, PhasesSame DEF Communicate, put, get, atomic_fetch_and_add,
     atomic_cmp_and_swp, Post, IInv
<1>2. CASE resizeMesgQueue(p)
  BY <1>2, PhasesSame DEF resizeMesgQueue, resizeMesgq, IInv
<1>3. CASE sync(p)
  BY <1>3, EnterSyncPhases DEF sync, Computing, IInv
<1> QED
  BY <1>1, <1>2, <1>3, ReturnPhases, VoteFailedPhases, ReturnsPhases,
     ContinuesPhases, DonePhases DEF Program, IInv

\* A call of the program, or an inner step of it.
LEMMA ProgramStep ==
  ASSUME IInv, NEW p \in Procs, Program(p)
  PROVE  IInv'
<1>1. program' = program
  BY DEF Program, Communicate, resizeMesgQueue, sync, Return, VoteFailed, SyncReturns,
     SyncContinues, SyncDone
<1> QED
  BY <1>1, ProgramKeepsType, ProgramKeepsConserved, ProgramKeepsFinite,
     ProgramKeepsPhases, ProgramLocal, ProgramDelivery DEF IInv

\* A round of the polling task.
LEMMA PollingStep ==
  ASSUME IInv, NEW p \in Procs, Polling(p)
  PROVE  IInv'
<1>1. program' = program /\ at' = at
  BY DEF Polling, PollLocal, PollRemote, PollBlock, PollSync, Poll, doLocalProgress,
     doRemoteProgress, processBlock, processSyncRequest
<1>d. AllIssued' /\ IssuerDelivers'
  <2>1. UNCHANGED <<step, sent, executed, run>>
    BY DEF Polling, PollLocal, PollRemote, PollBlock, PollSync, Poll, doLocalProgress,
       doRemoteProgress, processBlock, processSyncRequest
  <2> QED BY <1>1, <2>1, DeliveryKept DEF AtItsEnd, IInv
<1>2. CASE PollLocal(p)
  <2>1. UNCHANGED <<m_numMsgsSync, calls, syncEvents, syncRequest, run, step>>
    BY <1>2 DEF PollLocal, Poll, doLocalProgress
  <2> QED
    BY <1>1, <1>d, <1>2, <2>1, LocalPreservesType, LocalShrinks, FiniteSame, PhasesSame,
       LocalKept DEF IInv
<1>3. CASE PollRemote(p)
  <2>1. UNCHANGED <<wire, executed, cqLocal, sent, m_numMsgs, m_numMsgsSync, calls, syncEvents,
                    syncRequest, run, step>>
    BY <1>3 DEF PollRemote, Poll, doRemoteProgress
  <2> QED
    BY <1>1, <1>d, <1>3, <2>1, RemotePreservesType, ConservedSame, FiniteSame, PhasesSame,
       LocalKept, OutstandingSame DEF IInv
<1>4. CASE PollBlock(p)
  <2>1. UNCHANGED <<wire, executed, cqLocal, sent, m_numMsgs, m_numMsgsSync, calls, syncEvents,
                    syncRequest, run, step>>
    BY <1>4 DEF PollBlock, Poll, processBlock
  <2> QED
    BY <1>1, <1>d, <1>4, <2>1, BlockPreservesType, ConservedSame, FiniteSame, PhasesSame,
       LocalKept, OutstandingSame DEF IInv
<1>5. CASE PollSync(p)
  <2>1. /\ UNCHANGED <<wire, executed, cqLocal, sent, m_numMsgs, m_numMsgsSync>>
        /\ Enter(p, Barrier("barrier")) \/ UNCHANGED calls
    BY <1>5 DEF PollSync, Poll, processSyncRequest
  <2>2. FiniteCounts'
    <3>1. \A q \in Procs : IsFiniteSet(m_numMsgsSync'[q])
      BY <2>1 DEF IInv, FiniteCounts
    <3> QED BY <2>1, <3>1, BarrierFinite, FiniteEnter, FiniteSame DEF IInv, TypeOK
  <2> QED
    BY <1>1, <1>d, <1>5, <2>1, <2>2, SyncRequestPreservesType, ConservedSame, PollSyncPhases,
       LocalKept, OutstandingSame DEF IInv
<1> QED BY <1>2, <1>3, <1>4, <1>5 DEF Polling

LEMMA FabricStep ==
  ASSUME IInv, Fabric
  PROVE  IInv'
<1>1. UNCHANGED <<program, at, m_numMsgsSync, calls, syncEvents, syncRequest, run, step>>
  BY DEF Fabric
<1>2. AllIssued' /\ IssuerDelivers'
  BY <1>1, DeliveryKept DEF Fabric, Deliver, AtItsEnd, IInv
<1> QED
  BY <1>1, <1>2, FabricPreservesType, FabricShrinks, FiniteSame, PhasesSame, LocalKept DEF IInv

\* Nothing happens.
LEMMA StutteringStep ==
  ASSUME IInv, UNCHANGED vars
  PROVE  IInv'
<1>1. MachineType' /\ CountType' /\ SyncType' /\ SpmdType'
  BY DEF vars, IInv, TypeOK, MachineType, CountType, SyncType, SpmdType
<1>2. TypeOK'
  BY <1>1, CallsSame DEF vars, IInv, TypeOK
<1>3. Conserved' /\ FiniteCounts' /\ Phases'
  BY ConservedSame, FiniteSame, PhasesSame DEF vars, IInv
<1>4. LocalCompletion'
  BY LocalKept, OutstandingSame DEF vars, IInv
<1>5. AllIssued' /\ IssuerDelivers'
  BY DeliveryKept DEF vars, AtItsEnd, IInv
<1> QED BY <1>5, <1>2, <1>3, <1>4 DEF vars, IInv

LEMMA InitInvariant == Init => IInv
<1> SUFFICES ASSUME Init PROVE IInv
  OBVIOUS
<1>1. TypeOK
  BY InitType
<1>2. \A p \in Procs : Outstanding(p) = {}
  BY DEF Init, MachineInit, Outstanding
<1>3. Conserved
  <2>1. wire = {} /\ executed = {} /\ sent = {}
    BY DEF Init, MachineInit
  <2>2. ASSUME NEW p \in Procs
        PROVE  cqLocal[p] = {} /\ Cardinality(Outstanding(p)) <= m_numMsgs[p]
    <3>1. cqLocal[p] = {} /\ m_numMsgs[p] = 0
      BY DEF Init, MachineInit, EngineInit
    <3>2. Cardinality(Outstanding(p)) = 0
      BY <1>2, FS_EmptySet, Zenon
    <3> QED BY <3>1, <3>2
  <2> QED BY <2>1, <2>2, FS_EmptySet DEF Conserved
<1>4. FiniteCounts
  BY FS_EmptySet DEF Init, MachineInit, EngineInit, FiniteCounts
<1>5. Phases
  BY ProgramsAssumption DEF Init, MachineInit, EngineInit, Phases, Phase, NoRequest
<1>6. LocalCompletion
  BY <1>2 DEF LocalCompletion
<1>7. AllIssued /\ IssuerDelivers
  BY DEF Init, EngineInit, AllIssued, AtItsEnd, IssuerDelivers
<1> QED BY <1>1, <1>3, <1>4, <1>5, <1>6, <1>7 DEF Init, IInv

----------------------------------------------------------------------------
(* Theorems *)

\* The inductive invariant of the engine under any program: the books on
\* outstanding requests are right, sync tasks, requests and events belong
\* together, and every variable is in its range.
THEOREM Invariant == Spec => []IInv
<1>1. Init => IInv
  BY InitInvariant
<1>2. IInv /\ [Next]_vars => IInv'
  BY ProgramStep, PollingStep, FabricStep, StutteringStep DEF Next, Finished
<1> QED BY <1>1, <1>2, PTL DEF Spec

\* Every variable stays in its range: among others m_numMsgs never becomes
\* negative in doLocalProgress, no counter of the ring does in
\* processSyncRequest, and a sync task never has more than one event.
THEOREM TypeCorrect == Spec => []TypeOK
<1>1. IInv => TypeOK
  BY DEF IInv
<1> QED BY <1>1, Invariant, PTL

\* Once IBVerbs::sync counts or announces what a process sent, none of its
\* requests is outstanding, whichever tasks issued them.
THEOREM LocallyComplete == Spec => []LocalCompletion
<1>1. IInv => LocalCompletion
  BY DEF IInv
<1> QED BY <1>1, Invariant, PTL

\* The issuer's half of what talpf_put, talpf_get and the atomics promise: when
\* a process has come out of the sync that ends a superstep, every operation it
\* issued there has been executed at its target.
THEOREM IssuersAreServed == Spec => []IssuerDelivers
<1>1. IInv => IssuerDelivers
  BY DEF IInv
<1> QED BY <1>1, Invariant, PTL
=============================================================================
