-------------------------- MODULE SpmdDeliveryProofs --------------------------
(***************************************************************************)
(* Operations are delivered, for any number of processes and any legal     *)
(* programs.  The target of an operation counts arrivals in a ring of      *)
(* counters and knows from the program, a cache or an exchange how many to *)
(* expect.  The invariant says that the number is right, that the counter  *)
(* counts nothing else, and that who is past a barrier knows that all have *)
(* entered it.  From it follow delivery, enough posted receives, and that  *)
(* the engine implements Bsp.                                              *)
(***************************************************************************)
EXTENDS SpmdOrderProofs

USE DEF cacheVars, doneVars, rmaVars, fabricVars, machineVars, spmdVars,
        engineVars

\* Two supersteps that use the same counter of the ring have a barrier between.
RingSuffices ==
  \A prog \in Programs : \A s, t \in 0..(Len(prog) - 1) :
    s < t /\ Cell(s) = Cell(t) => \E u \in s..(t - 1) : prog[u + 1].barrier

----------------------------------------------------------------------------
(* The invariant *)

\* The superstep whose arrivals p counts next.
Counting(p) == IF at[p] = "wait" /\ ~ Awaiting(p) THEN step[p] + 1 ELSE step[p]

SentBy(p, s) == {w \in sent : w.req.src = p /\ w.step = s}
SentTo(p, s) == {w \in sent : w.req.dst = p /\ w.step = s}

\* A request is an operation of the superstep whose number it carries.
Stamped(w) ==
  /\ w.imm = w.step
  /\ w.step < Len(program) /\ w.step <= step[w.req.src]
  /\ w.req \in program[w.step + 1].rma

Numbered(p) ==
  m_sync_counter[p] =
    IF at[p] = "wait" /\ ~ syncRequest[p].isActive THEN step[p] + 1 ELSE step[p]

\* The counters of a superstep hold what p sent in it until they are copied, and
\* what was exchanged is what p had sent.
Past(p, s) == s < step[p] \/ (s = step[p] /\ at[p] \in {"sum", "wait"})
Booked(p) ==
  /\ m_numMsgsSync[p] = IF at[p] \in {"sum", "wait"} THEN {} ELSE SentBy(p, step[p])
  /\ \A s \in 0..Len(program) : Takes(program, s, "sum") /\ Past(p, s) =>
       /\ Place(program, Moment(s, "sum")) <= LastCall(p)
       /\ calls[p][Place(program, Moment(s, "sum"))].counts = SentBy(p, s)

\* The cached number is that of a CACHED superstep since the last default one.
Until(p) == IF at[p] = "wait" THEN step[p] + 1 ELSE step[p]
Cached(p) ==
  at[p] # "sum" /\ m_sync_cached[p] =>
    \E t \in 0..(Until(p) - 1) :
      /\ program[t + 1].mode = "CACHED"
      /\ \A u \in t..(Until(p) - 1) : program[u + 1].mode # "DEFAULT"
      /\ m_sync_cached_value[p] = Inbound(program[t + 1], p)

\* p waits for as many arrivals as the superstep has.
Expecting(p) ==
  Awaiting(p) => syncRequest[p].remoteMsgs = Inbound(Superstep(p), p)

\* All that p has stopped counting has arrived.
Served(p) ==
  /\ cqRemote[p] \subseteq executed /\ \A w \in cqRemote[p] : w.req.dst = p
  /\ \A w \in sent : w.req.dst = p /\ w.step < Counting(p) =>
       w \in executed /\ w \notin cqRemote[p]
  /\ \A s \in 0..(Counting(p) - 1) : \A r \in program[s + 1].rma :
       r.dst = p => IsDelivered(r, s)

\* The counters count nothing else than what has arrived.
Arrived(p, c) ==
  {w \in executed : /\ w.req.dst = p /\ w \notin cqRemote[p]
                    /\ Counting(p) <= w.step /\ Cell(w.step) = c}
Counted(p) ==
  \A c \in 0..(RingSize - 1) : m_recvCounts[p][c] <= Cardinality(Arrived(p, c))

\* Whoever has gone past a barrier knows that all have entered it.
Fenced(p) ==
  \A s \in 0..Len(program) :
    Takes(program, s, "barrier") /\ s < m_sync_counter[p] =>
      \A q \in Procs : Place(program, Moment(s, "barrier")) <= LastCall(q)

DeliveryInv ==
  /\ \A w \in sent : Stamped(w)
  /\ \A p \in Procs : /\ Numbered(p) /\ Booked(p) /\ Cached(p) /\ Expecting(p)
                    /\ Served(p) /\ Counted(p) /\ Fenced(p)

----------------------------------------------------------------------------
(* How many requests of a superstep are directed at a process *)

LEMMA SentToBound ==
  ASSUME program \in Programs, TypeOK, IsFiniteSet(sent), \A w \in sent : Stamped(w),
         NEW q \in Procs, NEW s \in 0..(Len(program) - 1)
  PROVE  /\ IsFiniteSet(SentTo(q, s))
         /\ Cardinality(SentTo(q, s)) \in Nat /\ Inbound(program[s + 1], q) \in Nat
         /\ Cardinality(SentTo(q, s)) <= Inbound(program[s + 1], q)
         /\ Cardinality(SentTo(q, s)) = Inbound(program[s + 1], q) <=>
              \A r \in program[s + 1].rma :
                r.dst = q => \E w \in sent : w.req = r /\ w.step = s
<1> DEFINE S == SentTo(q, s)
           T == {r \in program[s + 1].rma : r.dst = q}
           f == [w \in S |-> w.req]
<1>1. s + 1 \in DOMAIN program /\ LegalProgram(program)
  BY ProgramsAssumption
<1>2. IsFiniteSet(S)
  BY FS_Subset DEF SentTo
<1>3. IsFiniteSet(program[s + 1].rma)
  BY <1>1 DEF LegalProgram
<1>4. IsFiniteSet(T)
  BY <1>3, FS_Subset
<1>5. \A w \in S : w.req \in T
  BY DEF SentTo, Stamped
<1>6. \A v, w \in S : v.req = w.req => v = w
  <2>1. sent \subseteq WorkRequests
    BY DEF TypeOK, SpmdType
  <2>2. \A v, w \in S : v.req = w.req => v.step = w.step /\ v.imm = w.imm
    BY DEF SentTo, Stamped
  <2> QED BY <2>1, <2>2 DEF SentTo, WorkRequests
<1>7. f \in Injection(S, T)
  BY <1>5, <1>6 DEF Injection, IsInjective
<1>8. f \in Surjection(S, T) <=> \A r \in T : \E w \in S : w.req = r
  BY <1>5 DEF Surjection
<1>9. (\A r \in T : \E w \in S : w.req = r) <=>
        \A r \in program[s + 1].rma : r.dst = q => \E w \in sent : w.req = r /\ w.step = s
  BY DEF SentTo
<1>10. Inbound(program[s + 1], q) = Cardinality(T)
  BY DEF Inbound
<1>11. Cardinality(S) \in Nat /\ Cardinality(T) \in Nat
  BY <1>2, <1>4, FS_CardinalityType
<1> HIDE DEF S, T, f
<1>12. /\ Cardinality(S) <= Cardinality(T)
       /\ Cardinality(S) = Cardinality(T) <=> f \in Surjection(S, T)
  BY <1>4, <1>7, FS_Injection
<1> QED BY <1>2, <1>8, <1>9, <1>10, <1>11, <1>12 DEF S

----------------------------------------------------------------------------
(* What a step leaves alone *)

Delivery(p) ==
  /\ Numbered(p) /\ Booked(p) /\ Cached(p) /\ Expecting(p)
  /\ Served(p) /\ Counted(p) /\ Fenced(p)

\* What was exchanged stays on record.
LEMMA ExchangedKept ==
  ASSUME CallsType, NEW p \in Procs, (\E c : Enter(p, c)) \/ UNCHANGED calls,
         NEW q \in Procs, NEW s \in 0..Len(program), Takes(program, s, "sum"),
         Place(program, Moment(s, "sum")) <= LastCall(q)
  PROVE  LET n == Place(program, Moment(s, "sum")) IN
         n <= LastCall(q)' /\ calls'[q][n] = calls[q][n]
<1> DEFINE n == Place(program, Moment(s, "sum"))
<1>1. Moment(s, "sum") \in Nat /\ Occupied(program, Moment(s, "sum"))
  BY MomentType DEF Occupied, CollectiveOps
<1>2. n \in Nat /\ 1 <= n
  BY <1>1, PlacePositive
<1>3. /\ LastCall(q) <= LastCall(q)' /\ LastCall(q) \in Nat /\ LastCall(q)' \in Nat
      /\ \A k \in DOMAIN calls[q] : calls'[q][k] = calls[q][k]
      /\ \A k \in Int : 1 <= k /\ k <= LastCall(q) => k \in DOMAIN calls[q]
  BY CallsKept, CallsGrow
<1> HIDE DEF n
<1> QED BY <1>2, <1>3 DEF n

LEMMA FencedKept ==
  ASSUME CallsType, NEW p \in Procs, (\E c : Enter(p, c)) \/ UNCHANGED calls,
         NEW q \in Procs, Fenced(q), program' = program, m_sync_counter'[q] = m_sync_counter[q]
  PROVE  Fenced(q)'
<1> SUFFICES ASSUME NEW s \in 0..Len(program), Takes(program, s, "barrier"),
                    s < m_sync_counter[q], NEW r \in Procs
             PROVE  Place(program, Moment(s, "barrier")) <= LastCall(r)'
  BY DEF Fenced
<1>1. Place(program, Moment(s, "barrier")) <= LastCall(r)
  BY DEF Fenced
<1>2. LastCall(r) \in Nat /\ LastCall(r)' \in Nat /\ LastCall(r) <= LastCall(r)'
  BY CallsGrow
<1>3. Moment(s, "barrier") \in Int
  BY MomentType
<1>4. Place(program, Moment(s, "barrier")) \in Nat
  BY <1>3, PlaceType
<1> QED BY <1>1, <1>2, <1>4

\* Arrivals that are not polled any more do no harm.
LEMMA CountedGrows ==
  ASSUME IsFiniteSet(sent), executed \subseteq sent, NEW q \in Procs, Counted(q),
         executed' = executed, m_recvCounts'[q] = m_recvCounts[q],
         m_recvCounts[q] \in [0..(RingSize - 1) -> Nat],
         Counting(q)' = Counting(q), cqRemote'[q] \subseteq cqRemote[q]
  PROVE  Counted(q)'
<1> SUFFICES ASSUME NEW c \in 0..(RingSize - 1)
             PROVE  m_recvCounts[q][c] <= Cardinality(Arrived(q, c)')
  BY DEF Counted
<1>1. Arrived(q, c) \subseteq Arrived(q, c)' /\ Arrived(q, c)' \subseteq sent
  BY DEF Arrived
<1>2. IsFiniteSet(Arrived(q, c)')
  BY <1>1, FS_Subset
<1>3. /\ Cardinality(Arrived(q, c)) <= Cardinality(Arrived(q, c)')
      /\ Cardinality(Arrived(q, c)) \in Nat /\ Cardinality(Arrived(q, c)') \in Nat
  BY <1>1, <1>2, FS_Subset, FS_CardinalityType
<1>4. m_recvCounts[q][c] <= Cardinality(Arrived(q, c)) /\ m_recvCounts[q][c] \in Nat
  BY DEF Counted
<1> QED BY <1>3, <1>4

\* Calls, votes, reconnections and the first parts of sync.
LEMMA Unmoved ==
  ASSUME CallsType, Conserved, CountType,
         NEW p \in Procs, (\E c : Enter(p, c)) \/ UNCHANGED calls,
         NEW q \in Procs, Delivery(q), UNCHANGED <<program, sent, executed>>,
         UNCHANGED <<step[q], m_recvCounts[q], m_sync_counter[q], m_numMsgsSync[q],
                     m_sync_cached[q], m_sync_cached_value[q], syncRequest[q]>>,
         \/ at'[q] = at[q]
         \/ at[q] \notin {"sum", "wait"} /\ at'[q] \notin {"sum", "wait"},
         cqRemote'[q] \subseteq cqRemote[q]
  PROVE  Delivery(q)'
<1>1. Counting(q)' = Counting(q) /\ Until(q)' = Until(q)
  BY DEF Counting, Until, Awaiting
<1>2. Numbered(q)'
  BY DEF Delivery, Numbered
<1>3. Booked(q)'
  <2>1. SentBy(q, step[q])' = SentBy(q, step[q])
    BY DEF SentBy
  <2>2. m_numMsgsSync'[q] = IF at'[q] \in {"sum", "wait"} THEN {} ELSE SentBy(q, step[q])'
    BY <2>1 DEF Delivery, Booked
  <2>3. ASSUME NEW s \in 0..Len(program), Takes(program, s, "sum"), Past(q, s)'
        PROVE  /\ Place(program, Moment(s, "sum")) <= LastCall(q)'
               /\ calls'[q][Place(program, Moment(s, "sum"))].counts = SentBy(q, s)'
    <3>1. /\ Place(program, Moment(s, "sum")) <= LastCall(q)
          /\ calls[q][Place(program, Moment(s, "sum"))].counts = SentBy(q, s)
      BY <2>3 DEF Delivery, Booked, Past
    <3>2. SentBy(q, s)' = SentBy(q, s)
      BY DEF SentBy
    <3> QED BY <2>3, <3>1, <3>2, ExchangedKept
  <2> QED BY <2>2, <2>3 DEF Booked
<1>4. Cached(q)'
  BY <1>1 DEF Delivery, Cached
<1>5. Expecting(q)'
  BY DEF Delivery, Expecting, Awaiting, Superstep
<1>6. Served(q)'
  BY <1>1 DEF Delivery, Served, IsDelivered
<1>7. Counted(q)'
  BY <1>1, CountedGrows DEF Delivery, Conserved, CountType
<1>8. Fenced(q)'
  BY FencedKept DEF Delivery
<1> QED BY <1>2, <1>3, <1>4, <1>5, <1>6, <1>7, <1>8 DEF Delivery

LEMMA PreparingKeeps ==
  ASSUME IInv, DeliveryInv, NEW p \in Procs,
         \/ resizeMesgQueue(p) \/ sync(p) \/ Return(p) \/ VoteFailed(p)
         \/ (SyncVoted(p) \/ reconnectQPs(p) \/ SyncReconnected(p)) /\ UNCHANGED spmdVars
         \/ PollLocal(p) \/ PollBlock(p)
  PROVE  DeliveryInv'
<1>1. (\E c : Enter(p, c)) \/ UNCHANGED calls
  BY DEF resizeMesgQueue, resizeMesgq, sync, Return, SyncEnter, VoteFailed, SyncAborted,
     SyncVoted, reconnectQPs, SyncReconnected, PollLocal, PollBlock, Poll, doLocalProgress,
     processBlock
<1>2. /\ UNCHANGED <<program, step, sent, executed, m_recvCounts, m_sync_counter,
                     m_numMsgsSync, m_sync_cached, m_sync_cached_value, syncRequest>>
  <2>1. CASE resizeMesgQueue(p) \/ sync(p) \/ Return(p) \/ VoteFailed(p)
    BY <2>1 DEF resizeMesgQueue, resizeMesgq, sync, Return, SyncEnter, VoteFailed, SyncAborted
  <2>2. CASE (SyncVoted(p) \/ reconnectQPs(p) \/ SyncReconnected(p)) /\ UNCHANGED spmdVars
    BY <2>2 DEF SyncVoted, reconnectQPs, SyncReconnected, DestroyQPs
  <2>3. CASE PollLocal(p) \/ PollBlock(p)
    BY <2>3 DEF PollLocal, PollBlock, Poll, doLocalProgress, processBlock
  <2> QED BY <2>1, <2>2, <2>3
<1>3. ASSUME NEW q \in Procs
      PROVE  \/ at'[q] = at[q]
             \/ at[q] \notin {"sum", "wait"} /\ at'[q] \notin {"sum", "wait"}
  <2>1. at \in [Procs -> Locations]
    BY DEF IInv, TypeOK, SyncType
  <2>2. CASE resizeMesgQueue(p) \/ PollLocal(p) \/ PollBlock(p)
    BY <2>2 DEF resizeMesgQueue, resizeMesgq, PollLocal, PollBlock, Poll, doLocalProgress,
       processBlock
  <2>3. CASE sync(p) \/ Return(p)
    BY <2>1, <2>3 DEF sync, Return, SyncEnter
  <2>4. CASE VoteFailed(p) \/ SyncVoted(p) \/ reconnectQPs(p) \/ SyncReconnected(p)
    BY <2>1, <2>4 DEF VoteFailed, SyncAborted, SyncVoted, VoteOver, reconnectQPs, SyncReconnected
  <2> QED BY <2>2, <2>3, <2>4
<1>4. ASSUME NEW q \in Procs
      PROVE  cqRemote'[q] \subseteq cqRemote[q]
  <2>1. CASE reconnectQPs(p)
    BY <2>1 DEF reconnectQPs, DestroyQPs, IInv, TypeOK, MachineType
  <2>2. CASE ~ reconnectQPs(p)
    <3>1. cqRemote' = cqRemote
      BY <2>2 DEF resizeMesgQueue, resizeMesgq, sync, Return, SyncEnter, VoteFailed, SyncAborted,
         SyncVoted, SyncReconnected, PollLocal, PollBlock, Poll, doLocalProgress, processBlock
    <3> QED BY <3>1
  <2> QED BY <2>1, <2>2
<1>5. \A w \in sent' : Stamped(w)'
  BY <1>2 DEF DeliveryInv, Stamped
<1>6. CallsType /\ Conserved /\ CountType
  BY DEF IInv, TypeOK
<1>7. ASSUME NEW q \in Procs
      PROVE  Delivery(q)'
  <2>1. Delivery(q)
    BY DEF DeliveryInv, Delivery
  <2> QED BY <1>1, <1>2, <1>3, <1>4, <1>6, <2>1, Unmoved
<1> QED BY <1>5, <1>7 DEF DeliveryInv, Delivery

\* talpf_put and its like: nobody has stopped waiting for what is issued now.
LEMMA CommunicateKeeps ==
  ASSUME IInv, DeliveryInv, NEW p \in Procs, Communicate(p)
  PROVE  DeliveryInv'
<1>1. PICK r \in Pending(p) : Post(r, step[p])
  BY DEF Communicate, put, get, atomic_fetch_and_add, atomic_cmp_and_swp
<1>0. PICK w : w = [req |-> r, step |-> step[p], imm |-> m_sync_counter[r.src]]
  OBVIOUS
<1>2. /\ at[p] = "out" /\ step[p] < Len(program)
      /\ UNCHANGED <<program, step, executed, cqRemote, calls, m_recvCounts, m_sync_counter,
                     m_sync_cached, m_sync_cached_value, syncRequest, at>>
      /\ sent' = sent \cup {w}
      /\ m_numMsgsSync' = [m_numMsgsSync EXCEPT ![p] = @ \cup {w}]
  <2>1. r.src = p
    BY DEF Pending
  <2>2. wire \subseteq sent
    BY DEF IInv, Conserved
  <2>3. wire' = wire \cup {w} /\ sent' = sent \cup wire'
    BY <1>0, <1>1 DEF Communicate, Post
  <2>4. sent' = sent \cup {w}
    BY <2>2, <2>3
  <2>5. /\ at[p] = "out" /\ step[p] < Len(program)
        /\ UNCHANGED <<program, step, executed, cqRemote, calls, m_recvCounts, m_sync_counter,
                       m_sync_cached, m_sync_cached_value, syncRequest, at>>
    BY <1>1 DEF Communicate, Computing, Post
  <2>6. m_numMsgsSync' = [m_numMsgsSync EXCEPT ![p] = @ \cup {w}]
    BY <1>0, <1>1, <2>1 DEF Post
  <2> QED BY <2>4, <2>5, <2>6
<1>3. /\ r \in program[step[p] + 1].rma /\ r.src = p
      /\ \A v \in sent : ~ (v.req = r /\ v.step = step[p])
  BY DEF Pending, Superstep
<1>4. w.req = r /\ w.step = step[p] /\ w.imm = step[p]
  BY <1>0, <1>2, <1>3 DEF DeliveryInv, Numbered
<1>5. \A v \in sent' : Stamped(v)'
  <2>1. \A v \in sent : Stamped(v)'
    BY <1>2 DEF DeliveryInv, Stamped
  <2>2. step[p] \in Nat
    BY DEF IInv, TypeOK, SpmdType
  <2>3. Stamped(w)'
    BY <1>2, <1>3, <1>4, <2>2 DEF Stamped
  <2> QED BY <1>2, <2>1, <2>3
<1>6. ASSUME NEW q \in Procs
      PROVE  Numbered(q)' /\ Cached(q)' /\ Expecting(q)' /\ Counted(q)' /\ Fenced(q)'
  <2>1. Numbered(q)'
    BY <1>2 DEF DeliveryInv, Numbered
  <2>2. Cached(q)'
    BY <1>2 DEF DeliveryInv, Cached, Until
  <2>3. Expecting(q)'
    BY <1>2 DEF DeliveryInv, Expecting, Awaiting, Superstep
  <2>4. Counted(q)'
    <3>1. \A c : Arrived(q, c)' = Arrived(q, c)
      BY <1>2 DEF Arrived, Counting, Awaiting
    <3> QED BY <1>2, <3>1 DEF DeliveryInv, Counted
  <2>5. Fenced(q)'
    BY <1>2 DEF DeliveryInv, Fenced, LastCall
  <2> QED BY <2>1, <2>2, <2>3, <2>4, <2>5
<1>7. ASSUME NEW q \in Procs
      PROVE  Booked(q)'
  <2>1. SentBy(q, step[q])' = IF q = p THEN SentBy(q, step[q]) \cup {w} ELSE SentBy(q, step[q])
    BY <1>2, <1>3, <1>4 DEF SentBy
  <2>2. m_numMsgsSync'[q] = IF at[q] \in {"sum", "wait"} THEN {} ELSE SentBy(q, step[q])'
    <3>1. m_numMsgsSync \in [Procs -> SUBSET WorkRequests]
      BY DEF IInv, TypeOK, CountType
    <3>2. m_numMsgsSync[q] = IF at[q] \in {"sum", "wait"} THEN {} ELSE SentBy(q, step[q])
      BY DEF DeliveryInv, Booked
    <3>3. CASE q = p
      BY <1>2, <2>1, <3>1, <3>2, <3>3
    <3>4. CASE q # p
      BY <1>2, <2>1, <3>1, <3>2, <3>4
    <3> QED BY <3>3, <3>4
  <2>3. ASSUME NEW s \in 0..Len(program), Past(q, s)
        PROVE  SentBy(q, s)' = SentBy(q, s)
    <3>1. ~ (q = p /\ s = step[p])
      BY <1>2, <2>3 DEF Past, IInv, TypeOK, SpmdType
    <3> QED BY <1>2, <1>3, <1>4, <3>1 DEF SentBy
  <2>4. ASSUME NEW s \in 0..Len(program), Takes(program, s, "sum"), Past(q, s)
        PROVE  /\ Place(program, Moment(s, "sum")) <= LastCall(q)
               /\ calls[q][Place(program, Moment(s, "sum"))].counts = SentBy(q, s)'
    BY <2>3, <2>4 DEF DeliveryInv, Booked
  <2> QED BY <1>2, <2>2, <2>4 DEF Booked, Past, LastCall
<1>8. ASSUME NEW q \in Procs
      PROVE  Served(q)'
  <2>1. Counting(q)' = Counting(q)
    BY <1>2 DEF Counting, Awaiting
  <2>2. ASSUME r.dst = q, step[p] < Counting(q)
        PROVE  FALSE
    <3>1. step[p] \in 0..(Counting(q) - 1)
      BY <2>2 DEF Counting, IInv, TypeOK, SpmdType
    <3>2. IsDelivered(r, step[p])
      BY <1>3, <2>2, <3>1 DEF DeliveryInv, Served
    <3>3. executed \subseteq sent
      BY DEF IInv, Conserved
    <3> QED BY <1>3, <3>2, <3>3 DEF IsDelivered
  <2>3. \A v \in sent' : v.req.dst = q /\ v.step < Counting(q) =>
          v \in executed /\ v \notin cqRemote[q]
    BY <1>2, <1>4, <2>2 DEF DeliveryInv, Served
  <2>4. Served(q)
    BY DEF DeliveryInv
  <2> QED BY <1>2, <2>1, <2>3, <2>4 DEF Served, IsDelivered
<1> QED BY <1>5, <1>6, <1>7, <1>8 DEF DeliveryInv

----------------------------------------------------------------------------
(* How many arrivals are to be expected *)

LEMMA DeliveryOthers ==
  ASSUME IInv, DeliveryInv, NEW p \in Procs, (\E c : Enter(p, c)) \/ UNCHANGED calls,
         UNCHANGED <<program, sent, executed, cqRemote>>, Delivery(p)',
         \A q \in Procs : step'[q] \in Nat /\ step[q] <= step'[q],
         \A q \in Procs \ {p} :
           UNCHANGED <<step[q], at[q], m_recvCounts[q], m_sync_counter[q], m_numMsgsSync[q],
                       m_sync_cached[q], m_sync_cached_value[q], syncRequest[q]>>
  PROVE  DeliveryInv'
<1>1. CallsType /\ Conserved /\ CountType
  BY DEF IInv, TypeOK
<1>2. ASSUME NEW q \in Procs \ {p}
      PROVE  Delivery(q)'
  <2>1. Delivery(q)
    BY DEF DeliveryInv, Delivery
  <2> QED BY <1>1, <2>1, Unmoved
<1>3. ASSUME NEW w \in sent
      PROVE  Stamped(w)'
  <2>1. w.req.src \in Procs /\ w.step \in Nat
    BY DEF IInv, TypeOK, SpmdType, WorkRequests, Requests
  <2>2. step[w.req.src] \in Nat /\ step'[w.req.src] \in Nat /\ step[w.req.src] <= step'[w.req.src]
    BY <2>1 DEF IInv, TypeOK, SpmdType
  <2>3. Stamped(w)
    BY DEF DeliveryInv
  <2>4. w.step <= step'[w.req.src]
    BY <2>1, <2>2, <2>3 DEF Stamped
  <2> QED BY <2>3, <2>4 DEF Stamped
<1> QED BY <1>2, <1>3 DEF DeliveryInv, Delivery

\* The calls for the exchange of superstep s were made where the process says.
LEMMA SumPlace ==
  ASSUME TypeOK, OrderInv, NEW p \in Procs, at[p] = "sum"
  PROVE  LastCall(p) = Place(program, Moment(step[p], "sum"))
<1>1. Reached(p) = Moment(step[p], "sum")
  BY DEF Reached, Stage, Moment, Rank
<1> QED BY <1>1 DEF OrderInv, Ordered

\* allreduceSum: all have issued the superstep and nothing else is counted.
LEMMA SumIsInbound ==
  ASSUME IInv, OrderInv, DeliveryInv, NEW p \in Procs, at[p] = "sum", Completed(p)
  PROVE  SumFor(p) = Inbound(Superstep(p), p)
<1> DEFINE s == step[p]
           n == LastCall(p)
<1>1. program \in Programs /\ TypeOK /\ s \in Nat /\ s < Len(program) /\ s \in 0..Len(program)
  <2>1. run[p] = "spmd"
    BY DEF IInv, TypeOK, SpmdType, Phases, Phase
  <2>2. s < Len(program)
    BY <2>1 DEF IInv, Phases, Phase
  <2>3. s \in Nat /\ Len(program) \in Nat
    BY DEF IInv, TypeOK, SpmdType
  <2> QED BY <2>2, <2>3 DEF IInv
<1>2. Takes(program, s, "sum") /\ n = Place(program, Moment(s, "sum"))
  BY <1>1, SumPlace DEF OrderInv, Situated
<1>3. ASSUME NEW q \in Procs
      PROVE  /\ calls[q][n].counts = SentBy(q, s)
             /\ s < step[q] \/ (s = step[q] /\ AtItsEnd(q))
  <2>1. n <= LastCall(q)
    BY DEF Completed, LastCall
  <2>2. Moment(s, "sum") <= Reached(q)
    BY <1>1, <1>2, <2>1, CallAt DEF CollectiveOps
  <2>3. Stage(q) \in -1..4 /\ step[q] \in Nat
    BY <1>1, ReachedType
  <2>4. 5 * s + 3 <= 5 * step[q] + Stage(q)
    BY <2>2 DEF Moment, Rank, Reached
  <2>5. s < step[q] \/ (s = step[q] /\ 3 <= Stage(q))
    BY <1>1, <2>3, <2>4
  <2>6. 3 <= Stage(q) => at[q] \in {"sum", "wait"}
    BY DEF Stage, IInv, TypeOK, SyncType, Locations
  <2>7. at[q] \in {"sum", "wait"} => AtItsEnd(q)
    BY DEF AtItsEnd, IInv, TypeOK, SpmdType, Phases, Phase
  <2>8. Past(q, s)
    BY <2>5, <2>6 DEF Past
  <2>9. calls[q][n].counts = SentBy(q, s)
    BY <1>1, <1>2, <2>8 DEF DeliveryInv, Booked
  <2> QED BY <2>5, <2>6, <2>7, <2>9
<1>4. {w \in UNION {Contributions(p)[q].counts : q \in Procs} : w.req.dst = p} = SentTo(p, s)
  <2>1. \A q \in Procs : Contributions(p)[q].counts = SentBy(q, s)
    BY <1>3 DEF Contributions
  <2>2. \A w \in sent : w.req.src \in Procs
    BY <1>1 DEF TypeOK, SpmdType, WorkRequests, Requests
  <2> HIDE DEF s
  <2>3. UNION {Contributions(p)[q].counts : q \in Procs} = {w \in sent : w.step = s}
    BY <2>1, <2>2 DEF SentBy
  <2> QED BY <2>3 DEF SentTo
<1>5. ASSUME NEW r \in program[s + 1].rma
      PROVE  \E w \in sent : w.req = r /\ w.step = s
  <2>1. r.src \in Procs
    <3>1. s + 1 \in DOMAIN program
      BY <1>1
    <3>2. program[s + 1] \in Supersteps
      BY <1>1, <3>1 DEF TypeOK, SpmdType
    <3>3. program[s + 1].rma \subseteq Requests
      BY <3>2 DEF Supersteps
    <3> QED BY <3>3 DEF Requests
  <2>2. s \in 0..(Len(program) - 1)
    BY <1>1
  <2> QED BY <1>3, <2>1, <2>2 DEF IInv, AllIssued
<1>6. /\ s \in 0..(Len(program) - 1) /\ IsFiniteSet(sent) /\ \A w \in sent : Stamped(w)
  BY <1>1 DEF IInv, Conserved, DeliveryInv
<1> HIDE DEF s
<1>7. Cardinality(SentTo(p, s)) = Inbound(program[s + 1], p)
  BY <1>1, <1>5, <1>6, SentToBound
<1> QED BY <1>4, <1>7 DEF SumFor, Superstep, s

\* LPF_SYNC_CACHED: the cached number is that of this superstep, too.
LEMMA CacheIsInbound ==
  ASSUME IInv, OrderInv, DeliveryInv, NEW p \in Procs, at[p] = "drain",
         step[p] < Len(program), Superstep(p).mode = "CACHED", m_sync_cached[p]
  PROVE  m_sync_cached_value[p] = Inbound(Superstep(p), p)
<1>1. step[p] \in Nat /\ step[p] < Len(program) /\ Len(program) \in Nat
  BY DEF IInv, TypeOK, SpmdType
<1>2. PICK t \in 0..(step[p] - 1) :
        /\ program[t + 1].mode = "CACHED"
        /\ \A u \in t..(step[p] - 1) : program[u + 1].mode # "DEFAULT"
        /\ m_sync_cached_value[p] = Inbound(program[t + 1], p)
  BY DEF DeliveryInv, Cached, Until
<1>3. LegalProgram(program)
  BY ProgramsAssumption DEF IInv
<1>4. t + 1 \in DOMAIN program /\ step[p] + 1 \in DOMAIN program /\ t + 1 < step[p] + 1
  BY <1>1
<1>5. ASSUME NEW u \in (t + 1)..(step[p] + 1)
      PROVE  program[u].mode # "DEFAULT"
  <2>1. CASE u = step[p] + 1
    BY <2>1 DEF Superstep
  <2>2. CASE u # step[p] + 1
    <3>1. u - 1 \in t..(step[p] - 1) /\ u = (u - 1) + 1
      BY <1>1, <2>2
    <3> QED BY <1>2, <3>1
  <2> QED BY <2>1, <2>2
<1>6. Inbound(program[t + 1], p) = Inbound(program[step[p] + 1], p)
  BY <1>2, <1>3, <1>4, <1>5 DEF LegalProgram, Superstep
<1> QED BY <1>2, <1>6 DEF Superstep

\* IBVerbs::sync hands its request over: the number in it is right.
LEMMA ReturnsKeeps ==
  ASSUME IInv, OrderInv, DeliveryInv, OrderInv', NEW p \in Procs, SyncReturns(p)
  PROVE  DeliveryInv'
<1> DEFINE S == Superstep(p)
<1>1. /\ UNCHANGED <<program, step, sent, executed, cqRemote, calls, m_recvCounts, m_sync_counter>>
      /\ at[p] \in {"drain", "sum"} /\ at' = [at EXCEPT ![p] = "wait"]
  BY DEF SyncReturns, SyncKnown, SyncExchanged, Drained, Activate
<1>2. /\ step[p] \in Nat /\ step[p] < Len(program) /\ at'[p] = "wait"
      /\ S \in Supersteps /\ program \in Programs
      /\ \A q \in Procs \ {p} : at'[q] = at[q]
  <2>1. at \in [Procs -> Locations] /\ step[p] \in Nat
    BY DEF IInv, TypeOK, SyncType, SpmdType
  <2>2. run[p] = "spmd"
    BY <1>1 DEF IInv, TypeOK, SpmdType, Phases, Phase
  <2>3. step[p] < Len(program)
    BY <1>1, <2>2 DEF IInv, Phases, Phase
  <2>4. S \in Supersteps
    BY <2>3, SuperstepFacts DEF IInv
  <2> QED BY <1>1, <2>1, <2>3, <2>4 DEF IInv
<1>3. ~ syncRequest[p].isActive /\ ~ syncRequest[p].secondPhase
  BY <1>1 DEF OrderInv, Situated, IInv, Phases, Phase
\* What either way does to the request and to the cache.
<1>4. /\ m_numMsgsSync'[p] = {} /\ \A q \in Procs \ {p} : m_numMsgsSync'[q] = m_numMsgsSync[q]
      /\ syncRequest'[p].isActive /\ ~ syncRequest'[p].secondPhase
      /\ syncRequest'[p].remoteMsgs = Inbound(S, p)
      /\ \A q \in Procs \ {p} :
           UNCHANGED <<syncRequest[q], m_sync_cached[q], m_sync_cached_value[q]>>
      /\ \/ /\ at[p] = "drain" /\ UNCHANGED <<m_sync_cached[p], m_sync_cached_value[p]>>
            /\ S.mode # "DEFAULT" /\ ~ Takes(program, step[p], "sum")
         \/ /\ at[p] = "sum" /\ m_sync_cached_value'[p] = Inbound(S, p)
            /\ m_sync_cached'[p] => S.mode # "DEFAULT"
  <2>1. /\ syncRequest[p] \in [isActive : BOOLEAN, withBarrier : BOOLEAN,
                               secondPhase : BOOLEAN, remoteMsgs : Nat]
        /\ DOMAIN syncRequest = Procs /\ DOMAIN m_numMsgsSync = Procs
        /\ DOMAIN m_sync_cached = Procs /\ DOMAIN m_sync_cached_value = Procs
        /\ m_sync_cached[p] \in BOOLEAN
    BY DEF IInv, TypeOK, SyncType, CountType
  <2>2. CASE SyncKnown(p, S.mode, S.barrier, Inbound(S, p))
    <3> DEFINE v == IF S.mode = "CACHED" THEN m_sync_cached_value[p] ELSE Inbound(S, p)
    <3>1. /\ at[p] = "drain" /\ m_numMsgsSync' = [m_numMsgsSync EXCEPT ![p] = {}]
          /\ S.mode # "DEFAULT" /\ (S.mode = "CACHED" => m_sync_cached[p])
          /\ syncRequest' = [syncRequest EXCEPT ![p] = Request(@, S.barrier, v)]
          /\ UNCHANGED <<m_sync_cached, m_sync_cached_value>>
      BY <2>2 DEF SyncKnown, Drained, Exchanges, Activate
    <3>2. v = Inbound(S, p)
      BY <1>2, <3>1, CacheIsInbound
    <3> HIDE DEF v
    <3>3. /\ syncRequest'[p].isActive /\ ~ syncRequest'[p].secondPhase
          /\ syncRequest'[p].remoteMsgs = v
          /\ \A q \in Procs \ {p} : syncRequest'[q] = syncRequest[q]
      BY <1>3, <2>1, <3>1 DEF Request
    <3>4. ~ Takes(program, step[p], "sum")
      <4>1. m_sync_cached[p] = CacheValid(program, step[p])
        BY <3>1 DEF OrderInv, Situated
      <4> QED BY <1>2, <3>1, <4>1 DEF Takes, Superstep
    <3> QED BY <2>1, <3>1, <3>2, <3>3, <3>4
  <2>3. CASE SyncExchanged(p, S.mode, S.barrier)
    <3>1. /\ at[p] = "sum" /\ Completed(p) /\ m_numMsgsSync' = m_numMsgsSync
          /\ m_sync_cached' = [m_sync_cached EXCEPT ![p] = @ /\ S.mode # "DEFAULT"]
          /\ m_sync_cached_value' = [m_sync_cached_value EXCEPT ![p] = SumFor(p)]
          /\ syncRequest' = [syncRequest EXCEPT ![p] = Request(@, S.barrier, SumFor(p))]
      BY <2>3 DEF SyncExchanged, Activate
    <3>2. SumFor(p) = Inbound(S, p)
      BY <3>1, SumIsInbound
    <3>3. /\ syncRequest'[p].isActive /\ ~ syncRequest'[p].secondPhase
          /\ syncRequest'[p].remoteMsgs = SumFor(p)
          /\ \A q \in Procs \ {p} : syncRequest'[q] = syncRequest[q]
      BY <1>3, <2>1, <3>1 DEF Request
    <3>4. m_numMsgsSync[p] = {}
      BY <3>1 DEF DeliveryInv, Booked
    <3>5. m_sync_cached'[p] => S.mode # "DEFAULT"
      BY <2>1, <3>1
    <3> QED BY <2>1, <3>1, <3>2, <3>3, <3>4, <3>5
  <2> QED BY <2>2, <2>3 DEF SyncReturns
<1>5. Numbered(p)'
  BY <1>1, <1>2, <1>3, <1>4 DEF DeliveryInv, Numbered
<1>6. Booked(p)'
  <2>1. ASSUME NEW s \in 0..Len(program), Takes(program, s, "sum"), Past(p, s)'
        PROVE  Past(p, s)
    BY <1>1, <1>2, <1>4, <2>1 DEF Past
  <2>2. Booked(p)
    BY DEF DeliveryInv
  <2> QED BY <1>1, <1>2, <1>4, <2>1, <2>2 DEF Booked, SentBy, LastCall
<1>7. Cached(p)'
  <2>1. Until(p)' = step[p] + 1
    BY <1>1, <1>2 DEF Until
  <2> SUFFICES ASSUME m_sync_cached'[p]
               PROVE  \E t \in 0..step[p] :
                        /\ program[t + 1].mode = "CACHED"
                        /\ \A u \in t..step[p] : program[u + 1].mode # "DEFAULT"
                        /\ m_sync_cached_value'[p] = Inbound(program[t + 1], p)
    BY <1>1, <1>2, <2>1 DEF Cached
  <2>2. CASE at[p] = "drain"
    <3>1. PICK t \in 0..(step[p] - 1) :
            /\ program[t + 1].mode = "CACHED"
            /\ \A u \in t..(step[p] - 1) : program[u + 1].mode # "DEFAULT"
            /\ m_sync_cached_value[p] = Inbound(program[t + 1], p)
      BY <1>4, <2>2 DEF DeliveryInv, Cached, Until
    <3>2. \A u \in t..step[p] : u \in t..(step[p] - 1) \/ u = step[p]
      BY <1>2
    <3>3. \A u \in t..step[p] : program[u + 1].mode # "DEFAULT"
      BY <1>4, <2>2, <3>1, <3>2 DEF Superstep
    <3> QED BY <1>2, <1>4, <2>2, <3>1, <3>3, SMTT(20)
  <2>3. CASE at[p] = "sum"
    <3>1. Takes(program, step[p], "sum")
      BY <2>3 DEF OrderInv, Situated
    <3>2. S.mode = "CACHED"
      BY <1>2, <1>4, <2>3, <3>1 DEF Takes, Superstep
    <3>3. /\ step[p] \in 0..step[p]
          /\ \A u \in step[p]..step[p] : u = step[p]
      BY <1>2
    <3> QED BY <1>4, <2>3, <3>2, <3>3 DEF Superstep
  <2> QED BY <1>1, <2>2, <2>3
<1>8. Expecting(p)'
  BY <1>1, <1>4 DEF Expecting, Superstep
<1>9. Counting(p)' = Counting(p)
  BY <1>1, <1>2, <1>4 DEF Counting, Awaiting
<1>10. Served(p)'
  BY <1>1, <1>9 DEF DeliveryInv, Served, IsDelivered
<1>11. Counted(p)'
  BY <1>1, <1>9, CountedGrows DEF DeliveryInv, IInv, Conserved, TypeOK, CountType
<1>12. Fenced(p)'
  BY <1>1 DEF DeliveryInv, Fenced, LastCall
<1>13. Delivery(p)'
  BY <1>5, <1>6, <1>7, <1>8, <1>10, <1>11, <1>12 DEF Delivery
<1>14. \A q \in Procs : step'[q] \in Nat /\ step[q] <= step'[q]
  BY <1>1 DEF IInv, TypeOK, SpmdType
<1> QED BY <1>1, <1>2, <1>4, <1>13, <1>14, DeliveryOthers

\* IBVerbs::sync contributes its counters to the exchange: they hold what it sent.
LEMMA ExchangeKeeps ==
  ASSUME IInv, OrderInv, DeliveryInv, OrderInv', NEW p \in Procs,
         SyncExchange(p, Superstep(p).mode), UNCHANGED spmdVars
  PROVE  DeliveryInv'
<1> DEFINE c == Call("sum", FALSE, FALSE, m_numMsgsSync[p])
<1>1. /\ UNCHANGED <<program, step, sent, executed, cqRemote, m_recvCounts, m_sync_counter,
                     m_sync_cached_value, syncRequest>>
      /\ at[p] = "drain" /\ at' = [at EXCEPT ![p] = "sum"]
      /\ m_numMsgsSync' = [m_numMsgsSync EXCEPT ![p] = {}]
      /\ Enter(p, c)
      /\ \A q \in Procs \ {p} : m_sync_cached'[q] = m_sync_cached[q]
  BY DEF SyncExchange, Drained, Contribution, IInv, TypeOK, SyncType
<1>2. /\ at'[p] = "sum" /\ m_numMsgsSync'[p] = {}
      /\ \A q \in Procs \ {p} : at'[q] = at[q] /\ m_numMsgsSync'[q] = m_numMsgsSync[q]
      /\ step[p] \in Nat /\ ~ syncRequest[p].isActive
  <2>1. /\ at \in [Procs -> Locations] /\ m_numMsgsSync \in [Procs -> SUBSET WorkRequests]
        /\ step[p] \in Nat
    BY DEF IInv, TypeOK, SyncType, CountType, SpmdType
  <2>2. ~ syncRequest[p].isActive
    BY <1>1 DEF IInv, Phases, Phase
  <2> QED BY <1>1, <2>1, <2>2
<1>3. CallsType /\ Conserved /\ CountType
  BY DEF IInv, TypeOK
<1>4. calls'[p][LastCall(p)'].counts = SentBy(p, step[p])
  <2>1. m_numMsgsSync[p] = SentBy(p, step[p])
    BY <1>1 DEF DeliveryInv, Booked
  <2>2. calls'[p][LastCall(p)'] = c
    BY <1>1, <1>3, EnterLast DEF LastCall
  <2> QED BY <2>1, <2>2 DEF Call
<1>5. LastCall(p)' = Place(program, Moment(step[p], "sum")) /\ LastCall(p)' \in Nat
  <2>1. LastCall(p)' = Place(program', Reached(p)')
    BY DEF OrderInv, Ordered
  <2>2. Reached(p)' = Moment(step[p], "sum")
    BY <1>1, <1>2 DEF Reached, Stage, Moment, Rank
  <2>3. LastCall(p)' \in Nat
    BY <1>1, <1>3, CallsGrow
  <2> QED BY <1>1, <2>1, <2>2, <2>3
<1>6. Numbered(p)'
  BY <1>1, <1>2 DEF DeliveryInv, Numbered
<1>7. Booked(p)'
  <2>1. ASSUME NEW s \in 0..Len(program), Takes(program, s, "sum"), Past(p, s)'
        PROVE  /\ Place(program, Moment(s, "sum")) <= LastCall(p)'
               /\ calls'[p][Place(program, Moment(s, "sum"))].counts = SentBy(p, s)
    <3>1. CASE s = step[p]
      BY <1>4, <1>5, <3>1
    <3>2. CASE s # step[p]
      <4>1. Past(p, s)
        BY <1>1, <2>1, <3>2 DEF Past
      <4>2. /\ Place(program, Moment(s, "sum")) <= LastCall(p)
            /\ calls[p][Place(program, Moment(s, "sum"))].counts = SentBy(p, s)
        BY <2>1, <4>1 DEF DeliveryInv, Booked
      <4> QED BY <1>1, <1>3, <2>1, <4>2, ExchangedKept
    <3> QED BY <3>1, <3>2
  <2> QED BY <1>1, <1>2, <2>1 DEF Booked, SentBy
<1>8. Cached(p)'
  BY <1>2 DEF Cached
<1>9. Expecting(p)'
  BY <1>1, <1>2 DEF Expecting, Awaiting
<1>10. Counting(p)' = Counting(p)
  BY <1>1, <1>2 DEF Counting, Awaiting
<1>11. Served(p)'
  BY <1>1, <1>10 DEF DeliveryInv, Served, IsDelivered
<1>12. Counted(p)'
  BY <1>1, <1>10, CountedGrows DEF DeliveryInv, IInv, Conserved, TypeOK, CountType
<1>13. Fenced(p)'
  BY <1>1, <1>3, FencedKept DEF DeliveryInv
<1>14. Delivery(p)'
  BY <1>6, <1>7, <1>8, <1>9, <1>11, <1>12, <1>13 DEF Delivery
<1>15. \A q \in Procs : step'[q] \in Nat /\ step[q] <= step'[q]
  BY <1>1 DEF IInv, TypeOK, SpmdType
<1> QED BY <1>1, <1>2, <1>14, <1>15, DeliveryOthers

\* The sync task completes: nothing of the next superstep has been sent.
LEMMA DoneKeeps ==
  ASSUME IInv, OrderInv, DeliveryInv, NEW p \in Procs, SyncDone(p)
  PROVE  DeliveryInv'
<1>1. /\ UNCHANGED <<program, calls, sent, executed, cqRemote, m_recvCounts, m_sync_counter,
                     m_numMsgsSync, m_sync_cached, m_sync_cached_value, syncRequest>>
      /\ at[p] = "wait" /\ syncEvents[p] = 0
      /\ at' = [at EXCEPT ![p] = "out"] /\ step' = [step EXCEPT ![p] = @ + 1]
  BY DEF SyncDone, SyncReleased
<1>2. /\ at'[p] = "out" /\ step'[p] = step[p] + 1 /\ step[p] \in Nat
      /\ \A q \in Procs \ {p} : at'[q] = at[q] /\ step'[q] = step[q]
      /\ ~ syncRequest[p].isActive
  <2>1. /\ at \in [Procs -> Locations] /\ step \in [Procs -> Nat]
    BY DEF IInv, TypeOK, SyncType, SpmdType
  <2>2. ~ syncRequest[p].isActive
    BY <1>1 DEF IInv, Phases, Phase
  <2> QED BY <1>1, <2>1, <2>2
<1>3. CallsType /\ Conserved /\ CountType
  BY DEF IInv, TypeOK
<1>4. SentBy(p, step[p] + 1) = {}
  <2> SUFFICES ASSUME NEW w \in sent, w.req.src = p, w.step = step[p] + 1
               PROVE  FALSE
    BY DEF SentBy
  <2>1. w.step <= step[p]
    BY DEF DeliveryInv, Stamped
  <2> QED BY <1>2, <2>1
<1>5. Numbered(p)'
  BY <1>1, <1>2 DEF DeliveryInv, Numbered
<1>6. Booked(p)'
  <2>1. m_numMsgsSync[p] = {}
    BY <1>1 DEF DeliveryInv, Booked
  <2>2. \A s \in 0..Len(program) : Past(p, s)' => Past(p, s)
    BY <1>1, <1>2 DEF Past
  <2>3. Booked(p)
    BY DEF DeliveryInv
  <2> QED BY <1>1, <1>2, <1>4, <2>1, <2>2, <2>3 DEF Booked, SentBy, LastCall
<1>7. Cached(p)'
  <2>1. Until(p)' = Until(p)
    BY <1>1, <1>2 DEF Until
  <2> QED BY <1>1, <1>2, <2>1 DEF DeliveryInv, Cached
<1>8. Expecting(p)'
  BY <1>1, <1>2 DEF Expecting, Awaiting
<1>9. Counting(p)' = Counting(p)
  BY <1>1, <1>2 DEF Counting, Awaiting
<1>10. Served(p)'
  BY <1>1, <1>9 DEF DeliveryInv, Served, IsDelivered
<1>11. Counted(p)'
  BY <1>1, <1>9, CountedGrows DEF DeliveryInv, IInv, Conserved, TypeOK, CountType
<1>12. Fenced(p)'
  BY <1>1 DEF DeliveryInv, Fenced, LastCall
<1>13. Delivery(p)'
  BY <1>5, <1>6, <1>7, <1>8, <1>10, <1>11, <1>12 DEF Delivery
<1>14. \A q \in Procs : step'[q] \in Nat /\ step[q] <= step'[q]
  <2>1. \A q \in Procs : step[q] \in Nat
    BY DEF IInv, TypeOK, SpmdType
  <2> QED BY <1>2, <2>1
<1> QED BY <1>1, <1>2, <1>13, <1>14, DeliveryOthers

----------------------------------------------------------------------------
(* Arrivals *)

\* doRemoteProgress counts an arrival for the superstep whose number it carries.
LEMMA PollRemoteKeeps ==
  ASSUME IInv, DeliveryInv, NEW p \in Procs, PollRemote(p)
  PROVE  DeliveryInv'
<1>1. PICK w \in cqRemote[p] :
        /\ cqRemote' = [cqRemote EXCEPT ![p] = @ \ {w}]
        /\ m_recvCounts' = [m_recvCounts EXCEPT ![p][Cell(w.imm)] = @ + 1]
  BY DEF PollRemote, Poll, doRemoteProgress
<1>2. UNCHANGED <<program, step, sent, executed, calls, m_sync_counter, m_numMsgsSync,
                  m_sync_cached, m_sync_cached_value, syncRequest, at>>
  BY DEF PollRemote, Poll, doRemoteProgress
<1>3. /\ w \in executed /\ w \in sent /\ w.req.dst = p /\ w.imm = w.step /\ w.step \in Nat
      /\ Counting(p) \in Nat /\ Counting(p) <= w.step
  <2>1. w \in executed /\ w \in sent /\ w.req.dst = p
    BY <1>1 DEF DeliveryInv, Served, IInv, Conserved
  <2>2. w.step \in Nat /\ Counting(p) \in Nat
    BY <2>1 DEF IInv, TypeOK, SpmdType, WorkRequests, Counting
  <2>3. ~ (w.step < Counting(p))
    BY <2>1 DEF DeliveryInv, Served
  <2> QED BY <2>1, <2>2, <2>3 DEF DeliveryInv, Stamped
<1>4. /\ cqRemote'[p] = cqRemote[p] \ {w}
      /\ \A q \in Procs \ {p} : UNCHANGED <<cqRemote[q], m_recvCounts[q]>>
  BY <1>1 DEF IInv, TypeOK, MachineType, CountType
<1>5. CallsType /\ Conserved /\ CountType
  BY DEF IInv, TypeOK
<1>6. ASSUME NEW q \in Procs \ {p}
      PROVE  Delivery(q)'
  <2>1. Delivery(q)
    BY DEF DeliveryInv, Delivery
  <2> QED BY <1>2, <1>4, <1>5, <2>1, Unmoved
<1>7. Counting(p)' = Counting(p)
  BY <1>2 DEF Counting, Awaiting
<1>8. Counted(p)'
  <2> SUFFICES ASSUME NEW c \in 0..(RingSize - 1)
               PROVE  m_recvCounts'[p][c] <= Cardinality(Arrived(p, c)')
    BY DEF Counted
  <2> DEFINE d == Cell(w.step)
             n == m_recvCounts[p][c]
  <2>1. d \in 0..(RingSize - 1)
    BY <1>3, CellInRing
  <2>2. /\ m_recvCounts[p] \in [0..(RingSize - 1) -> Nat] /\ n \in Nat
        /\ m_recvCounts'[p] = [m_recvCounts[p] EXCEPT ![d] = @ + 1]
    BY <1>1, <1>3 DEF IInv, TypeOK, CountType
  <2>3. n <= Cardinality(Arrived(p, c))
    BY DEF DeliveryInv, Counted
  <2>4. IsFiniteSet(Arrived(p, c)) /\ Cardinality(Arrived(p, c)) \in Nat
    <3>1. Arrived(p, c) \subseteq sent /\ IsFiniteSet(sent)
      BY DEF Arrived, IInv, Conserved
    <3> QED BY <3>1, FS_Subset, FS_CardinalityType
  <2>5. CASE c = d
    <3>1. Arrived(p, c)' = Arrived(p, c) \cup {w} /\ w \notin Arrived(p, c)
      BY <1>1, <1>2, <1>3, <1>4, <1>7, <2>5 DEF Arrived
    <3>2. Cardinality(Arrived(p, c)') = Cardinality(Arrived(p, c)) + 1
      BY <2>4, <3>1, FS_AddElement
    <3>3. m_recvCounts'[p][c] = n + 1
      BY <2>1, <2>2, <2>5
    <3> QED BY <2>2, <2>3, <2>4, <3>2, <3>3
  <2>6. CASE c # d
    <3>1. Arrived(p, c)' = Arrived(p, c)
      BY <1>1, <1>2, <1>3, <1>4, <1>7, <2>6 DEF Arrived
    <3>2. m_recvCounts'[p][c] = n
      BY <2>1, <2>2, <2>6
    <3> QED BY <2>3, <3>1, <3>2
  <2> QED BY <2>5, <2>6
<1>9. Served(p)'
  BY <1>2, <1>4, <1>7 DEF DeliveryInv, Served, IsDelivered
<1>10. Numbered(p)' /\ Cached(p)' /\ Expecting(p)' /\ Fenced(p)'
  BY <1>2 DEF DeliveryInv, Numbered, Cached, Until, Expecting, Awaiting, Superstep, Fenced,
     LastCall
<1>11. Booked(p)'
  BY <1>2 DEF DeliveryInv, Booked, SentBy, Past, LastCall
<1>12. \A v \in sent' : Stamped(v)'
  BY <1>2 DEF DeliveryInv, Stamped
<1> QED BY <1>6, <1>8, <1>9, <1>10, <1>11, <1>12 DEF DeliveryInv, Delivery

\* The fabric executes a request whose target still waits for it.
LEMMA FabricKeeps ==
  ASSUME IInv, DeliveryInv, Fabric
  PROVE  DeliveryInv'
<1>1. PICK w \in wire : Deliver(w)
  BY DEF Fabric
<1>2. /\ UNCHANGED <<program, step, sent, calls, m_recvCounts, m_sync_counter, m_numMsgsSync,
                     m_sync_cached, m_sync_cached_value, syncRequest, at>>
      /\ executed' = executed \cup {w}
      /\ cqRemote' = [cqRemote EXCEPT ![w.req.dst] = @ \cup {w}]
  BY <1>1 DEF Fabric, Deliver
<1>3. w \in sent /\ w \notin executed /\ w.req.dst \in Procs
  BY DEF IInv, Conserved, TypeOK, MachineType, WorkRequests, Requests
<1>4. ASSUME NEW q \in Procs
      PROVE  cqRemote'[q] = IF q = w.req.dst THEN cqRemote[q] \cup {w} ELSE cqRemote[q]
  BY <1>2 DEF IInv, TypeOK, MachineType
<1>5. \A v \in sent' : Stamped(v)'
  BY <1>2 DEF DeliveryInv, Stamped
<1>6. ASSUME NEW q \in Procs
      PROVE  Delivery(q)'
  <2>1. Counting(q)' = Counting(q)
    BY <1>2 DEF Counting, Awaiting
  <2>2. Numbered(q)' /\ Cached(q)' /\ Expecting(q)' /\ Fenced(q)'
    BY <1>2 DEF DeliveryInv, Numbered, Cached, Until, Expecting, Awaiting, Superstep, Fenced,
       LastCall
  <2>3. Booked(q)'
    BY <1>2 DEF DeliveryInv, Booked, SentBy, Past, LastCall
  <2>4. Served(q)'
    <3>1. Served(q)
      BY DEF DeliveryInv
    <3>2. cqRemote'[q] \subseteq executed' /\ \A v \in cqRemote'[q] : v.req.dst = q
      BY <1>2, <1>4, <3>1 DEF Served
    <3>3. \A v \in sent : v.req.dst = q /\ v.step < Counting(q) =>
            v \in executed' /\ v \notin cqRemote'[q]
      BY <1>2, <1>3, <1>4, <3>1 DEF Served
    <3>4. \A s \in 0..(Counting(q) - 1) : \A r \in program[s + 1].rma :
            r.dst = q => IsDelivered(r, s)'
      BY <1>2, <3>1 DEF Served, IsDelivered
    <3> QED BY <1>2, <2>1, <3>2, <3>3, <3>4 DEF Served
  <2>5. Counted(q)'
    <3>1. \A c : Arrived(q, c)' = Arrived(q, c)
      BY <1>2, <1>3, <1>4, <2>1 DEF Arrived
    <3> QED BY <1>2, <3>1 DEF DeliveryInv, Counted
  <2> QED BY <2>2, <2>3, <2>4, <2>5 DEF Delivery
<1> QED BY <1>5, <1>6 DEF DeliveryInv, Delivery

----------------------------------------------------------------------------
(* The end of a synchronisation *)

LEMMA SentFinite ==
  ASSUME IInv, NEW q \in Procs, NEW c
  PROVE  /\ IsFiniteSet(Arrived(q, c)) /\ Cardinality(Arrived(q, c)) \in Nat
         /\ Arrived(q, c) \subseteq sent
<1>1. Arrived(q, c) \subseteq sent /\ IsFiniteSet(sent)
  BY DEF Arrived, IInv, Conserved
<1> QED BY <1>1, FS_Subset, FS_CardinalityType

\* Where a process is that waits for arrivals.
LEMMA WaitingFacts ==
  ASSUME IInv, OrderInv, DeliveryInv, NEW p \in Procs, syncRequest[p].isActive
  PROVE  /\ at[p] = "wait" /\ step[p] \in 0..(Len(program) - 1) /\ step[p] \in Nat
         /\ m_sync_counter[p] = step[p] /\ syncRequest[p].withBarrier = Superstep(p).barrier
         /\ Len(program) \in Nat /\ program \in Programs
<1>1. at[p] = "wait" /\ run[p] = "spmd"
  BY DEF IInv, TypeOK, SpmdType, Phases, Phase
<1>2. step[p] < Len(program)
  BY <1>1 DEF IInv, Phases, Phase
<1>3. step[p] \in Nat /\ Len(program) \in Nat
  BY DEF IInv, TypeOK, SpmdType
<1>4. m_sync_counter[p] = step[p] /\ syncRequest[p].withBarrier = Superstep(p).barrier
  BY DEF DeliveryInv, Numbered, OrderInv, Situated
<1> QED BY <1>1, <1>2, <1>3, <1>4 DEF IInv

\* No arrival of a later superstep is in the counter: its issuer has gone past
\* a barrier that the target has not entered.
LEMMA Settled ==
  ASSUME RingSuffices, IInv, OrderInv, DeliveryInv, NEW p \in Procs, Awaiting(p)
  PROVE  Arrived(p, Cell(m_sync_counter[p])) \subseteq SentTo(p, step[p])
<1> DEFINE s == step[p]
<1>1. /\ at[p] = "wait" /\ s \in 0..(Len(program) - 1) /\ s \in Nat /\ m_sync_counter[p] = s
      /\ Len(program) \in Nat /\ program \in Programs
  BY WaitingFacts DEF Awaiting
<1>2. Counting(p) = s
  BY DEF Counting
<1> SUFFICES ASSUME NEW w \in sent, w.req.dst = p, s <= w.step, Cell(w.step) = Cell(s)
             PROVE  w.step = s
  BY <1>1, <1>2, SentFinite DEF Arrived, SentTo
<1> DEFINE t == w.step
           q == w.req.src
<1>3. t \in Nat /\ q \in Procs /\ step[q] \in Nat /\ t < Len(program) /\ t <= step[q]
  BY DEF IInv, TypeOK, SpmdType, WorkRequests, Requests, DeliveryInv, Stamped
<1>4. ASSUME s < t PROVE FALSE
  <2>1. t \in 0..(Len(program) - 1)
    BY <1>1, <1>3
  <2>2. PICK u \in s..(t - 1) : program[u + 1].barrier
    BY <1>1, <1>4, <2>1 DEF RingSuffices
  <2>3. u \in 0..Len(program) /\ u < Len(program) /\ u < t /\ s <= u
    BY <1>1, <2>1, <2>2
  <2>4. Takes(program, u, "barrier") /\ "barrier" \in CollectiveOps
    BY <2>2, <2>3 DEF Takes, CollectiveOps
  <2>5. u < m_sync_counter[q]
    <3>1. m_sync_counter[q] = step[q] \/ m_sync_counter[q] = step[q] + 1
      BY <1>3 DEF DeliveryInv, Numbered
    <3> QED BY <1>3, <2>3, <3>1
  <2>6. Place(program, Moment(u, "barrier")) <= LastCall(p)
    BY <1>3, <2>3, <2>4, <2>5 DEF DeliveryInv, Fenced
  <2>7. Moment(u, "barrier") <= Reached(p)
    BY <1>1, <2>3, <2>4, <2>6, CallAt DEF IInv
  <2>8. Reached(p) = 5 * s + 3
    BY <1>1 DEF Reached, Stage
  <2>9. Moment(u, "barrier") = 5 * u + 4
    BY DEF Moment, Rank
  <2> QED BY <1>1, <2>3, <2>7, <2>8, <2>9
<1> QED BY <1>1, <1>3, <1>4

\* The counter never exceeds what is expected, and when it has reached it all
\* operations directed at the process are in place.
LEMMA AllHere ==
  ASSUME RingSuffices, IInv, OrderInv, DeliveryInv, NEW p \in Procs, Awaiting(p)
  PROVE  /\ m_recvCounts[p][Cell(m_sync_counter[p])] \in Nat /\ syncRequest[p].remoteMsgs \in Nat
         /\ m_recvCounts[p][Cell(m_sync_counter[p])] <= syncRequest[p].remoteMsgs
         /\ Enough(p) =>
              /\ \A w \in sent : w.req.dst = p /\ w.step = step[p] =>
                   w \in executed /\ w \notin cqRemote[p]
              /\ \A r \in Superstep(p).rma : r.dst = p => IsDelivered(r, step[p])
<1> DEFINE s == step[p]
           c == Cell(m_sync_counter[p])
           n == m_recvCounts[p][c]
           A == Arrived(p, c)
           S == SentTo(p, s)
           k == Inbound(program[s + 1], p)
<1>1. /\ s \in 0..(Len(program) - 1) /\ s \in Nat /\ m_sync_counter[p] = s /\ program \in Programs
  BY WaitingFacts DEF Awaiting
<1>2. c \in 0..(RingSize - 1)
  BY <1>1, CellInRing
<1>3. n \in Nat
  <2>1. m_recvCounts[p] \in [0..(RingSize - 1) -> Nat]
    BY DEF IInv, TypeOK, CountType
  <2> QED BY <1>2, <2>1
<1>4. syncRequest[p].remoteMsgs = k
  BY DEF DeliveryInv, Expecting, Superstep
<1>5. n <= Cardinality(A)
  BY <1>2 DEF DeliveryInv, Counted
<1>6. A \subseteq S
  BY Settled
<1>7. /\ IsFiniteSet(S) /\ Cardinality(S) \in Nat /\ k \in Nat /\ Cardinality(S) <= k
      /\ Cardinality(S) = k <=>
           \A r \in program[s + 1].rma : r.dst = p => \E w \in sent : w.req = r /\ w.step = s
  <2>1. TypeOK /\ IsFiniteSet(sent) /\ \A w \in sent : Stamped(w)
    BY DEF IInv, Conserved, DeliveryInv
  <2> QED BY <1>1, <2>1, SentToBound
<1>8. /\ Cardinality(A) \in Nat /\ Cardinality(A) <= Cardinality(S)
      /\ Cardinality(A) = Cardinality(S) => A = S
  BY <1>6, <1>7, FS_Subset, SentFinite
<1>9. ASSUME Enough(p)
      PROVE  A = S /\ Cardinality(S) = k
  <2>1. n >= k
    BY <1>4, <1>9 DEF Enough
  <2> HIDE DEF n, A, S, k
  <2>2. Cardinality(A) = Cardinality(S) /\ Cardinality(S) = k
    BY <1>3, <1>5, <1>7, <1>8, <2>1
  <2> QED BY <1>8, <2>2
<1>10. n <= k
  <2> HIDE DEF n, A, S, k
  <2> QED BY <1>3, <1>5, <1>7, <1>8
<1>11. ASSUME Enough(p), NEW w \in sent, w.req.dst = p, w.step = s
       PROVE  w \in executed /\ w \notin cqRemote[p]
  <2>1. w \in A
    BY <1>9, <1>11 DEF SentTo
  <2> QED BY <2>1 DEF Arrived
<1>12. ASSUME Enough(p), NEW r \in Superstep(p).rma, r.dst = p
       PROVE  IsDelivered(r, s)
  <2>1. PICK w \in sent : w.req = r /\ w.step = s
    BY <1>7, <1>9, <1>12 DEF Superstep
  <2> QED BY <1>11, <1>12, <2>1 DEF IsDelivered
<1> QED BY <1>3, <1>4, <1>7, <1>10, <1>11, <1>12

\* Everything has arrived and is taken off the counter.
LEMMA ArrivedKeeps ==
  ASSUME RingSuffices, IInv, OrderInv, DeliveryInv, NEW p \in Procs, Awaiting(p), AllArrived(p),
         UNCHANGED <<program, sent, executed, cqRemote>>, Counting(p)' = step[p] + 1
  PROVE  Served(p)' /\ Counted(p)'
<1> DEFINE s == step[p]
           d == Cell(m_sync_counter[p])
<1>1. s \in Nat /\ m_sync_counter[p] = s /\ Counting(p) = s
  BY WaitingFacts DEF Awaiting, Counting
<1>2. Enough(p)
  BY DEF AllArrived
<1>3. Served(p)'
  <2>1. Served(p)
    BY DEF DeliveryInv
  <2>2. ASSUME NEW w \in sent, w.req.dst = p, w.step < s + 1
        PROVE  w \in executed /\ w \notin cqRemote[p]
    <3>1. w.step \in Nat
      BY DEF IInv, TypeOK, SpmdType, WorkRequests
    <3>2. w.step < s \/ w.step = s
      BY <1>1, <2>2, <3>1
    <3> QED BY <1>1, <1>2, <2>1, <2>2, <3>2, AllHere DEF Served
  <2>3. ASSUME NEW t \in 0..s, NEW r \in program[t + 1].rma, r.dst = p
        PROVE  IsDelivered(r, t)
    <3>1. t \in 0..(s - 1) \/ t = s
      BY <1>1
    <3> QED BY <1>1, <1>2, <2>1, <2>3, <3>1, AllHere DEF Served, Superstep
  <2>4. (Counting(p)' - 1) = s
    BY <1>1
  <2> QED BY <2>1, <2>2, <2>3, <2>4 DEF Served, IsDelivered
<1>4. Counted(p)'
  <2> SUFFICES ASSUME NEW c \in 0..(RingSize - 1)
               PROVE  m_recvCounts'[p][c] <= Cardinality(Arrived(p, c)')
    BY DEF Counted
  <2>1. /\ m_recvCounts[p] \in [0..(RingSize - 1) -> Nat] /\ d \in 0..(RingSize - 1)
        /\ m_recvCounts'[p] = [m_recvCounts[p] EXCEPT ![d] = @ - syncRequest[p].remoteMsgs]
    BY <1>1, CellInRing DEF AllArrived, IInv, TypeOK, CountType
  <2>2. Arrived(p, c)' \subseteq Arrived(p, c)
    BY <1>1 DEF Arrived, IInv, Conserved, TypeOK, SpmdType, WorkRequests
  <2>3. IsFiniteSet(Arrived(p, c)') /\ Cardinality(Arrived(p, c)') \in Nat
    BY <2>2, SentFinite, FS_Subset, FS_CardinalityType
  <2>4. CASE c = d
    <3>1. m_recvCounts[p][d] \in Nat /\ syncRequest[p].remoteMsgs \in Nat
          /\ m_recvCounts[p][d] <= syncRequest[p].remoteMsgs
      BY AllHere
    <3>2. m_recvCounts'[p][c] = m_recvCounts[p][d] - syncRequest[p].remoteMsgs
      BY <2>1, <2>4
    <3> HIDE DEF d
    <3> QED BY <2>3, <3>1, <3>2
  <2>5. CASE c # d
    <3>1. Arrived(p, c)' = Arrived(p, c)
      <4>1. ASSUME NEW w \in Arrived(p, c)
            PROVE  s + 1 <= w.step
        <5>1. w \in sent /\ sent \subseteq WorkRequests
          BY SentFinite DEF IInv, TypeOK, SpmdType
        <5>2. w.step \in Nat
          BY <5>1 DEF WorkRequests
        <5>3. s <= w.step /\ Cell(w.step) = c /\ d = Cell(s)
          BY <1>1 DEF Arrived
        <5> HIDE DEF d
        <5> QED BY <1>1, <2>5, <5>2, <5>3
      <4>2. Arrived(p, c) \subseteq Arrived(p, c)'
        BY <4>1 DEF Arrived
      <4> QED BY <2>2, <4>2
    <3>2. m_recvCounts'[p][c] = m_recvCounts[p][c]
      BY <2>1, <2>5
    <3> QED BY <3>1, <3>2 DEF DeliveryInv, Counted
  <2> QED BY <2>4, <2>5
<1> QED BY <1>3, <1>4

\* processSyncRequest: all has arrived, or all have entered the barrier.
LEMMA PollSyncKeeps ==
  ASSUME RingSuffices, IInv, OrderInv, DeliveryInv, NEW p \in Procs, PollSync(p)
  PROVE  DeliveryInv'
<1> DEFINE s == step[p]
<1>1. /\ UNCHANGED <<program, step, sent, executed, cqRemote, m_numMsgsSync, m_sync_cached,
                     m_sync_cached_value, at>>
      /\ syncRequest[p].isActive
      /\ UNCHANGED calls \/ Enter(p, Barrier("barrier"))
  BY DEF PollSync, Poll, processSyncRequest, AllArrived
<1>2. /\ at[p] = "wait" /\ s \in 0..(Len(program) - 1) /\ s \in Nat /\ m_sync_counter[p] = s
      /\ syncRequest[p].withBarrier = Superstep(p).barrier
      /\ Len(program) \in Nat /\ program \in Programs
  BY <1>1, WaitingFacts
<1>3. CallsType /\ Conserved /\ CountType
  BY DEF IInv, TypeOK
<1>4. \A q \in Procs \ {p} :
        UNCHANGED <<step[q], at[q], m_recvCounts[q], m_sync_counter[q], m_numMsgsSync[q],
                    m_sync_cached[q], m_sync_cached_value[q], syncRequest[q]>>
  <2>1. \A q \in Procs \ {p} : syncRequest'[q] = syncRequest[q]
    BY DEF PollSync, Poll, processSyncRequest, FinishSync, IInv, TypeOK, SyncType
  <2>2. \A q \in Procs \ {p} : m_sync_counter'[q] = m_sync_counter[q]
    BY DEF PollSync, Poll, processSyncRequest, FinishSync, IInv, TypeOK, CountType
  <2>3. \A q \in Procs \ {p} : m_recvCounts'[q] = m_recvCounts[q]
    BY DEF PollSync, Poll, processSyncRequest, AllArrived, IInv, TypeOK, CountType
  <2> QED BY <1>1, <2>1, <2>2, <2>3
\* The request after the step, and the superstep counter.
<1>5. /\ ~ Awaiting(p)'
      /\ m_sync_counter'[p] = IF syncRequest'[p].isActive THEN s ELSE s + 1
      /\ \/ Awaiting(p) /\ AllArrived(p)
         \/ ~ Awaiting(p) /\ UNCHANGED m_recvCounts
      /\ syncRequest'[p].isActive \/ UNCHANGED calls
      /\ ~ syncRequest'[p].isActive /\ Superstep(p).barrier =>
           Completed(p) /\ syncRequest[p].secondPhase
  <2>1. /\ syncRequest[p] \in [isActive : BOOLEAN, withBarrier : BOOLEAN,
                               secondPhase : BOOLEAN, remoteMsgs : Nat]
        /\ DOMAIN syncRequest = Procs /\ DOMAIN m_sync_counter = Procs
    BY DEF IInv, TypeOK, SyncType, CountType
  <2>2. syncRequest[p].secondPhase => syncRequest[p].withBarrier
    BY DEF OrderInv, Situated
  <2>3. CASE /\ AllArrived(p) /\ syncRequest[p].withBarrier
             /\ syncRequest' = [syncRequest EXCEPT ![p].secondPhase = TRUE, ![p].remoteMsgs = 0]
             /\ UNCHANGED m_sync_counter
    <3>1. syncRequest'[p].isActive /\ syncRequest'[p].secondPhase
      BY <1>1, <2>1, <2>3
    <3>2. Awaiting(p)
      BY <2>3 DEF AllArrived, Awaiting
    <3> QED BY <1>2, <2>3, <3>1, <3>2 DEF Awaiting
  <2>4. CASE FinishSync(p)
    <3>1. ~ syncRequest'[p].isActive /\ m_sync_counter'[p] = s + 1
      BY <1>2, <2>1, <2>4 DEF FinishSync
    <3>2. CASE AllArrived(p) /\ ~ syncRequest[p].withBarrier /\ UNCHANGED calls
      BY <1>2, <2>2, <3>1, <3>2 DEF AllArrived, Awaiting
    <3>3. CASE /\ syncRequest[p].secondPhase /\ Completed(p) /\ UNCHANGED <<m_recvCounts, calls>>
      BY <1>2, <3>1, <3>3 DEF Awaiting
    <3>4. syncRequest' # [syncRequest EXCEPT ![p].secondPhase = TRUE, ![p].remoteMsgs = 0]
      BY <1>1, <2>1, <3>1
    <3> QED BY <3>2, <3>3, <3>4 DEF PollSync, Poll, processSyncRequest
  <2> QED BY <2>3, <2>4 DEF PollSync, Poll, processSyncRequest
<1>6. Counting(p)' = s + 1 /\ ~ Awaiting(p)'
  BY <1>1, <1>2, <1>5 DEF Counting
<1>7. Served(p)' /\ Counted(p)'
  <2>1. CASE Awaiting(p) /\ AllArrived(p)
    BY <1>1, <1>6, <2>1, ArrivedKeeps
  <2>2. CASE ~ Awaiting(p) /\ UNCHANGED m_recvCounts
    <3>1. Counting(p)' = Counting(p)
      BY <1>2, <1>6, <2>2 DEF Counting
    <3>2. Served(p)'
      BY <1>1, <3>1 DEF DeliveryInv, Served, IsDelivered
    <3>3. Counted(p)'
      BY <1>1, <2>2, <3>1, CountedGrows DEF DeliveryInv, IInv, Conserved, TypeOK, CountType
    <3> QED BY <3>2, <3>3
  <2> QED BY <1>5, <2>1, <2>2
<1>8. Numbered(p)' /\ Expecting(p)' /\ Cached(p)'
  <2>1. Numbered(p)'
    BY <1>1, <1>2, <1>5 DEF Numbered
  <2>2. Expecting(p)'
    BY <1>6 DEF Expecting
  <2>3. Cached(p)'
    BY <1>1 DEF DeliveryInv, Cached, Until
  <2> QED BY <2>1, <2>2, <2>3
<1>9. Booked(p)'
  <2>1. (\E c : Enter(p, c)) \/ UNCHANGED calls
    BY <1>1
  <2>2. ASSUME NEW t \in 0..Len(program), Takes(program, t, "sum"), Past(p, t)'
        PROVE  /\ Place(program, Moment(t, "sum")) <= LastCall(p)'
               /\ calls'[p][Place(program, Moment(t, "sum"))].counts = SentBy(p, t)
    <3>1. /\ Place(program, Moment(t, "sum")) <= LastCall(p)
          /\ calls[p][Place(program, Moment(t, "sum"))].counts = SentBy(p, t)
      BY <1>1, <2>2 DEF DeliveryInv, Booked, Past
    <3> QED BY <1>3, <2>1, <2>2, <3>1, ExchangedKept
  <2> QED BY <1>1, <2>2 DEF DeliveryInv, Booked, SentBy
<1>10. Fenced(p)'
  <2>1. CASE syncRequest'[p].isActive
    <3>1. m_sync_counter'[p] = m_sync_counter[p]
      BY <1>2, <1>5, <2>1
    <3> QED BY <1>1, <1>3, <3>1, FencedKept DEF DeliveryInv
  <2>2. CASE ~ syncRequest'[p].isActive
    <3>1. UNCHANGED calls /\ m_sync_counter'[p] = s + 1
      BY <1>5, <2>2
    <3>2. ASSUME NEW t \in 0..Len(program), Takes(program, t, "barrier"), t < s + 1,
                 NEW q \in Procs
          PROVE  Place(program, Moment(t, "barrier")) <= LastCall(q)
      <4>1. CASE t < s
        BY <1>2, <3>2, <4>1 DEF DeliveryInv, Fenced
      <4>2. CASE t = s
        <5>1. Superstep(p).barrier
          BY <3>2, <4>2 DEF Takes, Superstep
        <5>2. Completed(p) /\ syncRequest[p].secondPhase
          BY <1>5, <2>2, <5>1
        <5>3. Reached(p) = Moment(s, "barrier")
          BY <1>2, <5>2 DEF Reached, Stage, Awaiting, Moment, Rank
        <5>4. LastCall(p) = Place(program, Moment(s, "barrier"))
          BY <5>3 DEF OrderInv, Ordered
        <5> QED BY <4>2, <5>2, <5>4 DEF Completed, LastCall
      <4> QED BY <1>2, <3>2, <4>1, <4>2
    <3> QED BY <1>1, <3>1, <3>2 DEF Fenced, LastCall
  <2> QED BY <2>1, <2>2
<1>11. Delivery(p)'
  BY <1>7, <1>8, <1>9, <1>10 DEF Delivery
<1>12. \A q \in Procs : step'[q] \in Nat /\ step[q] <= step'[q]
  BY <1>1 DEF IInv, TypeOK, SpmdType
<1>13. (\E c : Enter(p, c)) \/ UNCHANGED calls
  BY <1>1
<1> QED BY <1>1, <1>4, <1>11, <1>12, <1>13, DeliveryOthers

LEMMA DeliveryStep ==
  ASSUME RingSuffices, IInv, OrderInv, OrderInv', DeliveryInv, [Next]_vars
  PROVE  DeliveryInv'
<1>1. ASSUME NEW p \in Procs, Program(p)
      PROVE  DeliveryInv'
  <2>1. CASE SyncContinues(p)
    BY <2>1, PreparingKeeps, ExchangeKeeps DEF SyncContinues
  <2> QED BY <1>1, <2>1, CommunicateKeeps, PreparingKeeps, ReturnsKeeps, DoneKeeps DEF Program
<1>2. ASSUME NEW p \in Procs, Polling(p)
      PROVE  DeliveryInv'
  BY <1>2, PreparingKeeps, PollRemoteKeeps, PollSyncKeeps DEF Polling
<1>3. CASE UNCHANGED vars
  <2>1. UNCHANGED <<program, step, sent, executed, cqRemote, calls, m_recvCounts, m_sync_counter,
                    m_numMsgsSync, m_sync_cached, m_sync_cached_value, syncRequest, at>>
    BY <1>3 DEF vars
  <2>2. \A w \in sent' : Stamped(w)'
    BY <2>1 DEF DeliveryInv, Stamped
  <2>3. ASSUME NEW q \in Procs
        PROVE  Delivery(q)'
    <3>1. Delivery(q) /\ CallsType /\ Conserved /\ CountType
      BY DEF DeliveryInv, Delivery, IInv, TypeOK
    <3> QED BY <2>1, <3>1, Unmoved
  <2> QED BY <2>2, <2>3 DEF DeliveryInv, Delivery
<1> QED BY <1>1, <1>2, <1>3, FabricKeeps DEF Next, Finished

LEMMA InitDelivery ==
  ASSUME Init
  PROVE  DeliveryInv
<1>1. program \in Seq(Supersteps)
  BY ProgramsAssumption DEF Init
<1> SUFFICES ASSUME NEW p \in Procs PROVE Delivery(p)
  BY DEF Init, DeliveryInv, Delivery
<1>2. /\ at[p] = "out" /\ step[p] = 0 /\ sent = {} /\ executed = {} /\ cqRemote[p] = {}
      /\ ~ syncRequest[p].isActive /\ m_sync_counter[p] = 0 /\ m_numMsgsSync[p] = {}
      /\ ~ m_sync_cached[p] /\ m_recvCounts[p] = [c \in 0..(RingSize - 1) |-> 0]
  BY DEF Init, MachineInit, EngineInit, NoRequest
<1>3. Numbered(p) /\ Cached(p) /\ Expecting(p)
  BY <1>2 DEF Numbered, Cached, Expecting, Awaiting
<1>4. Booked(p)
  BY <1>1, <1>2 DEF Booked, SentBy, Past
<1>5. Counting(p) = 0
  BY <1>2 DEF Counting
<1>6. Served(p)
  BY <1>2, <1>5 DEF Served
<1>7. Counted(p)
  <2>1. \A c : Arrived(p, c) = {}
    BY <1>2 DEF Arrived
  <2>2. Cardinality({}) = 0
    BY FS_EmptySet
  <2>3. \A c \in 0..(RingSize - 1) : m_recvCounts[p][c] = 0
    BY <1>2
  <2> QED BY <2>1, <2>2, <2>3 DEF Counted
<1>8. Fenced(p)
  BY <1>1, <1>2 DEF Fenced
<1> QED BY <1>3, <1>4, <1>6, <1>7, <1>8 DEF Delivery

\* The counters of IBVerbs are right: what sync announces is what was issued,
\* what it waits for is what is announced, the ring counts nothing but arrivals
\* of its superstep, and a barrier holds everybody back.
THEOREM DeliveryInvariant ==
  ASSUME Disciplined, RingSuffices PROVE Spec => []DeliveryInv
<1>1. Init => DeliveryInv
  BY InitDelivery
<1>2. IInv /\ OrderInv /\ OrderInv' /\ DeliveryInv /\ [Next]_vars => DeliveryInv'
  BY DeliveryStep
<1> QED BY <1>1, <1>2, Invariant, OrderInvariant, PTL DEF Spec

----------------------------------------------------------------------------
(* What the invariant says *)

\* Nobody counts more supersteps as done than it has stopped counting for.
LEMMA CounterBound ==
  ASSUME IInv, DeliveryInv, NEW p \in Procs
  PROVE  /\ m_sync_counter[p] \in Nat /\ Counting(p) \in Nat /\ step[p] \in Nat
         /\ m_sync_counter[p] <= Counting(p) /\ m_sync_counter[p] <= Len(program)
         /\ \A s \in 0..(m_sync_counter[p] - 1) :
              s < step[p] \/ (s = step[p] /\ at[p] = "wait" /\ run[p] = "spmd")
<1>1. step[p] \in Nat /\ m_sync_counter[p] \in Nat /\ Len(program) \in Nat
  BY DEF IInv, TypeOK, SpmdType, CountType
<1>2. at[p] = "wait" => run[p] = "spmd" /\ step[p] < Len(program)
  BY DEF IInv, TypeOK, SpmdType, Phases, Phase
<1>3. step[p] <= Len(program)
  BY DEF IInv, Phases, Phase
<1>4. \/ m_sync_counter[p] = step[p]
      \/ /\ m_sync_counter[p] = step[p] + 1 /\ at[p] = "wait" /\ ~ syncRequest[p].isActive
  BY DEF DeliveryInv, Numbered
<1>5. /\ Counting(p) = step[p] \/ Counting(p) = step[p] + 1
      /\ at[p] = "wait" /\ ~ syncRequest[p].isActive => Counting(p) = step[p] + 1
  BY DEF Counting, Awaiting
<1>6. m_sync_counter[p] <= Counting(p) /\ m_sync_counter[p] <= Len(program)
  BY <1>1, <1>2, <1>3, <1>4, <1>5
<1>7. ASSUME NEW s \in 0..(m_sync_counter[p] - 1)
      PROVE  s < step[p] \/ (s = step[p] /\ at[p] = "wait")
  BY <1>1, <1>4
<1> QED BY <1>1, <1>2, <1>5, <1>6, <1>7

\* "This operation is guaranteed to be completed after a call to the next
\* lpf_sync() exits" (talpf_put): at its issuer because sync waits for the local
\* completions, at its target because the counters of the ring tell the truth.
THEOREM OperationsDelivered ==
  ASSUME Disciplined, RingSuffices PROVE Spec => []SyncDelivers
<1>1. IInv /\ DeliveryInv => SyncDelivers
  <2> SUFFICES ASSUME IInv, DeliveryInv, NEW p \in Procs, NEW s \in 0..(m_sync_counter[p] - 1),
                      NEW r \in program[s + 1].rma, p \in {r.src, r.dst}
               PROVE  IsDelivered(r, s)
    BY DEF SyncDelivers
  <2>1. /\ s \in 0..(Counting(p) - 1) /\ s \in 0..(Len(program) - 1)
        /\ s < step[p] \/ (s = step[p] /\ at[p] = "wait" /\ run[p] = "spmd")
    <3>1. Len(program) \in Nat
      BY DEF IInv, TypeOK, SpmdType
    <3> QED BY <3>1, CounterBound
  <2>2. CASE r.dst = p
    BY <2>1, <2>2 DEF DeliveryInv, Served
  <2>3. CASE r.src = p /\ s < step[p]
    <3>1. s \in 0..(step[p] - 1)
      BY <2>3, CounterBound
    <3> QED BY <2>3, <3>1 DEF IInv, IssuerDelivers
  <2>4. CASE r.src = p /\ s = step[p] /\ at[p] = "wait" /\ run[p] = "spmd"
    <3>1. PICK w \in sent : w.req = r /\ w.step = s
      BY <2>1, <2>4 DEF IInv, AllIssued, AtItsEnd
    <3>2. Outstanding(p) = {}
      BY <2>4 DEF IInv, LocalCompletion
    <3>3. w \in executed
      BY <2>4, <3>1, <3>2 DEF Outstanding
    <3> QED BY <3>1, <3>3 DEF IsDelivered
  <2> QED BY <2>1, <2>2, <2>3, <2>4
<1> QED BY <1>1, Invariant, DeliveryInvariant, PTL

\* Whoever is past a barrier knows that all have received what they waited for.
LEMMA BeyondBarrier ==
  ASSUME IInv, OrderInv, DeliveryInv, NEW p \in Procs, NEW s \in 0..(m_sync_counter[p] - 1),
         program[s + 1].barrier, NEW q \in Procs
  PROVE  s \in 0..(Counting(q) - 1) /\ s <= step[q]
<1>1. s \in 0..Len(program) /\ s < Len(program) /\ s < m_sync_counter[p] /\ s \in Nat
  <2>1. Len(program) \in Nat
    BY DEF IInv, TypeOK, SpmdType
  <2> QED BY <2>1, CounterBound
<1>2. Takes(program, s, "barrier") /\ "barrier" \in CollectiveOps
  BY <1>1 DEF Takes, CollectiveOps
<1>3. Place(program, Moment(s, "barrier")) <= LastCall(q)
  BY <1>1, <1>2 DEF DeliveryInv, Fenced
<1>4. Moment(s, "barrier") <= Reached(q)
  BY <1>1, <1>2, <1>3, CallAt DEF IInv
<1>5. Moment(s, "barrier") = 5 * s + 4
  BY DEF Moment, Rank
<1>6. Stage(q) \in -1..4 /\ step[q] \in Nat /\ Reached(q) = 5 * step[q] + Stage(q)
  BY ReachedType DEF IInv, Reached
<1>7. s < step[q] \/ (s = step[q] /\ Stage(q) = 4)
  BY <1>1, <1>4, <1>5, <1>6
<1>8. Stage(q) = 4 => at[q] = "wait" /\ ~ Awaiting(q)
  BY DEF Stage, IInv, TypeOK, SyncType, Locations
<1> QED BY <1>1, <1>6, <1>7, <1>8 DEF Counting

\* Once one process has completed a superstep with a barrier, all operations of
\* it are in place, wherever they were directed: processSyncRequest enters the
\* barrier only when its own have arrived, and leaves it when all have entered.
THEOREM BarriersDeliver ==
  ASSUME Disciplined, RingSuffices PROVE Spec => []BarrierDelivers
<1>1. IInv /\ OrderInv /\ DeliveryInv => BarrierDelivers
  <2> SUFFICES ASSUME IInv, OrderInv, DeliveryInv, NEW p \in Procs,
                      NEW s \in 0..(m_sync_counter[p] - 1), program[s + 1].barrier,
                      NEW r \in program[s + 1].rma
               PROVE  IsDelivered(r, s)
    BY DEF BarrierDelivers
  <2>1. r.dst \in Procs
    <3>1. program \in Seq(Supersteps) /\ s + 1 \in DOMAIN program
      <4>1. program \in Seq(Supersteps) /\ m_sync_counter[p] <= Len(program)
        BY CounterBound DEF IInv, TypeOK, SpmdType
      <4>2. m_sync_counter[p] \in Nat /\ Len(program) \in Nat
        BY <4>1, CounterBound
      <4> QED BY <4>1, <4>2
    <3>2. program[s + 1] \in Supersteps
      BY <3>1
    <3>3. r \in Requests
      BY <3>2 DEF Supersteps
    <3> QED BY <3>3 DEF Requests
  <2>2. s \in 0..(Counting(r.dst) - 1)
    BY <2>1, BeyondBarrier
  <2> QED BY <2>1, <2>2 DEF DeliveryInv, Served
<1> QED BY <1>1, Invariant, OrderInvariant, DeliveryInvariant, PTL

\* processSyncRequest never finds "more remote completions than the expected".
THEOREM NeverInExcess ==
  ASSUME Disciplined, RingSuffices PROVE Spec => []NoExcess
<1>1. RingSuffices /\ IInv /\ OrderInv /\ DeliveryInv => NoExcess
  BY AllHere DEF NoExcess, Awaiting
<1> QED BY <1>1, Invariant, OrderInvariant, DeliveryInvariant, PTL

----------------------------------------------------------------------------
(* Posted receives *)

\* Before superstep s has ended anywhere, processes may be as far as the next
\* barrier: what may be on its way to p then.
Ahead(prog, s) ==
  {u \in s..(Len(prog) - 1) : \A v \in s..(u - 1) : ~ prog[v + 1].barrier}
Arrivals(prog, s, p) ==
  UNION {{u} \X {r \in prog[u + 1].rma : r.dst = p} : u \in Ahead(prog, s)}

\* No process is sent more between two barriers than it has posted receives.
ReceivesSuffice ==
  \A prog \in Programs : \A s \in 0..(Len(prog) - 1), p \in Procs :
    Cardinality(Arrivals(prog, s, p)) <= PostCount

\* A program resizes the message queue before it communicates, and does not
\* communicate in a superstep that resizes.
ResizesApart ==
  \A prog \in Programs : \A s \in DOMAIN prog :
    prog[s].rma # {} => ~ prog[s].resize /\ \E t \in 1..(s - 1) : prog[t].resize

\* Once past lpf_resize_message_queue p has posted its receives, and each of
\* them is on the shared queue or has been taken by an arrival not yet polled.
Supplied(p) ==
  \A s \in 0..(Len(program) - 1) :
    /\ program[s + 1].resize
    /\ s < step[p] \/ (s = step[p] /\ (m_resized[p] \/ AtItsEnd(p)))
    => m_postCount[p] = PostCount
Stocked(p) == srq[p] + Cardinality(cqRemote[p]) = m_postCount[p]
ReceiveInv == \A p \in Procs : Supplied(p) /\ Stocked(p)

\* What p has not counted yet is of a superstep that the last barrier p has
\* entered allows.
LEMMA NotFarAhead ==
  ASSUME IInv, OrderInv, DeliveryInv, NEW w \in sent, Counting(w.req.dst) <= w.step
  PROVE  /\ w.step \in Ahead(program, Counting(w.req.dst))
         /\ Counting(w.req.dst) \in 0..(Len(program) - 1)
<1> DEFINE p == w.req.src
           q == w.req.dst
<1>1. /\ p \in Procs /\ q \in Procs /\ w.step \in Nat
      /\ w.step < Len(program) /\ w.step <= step[p]
  BY DEF IInv, TypeOK, SpmdType, WorkRequests, Requests, DeliveryInv, Stamped
<1>2. Counting(q) \in Nat /\ Len(program) \in Nat
  BY <1>1, CounterBound DEF IInv, TypeOK, SpmdType
<1>3. ASSUME NEW v \in Counting(q)..(w.step - 1), program[v + 1].barrier
      PROVE  FALSE
  <2>1. m_sync_counter[p] \in Nat /\ step[p] \in Nat /\ step[p] <= m_sync_counter[p]
    <3>1. m_sync_counter[p] = step[p] \/ m_sync_counter[p] = step[p] + 1
      BY <1>1 DEF DeliveryInv, Numbered
    <3> QED BY <1>1, <3>1 DEF IInv, TypeOK, SpmdType
  <2>2. v \in 0..(m_sync_counter[p] - 1)
    <3> HIDE DEF p, q
    <3> QED BY <1>1, <1>2, <2>1
  <2>3. v \in 0..(Counting(q) - 1)
    BY <1>1, <1>3, <2>2, BeyondBarrier
  <2> QED BY <1>2, <2>3
<1>4. w.step \in Counting(q)..(Len(program) - 1)
  BY <1>1, <1>2
<1>5. w.step \in Ahead(program, Counting(q))
  BY <1>3, <1>4 DEF Ahead
<1> QED BY <1>1, <1>2, <1>5

\* The requests that p has not counted are no more than its receives.
Unseen(p) == {w \in sent : w.req.dst = p /\ (w \in executed => w \in cqRemote[p])}

LEMMA UnseenBound ==
  ASSUME ReceivesSuffice, IInv, OrderInv, DeliveryInv, NEW p \in Procs
  PROVE  /\ IsFiniteSet(Unseen(p)) /\ Cardinality(Unseen(p)) \in Nat
         /\ Cardinality(Unseen(p)) <= PostCount
<1>1. IsFiniteSet(Unseen(p)) /\ Cardinality(Unseen(p)) \in Nat
  <2>1. Unseen(p) \subseteq sent /\ IsFiniteSet(sent)
    BY DEF Unseen, IInv, Conserved
  <2> QED BY <2>1, FS_Subset, FS_CardinalityType
<1>2. CASE Unseen(p) = {}
  BY <1>2, FS_EmptySet, PostCountAssumption
<1>3. CASE Unseen(p) # {}
  <2> DEFINE c == Counting(p)
             S == Unseen(p)
             T == Arrivals(program, c, p)
             f == [w \in S |-> <<w.step, w.req>>]
  <2>1. \A w \in S : w \in sent /\ w.req.dst = p /\ c <= w.step /\ w.step \in Nat
    <3>1. c \in Nat
      BY CounterBound
    <3>2. \A w \in sent : w.step \in Nat
      BY DEF IInv, TypeOK, SpmdType, WorkRequests
    <3>3. \A w \in S : w \in sent /\ w.req.dst = p /\ ~ (w.step < c)
      BY DEF Unseen, DeliveryInv, Served
    <3> QED BY <3>1, <3>2, <3>3
  <2>2. /\ \A w \in S : w.step \in Ahead(program, c)
        /\ c \in 0..(Len(program) - 1)
    BY <1>3, <2>1, NotFarAhead
  <2>3. \A w \in S : f[w] \in T
    <3> SUFFICES ASSUME NEW w \in S
                 PROVE  <<w.step, w.req>> \in T
      OBVIOUS
    <3>1. w.req \in {r \in program[w.step + 1].rma : r.dst = p}
      BY <2>1 DEF DeliveryInv, Stamped
    <3>2. <<w.step, w.req>> \in {w.step} \X {r \in program[w.step + 1].rma : r.dst = p}
      BY <3>1
    <3> QED BY <2>2, <3>2 DEF Arrivals
  <2>4. \A v, w \in S : f[v] = f[w] => v = w
    <3>1. sent \subseteq WorkRequests
      BY DEF IInv, TypeOK, SpmdType
    <3>2. \A v, w \in S : f[v] = f[w] =>
            v.req = w.req /\ v.step = w.step /\ v.imm = w.imm
      BY <2>1 DEF DeliveryInv, Stamped
    <3> QED BY <2>1, <3>1, <3>2 DEF WorkRequests
  <2>5. f \in Injection(S, T)
    BY <2>3, <2>4 DEF Injection, IsInjective
  <2>6. IsFiniteSet(T)
    <3> DEFINE P(u) == {u} \X {r \in program[u + 1].rma : r.dst = p}
    <3>1. IsFiniteSet(Ahead(program, c))
      <4>1. c \in Int /\ Len(program) - 1 \in Int
        BY CounterBound DEF IInv, TypeOK, SpmdType
      <4>2. IsFiniteSet(c..(Len(program) - 1))
        BY <4>1, FS_Interval
      <4> QED BY <4>2, FS_Subset DEF Ahead
    <3>2. ASSUME NEW u \in Ahead(program, c) PROVE IsFiniteSet(P(u))
      <4>1. u + 1 \in DOMAIN program /\ LegalProgram(program)
        <5>1. program \in Seq(Supersteps) /\ LegalProgram(program)
          BY ProgramsAssumption DEF IInv
        <5> QED BY <2>2, <5>1 DEF Ahead
      <4>2. IsFiniteSet(program[u + 1].rma)
        BY <4>1 DEF LegalProgram
      <4>3. IsFiniteSet({r \in program[u + 1].rma : r.dst = p})
        BY <4>2, FS_Subset
      <4> QED BY <4>3, FS_Singleton, FS_Product
    <3>3. IsFiniteSet({P(u) : u \in Ahead(program, c)})
      <4> DEFINE A == Ahead(program, c)
                 g == [u \in A |-> P(u)]
      <4>1. g \in Surjection(A, {P(u) : u \in A})
        <5> HIDE DEF A, P
        <5> QED BY DEF Surjection
      <4> HIDE DEF A, P, g
      <4> QED BY <3>1, <4>1, FS_Surjection DEF A
    <3>4. T = UNION {P(u) : u \in Ahead(program, c)}
      BY DEF Arrivals
    <3> HIDE DEF P, T
    <3>5. \A X \in {P(u) : u \in Ahead(program, c)} : IsFiniteSet(X)
      BY <3>2
    <3> QED BY <3>3, <3>4, <3>5, FS_UNION
  <2> HIDE DEF f, S, T
  <2>7. Cardinality(S) <= Cardinality(T)
    BY <2>5, <2>6, FS_Injection
  <2>8. Cardinality(T) <= PostCount
    BY <2>2 DEF IInv, ReceivesSuffice, T
  <2>9. Cardinality(T) \in Nat
    BY <2>6, FS_CardinalityType
  <2>10. IsFiniteSet(S) /\ Cardinality(S) \in Nat
    BY <1>1 DEF S
  <2>11. Cardinality(S) <= PostCount
    BY <2>7, <2>8, <2>9, <2>10, PostCountAssumption
  <2> QED BY <2>10, <2>11 DEF S
<1> QED BY <1>1, <1>2, <1>3

\* Who posts, counts and resizes: the receives stay on record.
LEMMA StockedSame ==
  ASSUME NEW p \in Procs, Stocked(p), UNCHANGED <<srq[p], cqRemote[p], m_postCount[p]>>
  PROVE  Stocked(p)'
BY DEF Stocked

LEMMA SuppliedSame ==
  ASSUME NEW p \in Procs, Supplied(p), UNCHANGED program,
         m_postCount[p] = PostCount => m_postCount'[p] = PostCount,
         \A s \in 0..(Len(program) - 1) :
           /\ program[s + 1].resize
           /\ s < step'[p] \/ (s = step'[p] /\ (m_resized'[p] \/ AtItsEnd(p)'))
           => s < step[p] \/ (s = step[p] /\ (m_resized[p] \/ AtItsEnd(p)))
  PROVE  Supplied(p)'
BY DEF Supplied

\* Nothing is in the completion queue of a process that reconnects.
LEMMA NothingToPurge ==
  ASSUME ResizesApart, IInv, OrderInv, DeliveryInv, NEW p \in Procs, reconnectQPs(p)
  PROVE  cqRemote[p] = {}
<1>1. at[p] = "reconnect" /\ Takes(program, step[p], "reconnect")
  BY DEF reconnectQPs, OrderInv, Situated
<1>2. /\ Resizes(program, step[p]) /\ program[step[p] + 1].mode = "DEFAULT"
      /\ step[p] < Len(program) /\ step[p] \in Nat /\ Counting(p) = step[p]
  BY <1>1 DEF Takes, Resizes, Counting, IInv, TypeOK, SpmdType
<1>3. step[p] + 1 \in DOMAIN program /\ LegalProgram(program) /\ program \in Programs
  BY <1>2, ProgramsAssumption DEF IInv
<1>4. program[step[p] + 1].barrier /\ program[step[p] + 1].rma = {}
  BY <1>2, <1>3 DEF LegalProgram, ResizesApart, Resizes
<1> SUFFICES ASSUME NEW w \in cqRemote[p]
             PROVE  FALSE
  OBVIOUS
<1>5. w \in sent /\ w.req.dst = p
  BY DEF DeliveryInv, Served, IInv, Conserved
<1>6. w.step \in Nat /\ Counting(p) <= w.step
  <2>1. w.step \in Nat
    BY <1>5 DEF IInv, TypeOK, SpmdType, WorkRequests
  <2>2. ~ (w.step < Counting(p))
    BY <1>5 DEF DeliveryInv, Served
  <2> QED BY <1>2, <2>1, <2>2
<1>7. w.step \in Ahead(program, step[p])
  BY <1>2, <1>5, <1>6, NotFarAhead
<1>8. ~ (step[p] < w.step)
  BY <1>2, <1>4, <1>6, <1>7 DEF Ahead
<1>9. w.step = step[p]
  BY <1>2, <1>6, <1>8
<1>10. w.req \in program[w.step + 1].rma
  BY <1>5 DEF DeliveryInv, Stamped
<1> QED BY <1>4, <1>9, <1>10

LEMMA ReceiveStep ==
  ASSUME ResizesApart, IInv, OrderInv, DeliveryInv, ReceiveInv, [Next]_vars
  PROVE  ReceiveInv'
<1>1. /\ srq \in [Procs -> Nat] /\ cqRemote \in [Procs -> SUBSET WorkRequests]
      /\ m_postCount \in [Procs -> 0..PostCount] /\ step \in [Procs -> Nat]
      /\ m_resized \in [Procs -> BOOLEAN] /\ at \in [Procs -> Locations]
      /\ run \in [Procs -> {"spmd", "aborting", "exited"}]
      /\ m_qps \in [Procs -> [staged : Nat, connected : Nat]]
  BY DEF IInv, TypeOK, MachineType, SyncType, SpmdType
<1>2. \A p \in Procs : Supplied(p) /\ Stocked(p)
  BY DEF ReceiveInv
<1>3. \A p \in Procs : IsFiniteSet(cqRemote[p]) /\ Cardinality(cqRemote[p]) \in Nat
  <2> SUFFICES ASSUME NEW p \in Procs
               PROVE  IsFiniteSet(cqRemote[p]) /\ Cardinality(cqRemote[p]) \in Nat
    OBVIOUS
  <2>1. cqRemote[p] \subseteq sent /\ IsFiniteSet(sent)
    BY DEF DeliveryInv, Served, IInv, Conserved
  <2> QED BY <2>1, FS_Subset, FS_CardinalityType
<1>4. ASSUME NEW p \in Procs, Program(p) PROVE ReceiveInv'
  <2>1. CASE resizeMesgQueue(p)
    <3>1. /\ srq' = [srq EXCEPT ![p] = @ + (PostCount - m_postCount[p])]
          /\ m_postCount' = [m_postCount EXCEPT ![p] = PostCount]
          /\ m_resized' = [m_resized EXCEPT ![p] = TRUE]
          /\ UNCHANGED <<program, step, run, at, cqRemote>>
      BY <2>1 DEF resizeMesgQueue, resizeMesgq
    <3>2. ASSUME NEW q \in Procs PROVE Supplied(q)' /\ Stocked(q)'
      <4>1. CASE q = p
        <5>1. Supplied(p)'
          BY <1>1, <3>1 DEF Supplied
        <5>2. Stocked(p)'
          <6>1. srq'[p] = srq[p] + (PostCount - m_postCount[p]) /\ m_postCount'[p] = PostCount
            BY <1>1, <3>1
          <6> QED BY <1>1, <1>2, <1>3, <3>1, <6>1, PostCountAssumption DEF Stocked
        <5> QED BY <4>1, <5>1, <5>2
      <4>2. CASE q # p
        <5>1. UNCHANGED <<srq[q], cqRemote[q], m_postCount[q], m_resized[q]>>
          BY <1>1, <3>1, <4>2
        <5> QED BY <1>2, <3>1, <5>1, StockedSame, SuppliedSame DEF AtItsEnd
      <4> QED BY <4>1, <4>2
    <3> QED BY <3>2 DEF ReceiveInv
  <2>2. CASE ~ resizeMesgQueue(p)
    <3>1. UNCHANGED <<srq, m_postCount, program>> /\ \A q \in Procs : cqRemote'[q] = cqRemote[q]
      <4>1. CASE Communicate(p) \/ sync(p) \/ Return(p) \/ VoteFailed(p)
        BY <4>1 DEF Communicate, put, get, atomic_fetch_and_add, atomic_cmp_and_swp, Post, sync,
           Return, SyncEnter, VoteFailed, SyncAborted
      <4>2. CASE SyncReturns(p) \/ SyncDone(p)
        BY <4>2 DEF SyncReturns, SyncKnown, SyncExchanged, Drained, SyncDone, SyncReleased
      <4>3. CASE SyncContinues(p)
        <5>1. CASE reconnectQPs(p)
          <6>1. cqRemote[p] = {}
            BY <5>1, NothingToPurge
          <6>2. UNCHANGED <<srq, m_postCount>>
            BY <5>1 DEF reconnectQPs, DestroyQPs
          <6>3. PICK purge \in BOOLEAN :
                  cqRemote' = [cqRemote EXCEPT ![p] = IF purge THEN {} ELSE @]
            BY <5>1 DEF reconnectQPs, DestroyQPs
          <6>4. \A q \in Procs : cqRemote'[q] = cqRemote[q]
            BY <1>1, <6>1, <6>3
          <6> QED BY <4>3, <6>2, <6>4 DEF SyncContinues
        <5>2. CASE ~ reconnectQPs(p)
          BY <4>3, <5>2 DEF SyncContinues, SyncVoted, SyncReconnected, SyncExchange, Drained
        <5> QED BY <5>1, <5>2
      <4> QED BY <1>4, <2>2, <4>1, <4>2, <4>3 DEF Program
    <3>2. \A q \in Procs : Stocked(q)'
      BY <1>2, <3>1, StockedSame
    <3>3. \A q \in Procs \ {p} : UNCHANGED <<step[q], m_resized[q], at[q], run[q]>>
      <4>1. CASE Communicate(p) \/ sync(p) \/ Return(p) \/ VoteFailed(p)
        BY <1>1, <4>1 DEF Communicate, put, get, atomic_fetch_and_add, atomic_cmp_and_swp, Post,
           sync, Return, SyncEnter, VoteFailed, SyncAborted
      <4>2. CASE SyncReturns(p) \/ SyncDone(p)
        BY <1>1, <4>2 DEF SyncReturns, SyncKnown, SyncExchanged, Activate, WithdrawResized, Drained,
           SyncDone, SyncReleased
      <4>3. CASE SyncContinues(p)
        BY <1>1, <4>3 DEF SyncContinues, SyncVoted, reconnectQPs, SyncReconnected, SyncExchange,
           Drained
      <4> QED BY <1>4, <2>2, <4>1, <4>2, <4>3 DEF Program
    <3>4. \A q \in Procs \ {p} : Supplied(q)'
      BY <1>2, <3>1, <3>3, SuppliedSame DEF AtItsEnd
    <3>5. Supplied(p)'
      <4>1. CASE Communicate(p) \/ VoteFailed(p) \/ SyncContinues(p)
        <5>1. step'[p] = step[p] /\ m_resized'[p] = m_resized[p] /\ (AtItsEnd(p)' => AtItsEnd(p))
          <6>1. CASE Communicate(p)
            BY <6>1 DEF Communicate, put, get, atomic_fetch_and_add, atomic_cmp_and_swp, Post,
               AtItsEnd
          <6>2. CASE VoteFailed(p)
            BY <1>1, <6>2 DEF VoteFailed, SyncAborted, AtItsEnd
          <6>3. CASE SyncContinues(p)
            BY <6>3 DEF SyncContinues, SyncVoted, VoteOver, reconnectQPs, SyncReconnected,
               SyncExchange, Drained, AtItsEnd
          <6> QED BY <4>1, <6>1, <6>2, <6>3
        <5> QED BY <1>2, <3>1, <5>1, SuppliedSame
      <4>2. CASE sync(p)
        <5>1. UNCHANGED <<step, m_resized>> /\ (Superstep(p).resize => m_resized[p])
          BY <4>2 DEF sync
        <5> QED BY <1>2, <3>1, <5>1, SuppliedSame DEF Superstep
      <4>3. CASE Return(p)
        <5>1. UNCHANGED <<step, m_resized>> /\ ~ AtItsEnd(p)'
          BY <1>1, <4>3 DEF Return, AtItsEnd
        <5> QED BY <1>2, <3>1, <5>1, SuppliedSame
      <4>4. CASE SyncReturns(p)
        <5>1. UNCHANGED <<step, run>> /\ at[p] # "out"
          BY <4>4 DEF SyncReturns, SyncKnown, SyncExchanged, Drained
        <5>2. run[p] = "spmd"
          <6>1. at[p] # "vote"
            BY <4>4 DEF SyncReturns, SyncKnown, SyncExchanged, Drained
          <6> QED BY <1>1, <5>1, <6>1 DEF IInv, Phases, Phase
        <5> QED BY <1>2, <3>1, <5>1, <5>2, SuppliedSame DEF AtItsEnd
      <4>5. CASE SyncDone(p)
        <5>1. /\ step' = [step EXCEPT ![p] = @ + 1] /\ UNCHANGED <<m_resized, run>>
              /\ at[p] = "wait" /\ at' = [at EXCEPT ![p] = "out"]
          BY <4>5 DEF SyncDone, SyncReleased
        <5>2. AtItsEnd(p) /\ ~ AtItsEnd(p)'
          BY <1>1, <5>1 DEF IInv, Phases, Phase, AtItsEnd
        <5>3. ~ m_resized[p]
          BY <5>1 DEF OrderInv, Resizing
        <5>4. step'[p] = step[p] + 1 /\ step[p] \in Nat /\ m_resized'[p] = m_resized[p]
          BY <1>1, <5>1
        <5>5. \A s \in 0..(Len(program) - 1) : s < step'[p] => s < step[p] \/ s = step[p]
          BY <5>4
        <5> QED BY <1>2, <3>1, <5>2, <5>3, <5>4, <5>5, SuppliedSame
      <4> QED BY <1>4, <2>2, <4>1, <4>2, <4>3, <4>4, <4>5 DEF Program
    <3> QED BY <3>2, <3>4, <3>5 DEF ReceiveInv
  <2> QED BY <2>1, <2>2
<1>5. ASSUME NEW p \in Procs, PollRemote(p) PROVE ReceiveInv'
  <2>1. PICK w \in cqRemote[p] : /\ cqRemote' = [cqRemote EXCEPT ![p] = @ \ {w}]
                                 /\ srq' = [srq EXCEPT ![p] = @ + 1]
    BY <1>5 DEF PollRemote, Poll, doRemoteProgress, Repost
  <2>2. UNCHANGED <<program, step, m_resized, run, at, m_postCount>>
    BY <1>5 DEF PollRemote, Poll, doRemoteProgress
  <2>3. \A q \in Procs : Supplied(q)'
    BY <1>2, <2>2, SuppliedSame DEF AtItsEnd
  <2>4. ASSUME NEW q \in Procs PROVE Stocked(q)'
    <3>1. CASE q = p
      <4>1. srq'[p] = srq[p] + 1 /\ cqRemote'[p] = cqRemote[p] \ {w}
        BY <1>1, <2>1
      <4>2. Cardinality(cqRemote[p] \ {w}) = Cardinality(cqRemote[p]) - 1
        BY <1>3, <2>1, FS_RemoveElement
      <4> QED BY <1>1, <1>2, <1>3, <2>2, <3>1, <4>1, <4>2 DEF Stocked
    <3>2. CASE q # p
      <4>1. UNCHANGED <<srq[q], cqRemote[q], m_postCount[q]>>
        BY <1>1, <2>1, <2>2, <3>2
      <4> QED BY <1>2, <4>1, StockedSame
    <3> QED BY <3>1, <3>2
  <2> QED BY <2>3, <2>4 DEF ReceiveInv
<1>6. CASE Fabric
  <2>1. PICK w \in wire : Deliver(w)
    BY <1>6 DEF Fabric
  <2>2. /\ cqRemote' = [cqRemote EXCEPT ![w.req.dst] = @ \cup {w}]
        /\ srq' = [srq EXCEPT ![w.req.dst] = @ - 1]
        /\ UNCHANGED <<program, step, m_resized, run, at, m_postCount>>
    BY <1>6, <2>1 DEF Fabric, Deliver
  <2>3. \A q \in Procs : Supplied(q)'
    BY <1>2, <2>2, SuppliedSame DEF AtItsEnd
  <2>4. ASSUME NEW q \in Procs PROVE Stocked(q)'
    <3>1. CASE q = w.req.dst
      <4>1. srq'[q] = srq[q] - 1 /\ cqRemote'[q] = cqRemote[q] \cup {w}
        BY <1>1, <2>2, <3>1
      <4>2. w \notin cqRemote[q]
        BY DEF IInv, Conserved, DeliveryInv, Served
      <4>3. Cardinality(cqRemote[q] \cup {w}) = Cardinality(cqRemote[q]) + 1
        BY <1>3, <4>2, FS_AddElement
      <4>4. srq'[q] + Cardinality(cqRemote'[q]) = srq[q] + Cardinality(cqRemote[q])
        <5>1. srq[q] \in Nat /\ Cardinality(cqRemote[q]) \in Nat
          BY <1>1, <1>3
        <5> QED BY <4>1, <4>3, <5>1
      <4> QED BY <1>2, <2>2, <4>4 DEF Stocked
    <3>2. CASE q # w.req.dst
      <4>1. UNCHANGED <<srq[q], cqRemote[q], m_postCount[q]>>
        BY <1>1, <2>2, <3>2
      <4> QED BY <1>2, <4>1, StockedSame
    <3> QED BY <3>1, <3>2
  <2> QED BY <2>3, <2>4 DEF ReceiveInv
<1>7. CASE (\E p \in Procs : PollLocal(p) \/ PollBlock(p) \/ PollSync(p)) \/ UNCHANGED vars
  <2>1. UNCHANGED <<program, step, m_resized, run, at, m_postCount, srq, cqRemote>>
    BY <1>7 DEF PollLocal, PollBlock, PollSync, Poll, doLocalProgress, processBlock,
       processSyncRequest, vars
  <2> QED BY <1>2, <2>1, SuppliedSame, StockedSame DEF AtItsEnd, ReceiveInv
<1> QED BY <1>4, <1>5, <1>6, <1>7 DEF Next, Finished, Polling

\* rnr_retry = 0 is safe: a request finds a posted receive, however far the
\* processes are apart and however slowly they poll.
THEOREM ReceivesPosted ==
  ASSUME Disciplined, RingSuffices, DefaultResizes, ResizesApart, ReceivesSuffice
  PROVE  Spec => []ReceivePosted
<1>1. Init => ReceiveInv
  <2> SUFFICES ASSUME Init, NEW p \in Procs
               PROVE  Supplied(p) /\ Stocked(p)
    BY DEF ReceiveInv
  <2>1. /\ step[p] = 0 /\ ~ m_resized[p] /\ at[p] = "out" /\ srq[p] = 0
        /\ cqRemote[p] = {} /\ m_postCount[p] = 0
    BY DEF Init, MachineInit, EngineInit
  <2> QED BY <2>1, FS_EmptySet DEF Supplied, Stocked, AtItsEnd
<1>2. IInv /\ OrderInv /\ DeliveryInv /\ ReceiveInv /\ [Next]_vars => ReceiveInv'
  BY ReceiveStep
<1>3. IInv /\ OrderInv /\ DeliveryInv /\ ReceiveInv => ReceivePosted
  <2> SUFFICES ASSUME IInv, OrderInv, DeliveryInv, ReceiveInv, NEW w \in wire
               PROVE  srq[w.req.dst] > 0
    BY DEF ReceivePosted
  <2> DEFINE p == w.req.src
             q == w.req.dst
  <2>1. w \in sent /\ w \notin executed /\ w \notin cqRemote[q] /\ p \in Procs /\ q \in Procs
    BY DEF IInv, Conserved, TypeOK, MachineType, WorkRequests, Requests, DeliveryInv, Served
  <2>2. /\ w.step \in Nat /\ w.step < Len(program) /\ w.step <= step[p]
        /\ w.req \in program[w.step + 1].rma /\ step[p] \in Nat /\ Len(program) \in Nat
    BY <2>1 DEF IInv, TypeOK, SpmdType, WorkRequests, DeliveryInv, Stamped
  <2>3. PICK t \in 1..w.step : program[t].resize
    <3>1. w.step + 1 \in DOMAIN program /\ program[w.step + 1].rma # {} /\ program \in Programs
      BY <2>2 DEF IInv, TypeOK, SpmdType
    <3>2. \E t \in 1..((w.step + 1) - 1) : program[t].resize
      BY <3>1 DEF ResizesApart
    <3> QED BY <2>2, <3>2
  <2>4. t - 1 \in 0..(w.step - 1) /\ t \in DOMAIN program
    BY <2>2 DEF IInv, TypeOK, SpmdType
  <2>5. program[(t - 1) + 1].barrier /\ program[(t - 1) + 1].resize
    <3>1. LegalProgram(program) /\ program \in Programs /\ (t - 1) + 1 = t
      BY <2>4, ProgramsAssumption DEF IInv
    <3> QED BY <2>3, <2>4, <3>1 DEF DefaultResizes, LegalProgram
  <2>6. t - 1 \in 0..(m_sync_counter[p] - 1)
    <3>1. m_sync_counter[p] = step[p] \/ m_sync_counter[p] = step[p] + 1
      BY <2>1 DEF DeliveryInv, Numbered
    <3> HIDE DEF p
    <3> QED BY <2>2, <2>4, <3>1
  <2>7. t - 1 \in 0..(Counting(q) - 1) /\ t - 1 <= step[q]
    BY <2>1, <2>5, <2>6, BeyondBarrier
  <2>8. m_postCount[q] = PostCount
    <3>1. t - 1 < step[q] \/ (t - 1 = step[q] /\ at[q] = "wait")
      <4>1. step[q] \in Nat
        BY <2>1 DEF IInv, TypeOK, SpmdType
      <4>2. Counting(q) = step[q] \/ (at[q] = "wait" /\ Counting(q) = step[q] + 1)
        BY DEF Counting
      <4> HIDE DEF q
      <4> QED BY <2>2, <2>7, <4>1, <4>2
    <3>2. at[q] = "wait" => AtItsEnd(q)
      BY <2>1 DEF IInv, TypeOK, SpmdType, Phases, Phase, AtItsEnd
    <3>3. t - 1 \in 0..(Len(program) - 1)
      BY <2>2, <2>4
    <3> QED BY <2>1, <2>5, <3>1, <3>2, <3>3 DEF ReceiveInv, Supplied
  <2>9. Cardinality(cqRemote[q]) < PostCount /\ Cardinality(cqRemote[q]) \in Nat
    <3>1. w \in Unseen(q) /\ cqRemote[q] \subseteq Unseen(q) \ {w}
      BY <2>1 DEF Unseen, DeliveryInv, Served, IInv, Conserved
    <3>2. /\ IsFiniteSet(Unseen(q)) /\ Cardinality(Unseen(q)) \in Nat
          /\ Cardinality(Unseen(q)) <= PostCount
      BY <2>1, UnseenBound
    <3> HIDE DEF q
    <3>3. /\ IsFiniteSet(Unseen(q) \ {w})
          /\ Cardinality(Unseen(q) \ {w}) = Cardinality(Unseen(q)) - 1
      BY <3>1, <3>2, FS_RemoveElement
    <3>4. /\ IsFiniteSet(cqRemote[q])
          /\ Cardinality(cqRemote[q]) <= Cardinality(Unseen(q) \ {w})
      BY <3>1, <3>3, FS_Subset
    <3>5. Cardinality(cqRemote[q]) \in Nat
      BY <3>4, FS_CardinalityType
    <3> QED BY <3>2, <3>3, <3>4, <3>5, PostCountAssumption
  <2>10. srq[q] + Cardinality(cqRemote[q]) = PostCount /\ srq[q] \in Nat
    BY <2>1, <2>8 DEF ReceiveInv, Stocked, IInv, TypeOK, MachineType
  <2> HIDE DEF q
  <2>11. srq[q] > 0
    BY <2>9, <2>10, PostCountAssumption
  <2> QED BY <2>11 DEF q
<1> QED BY <1>1, <1>2, <1>3, Invariant, OrderInvariant, DeliveryInvariant, PTL DEF Spec

----------------------------------------------------------------------------
(* The engine implements the promise *)

\* A process is told how it ended only when it leaves.
Untold == \A p \in Procs : run[p] # "exited" => status[p] = "none"

LEMMA UntoldStep ==
  ASSUME IInv, Untold, [Next]_vars
  PROVE  Untold'
<1>1. /\ run \in [Procs -> {"spmd", "aborting", "exited"}]
      /\ status \in [Procs -> {"none", "LPF_SUCCESS", "LPF_ERR_FATAL"}]
  BY DEF IInv, TypeOK, SpmdType
<1>2. ASSUME NEW p \in Procs, Return(p) \/ VoteFailed(p)
      PROVE  Untold'
  BY <1>1, <1>2 DEF Untold, Return, VoteFailed
<1>3. ASSUME UNCHANGED <<run, status>>
      PROVE  Untold'
  BY <1>3 DEF Untold
<1>4. ASSUME NEW p \in Procs, Program(p), ~ Return(p), ~ VoteFailed(p)
      PROVE  UNCHANGED <<run, status>>
  BY <1>4 DEF Program, Communicate, resizeMesgQueue, sync, SyncReturns, SyncContinues, SyncDone
<1>5. ASSUME NEW p \in Procs, Polling(p)
      PROVE  UNCHANGED <<run, status>>
  BY <1>5 DEF Polling, PollLocal, PollRemote, PollBlock, PollSync, Poll
<1>6. ASSUME Fabric \/ UNCHANGED vars
      PROVE  UNCHANGED <<run, status>>
  BY <1>6 DEF Fabric, vars
<1> QED BY <1>2, <1>3, <1>4, <1>5, <1>6 DEF Next, Finished

Issued == {[req |-> w.req, step |-> w.step] : w \in sent}
Left   == {p \in Procs : run[p] # "spmd"}

\* talpf_put and its like issue one operation.
LEMMA CommunicateIssues ==
  ASSUME IInv, NEW p \in Procs, Communicate(p)
  PROVE  Promise!Issue(p)
<1>1. PICK r \in Pending(p) : Post(r, step[p])
  BY DEF Communicate, put, get, atomic_fetch_and_add, atomic_cmp_and_swp
<1>2. PICK w : w = [req |-> r, step |-> step[p], imm |-> m_sync_counter[r.src]]
  OBVIOUS
<1>3. /\ Computing(p) /\ UNCHANGED <<program, step, run, status, executed>>
      /\ sent' = sent \cup {w}
  <2>1. wire' = wire \cup {w} /\ wire \subseteq sent
    BY <1>1, <1>2 DEF Post, IInv, Conserved
  <2> QED BY <1>1, <2>1 DEF Communicate, Post
<1>4. /\ r \in Superstep(p).rma /\ r.src = p
      /\ \A v \in sent : ~ (v.req = r /\ v.step = step[p])
  BY DEF Pending
<1>5. Issued' = Issued \cup {[req |-> r, step |-> step[p]]}
  BY <1>2, <1>3 DEF Issued
<1>6. [req |-> r, step |-> step[p]] \notin Issued
  BY <1>4 DEF Issued
<1>7. UNCHANGED <<program, step, Done, Left, status>>
  BY <1>3 DEF Done, Left
<1>8. p \notin Left /\ step[p] < Len(program)
  BY <1>3 DEF Left, Computing
<1> QED BY <1>4, <1>5, <1>6, <1>7, <1>8 DEF Promise!Issue, Promise!Superstep, Superstep, Issued,
       Left

\* The fabric completes one.
LEMMA FabricCompletes ==
  ASSUME IInv, Fabric
  PROVE  Promise!Complete
<1>1. PICK w \in wire : Deliver(w)
  BY DEF Fabric
<1>2. /\ w \in sent /\ executed' = executed \cup {w}
      /\ UNCHANGED <<program, step, sent, run, status>>
  BY <1>1 DEF Fabric, Deliver, IInv, Conserved
<1>3. Done' = Done \cup {[req |-> w.req, step |-> w.step]}
  BY <1>2 DEF Done
<1>4. [req |-> w.req, step |-> w.step] \in Issued
  BY <1>2 DEF Issued
<1>5. UNCHANGED <<program, step, Issued, Left, status>>
  BY <1>2 DEF Issued, Left
<1> QED BY <1>3, <1>4, <1>5 DEF Promise!Complete, Issued, Left

\* The sync task ends with everything in place that sync promises.
LEMMA DoneSyncs ==
  ASSUME IInv, OrderInv, DeliveryInv, SyncDelivers, NEW p \in Procs, SyncDone(p)
  PROVE  Promise!Sync(p)
<1>1. /\ at[p] = "wait" /\ syncEvents[p] = 0 /\ step' = [step EXCEPT ![p] = @ + 1]
      /\ UNCHANGED <<program, sent, executed, run, status>>
  BY DEF SyncDone, SyncReleased
<1>2. run[p] = "spmd" /\ ~ syncRequest[p].isActive
  <2>1. Phase(p) /\ run[p] \in {"spmd", "aborting", "exited"}
    BY DEF IInv, TypeOK, SpmdType, Phases
  <2> QED BY <1>1, <2>1 DEF Phase
<1>3. p \notin Left /\ step[p] < Len(program)
  BY <1>1, <1>2 DEF Left, IInv, Phases, Phase
<1>4. step[p] \in 0..(m_sync_counter[p] - 1)
  <2>1. m_sync_counter[p] = step[p] + 1 /\ step[p] \in Nat
    BY <1>1, <1>2 DEF DeliveryInv, Numbered, IInv, TypeOK, SpmdType
  <2> QED BY <2>1
<1>5. \A r \in Superstep(p).rma :
        p \in {r.src, r.dst} => [req |-> r, step |-> step[p]] \in Done
  BY <1>4 DEF SyncDelivers, IsDelivered, Done, Superstep
<1>6. Superstep(p).barrier => \A q \in Procs : step[p] <= step[q]
  BY <1>4, BeyondBarrier DEF Superstep
<1>7. UNCHANGED <<program, Issued, Done, Left, status>>
  BY <1>1 DEF Issued, Done, Left
<1> QED BY <1>1, <1>3, <1>5, <1>6, <1>7 DEF Promise!Sync, Promise!Superstep, Superstep, Issued,
       Left

LEMMA ReturnLeaves ==
  ASSUME IInv, Untold, NEW p \in Procs, Return(p)
  PROVE  Promise!Leave(p)
<1>1. /\ run[p] = "spmd" /\ UNCHANGED <<program, step, sent, executed>>
      /\ \/ run' = [run EXCEPT ![p] = "aborting"] /\ UNCHANGED status
         \/ /\ run' = [run EXCEPT ![p] = "exited"]
            /\ status' = [status EXCEPT ![p] = "LPF_ERR_FATAL"]
  BY DEF Return, SyncEnter
<1>2. run \in [Procs -> {"spmd", "aborting", "exited"}]
  BY DEF IInv, TypeOK, SpmdType
<1>3. p \notin Left /\ Left' = Left \cup {p}
  BY <1>1, <1>2 DEF Left
<1>4. status[p] = "none"
  BY <1>1 DEF Untold
<1>5. UNCHANGED <<program, step, Issued, Done>>
  BY <1>1 DEF Issued, Done
<1> QED BY <1>1, <1>3, <1>4, <1>5 DEF Promise!Leave, Issued, Left

\* Interface::abort reports LPF_SUCCESS only when all have voted for aborting.
LEMMA VoteFailedExits ==
  ASSUME IInv, OrderInv, VotesInv, Untold, NEW p \in Procs, VoteFailed(p)
  PROVE  Promise!Exit(p) \/ UNCHANGED Promise!bspVars
<1>1. UNCHANGED <<program, step, sent, executed>> /\ VoteOver(p)
  BY DEF VoteFailed, SyncAborted
<1>2. run \in [Procs -> {"spmd", "aborting", "exited"}]
  BY DEF IInv, TypeOK, SpmdType
<1>3. UNCHANGED <<program, step, Issued, Done>>
  BY <1>1 DEF Issued, Done
<1>4. CASE run[p] # "aborting"
  <2>1. UNCHANGED <<Left, status>>
    BY <1>4 DEF VoteFailed, Left
  <2> QED BY <1>3, <2>1 DEF Promise!bspVars, Issued, Left
<1>5. CASE run[p] = "aborting"
  <2>1. /\ run' = [run EXCEPT ![p] = "exited"]
        /\ status' = [status EXCEPT ![p] = Verdict(p)] /\ status[p] = "none"
    BY <1>5 DEF VoteFailed, Untold
  <2>2. p \in Left /\ Left' = Left
    BY <1>2, <1>5, <2>1 DEF Left
  <2>3. ASSUME Verdict(p) # "LPF_ERR_FATAL"
        PROVE  Verdict(p) = "LPF_SUCCESS" /\ Left = Procs
    <3>1. VotedAbort(p) = Cardinality(Procs) /\ Verdict(p) = "LPF_SUCCESS"
      BY <2>3 DEF Verdict
    <3>2. {q \in Procs : Contributions(p)[q].abort} = Procs
      BY <3>1, ProcsAssumption, FS_Subset DEF VotedAbort
    <3>3. ASSUME NEW q \in Procs
          PROVE  run[q] # "spmd"
      <4>1. LastCall(p) \in DOMAIN calls[q]
        BY <1>1, VoteContents
      <4>2. calls[q][LastCall(p)].abort
        BY <3>2 DEF Contributions
      <4> QED BY <4>1, <4>2 DEF VotesInv, Staying
    <3> QED BY <3>1, <3>3 DEF Left
  <2>4. \/ status' = [status EXCEPT ![p] = "LPF_ERR_FATAL"]
        \/ Left = Procs /\ status' = [status EXCEPT ![p] = "LPF_SUCCESS"]
    BY <2>1, <2>3
  <2> QED BY <1>3, <2>1, <2>2, <2>4 DEF Promise!Exit, Issued, Left
<1> QED BY <1>4, <1>5

LEMMA StepImplements ==
  ASSUME IInv, OrderInv, VotesInv, DeliveryInv, SyncDelivers, Untold, [Next]_vars
  PROVE  [Promise!Next]_(Promise!bspVars)
<1>1. ASSUME UNCHANGED <<program, step, sent, executed, run, status>>
      PROVE  UNCHANGED Promise!bspVars
  BY <1>1 DEF Promise!bspVars, Done
<1>2. ASSUME NEW p \in Procs, Program(p)
      PROVE  [Promise!Next]_(Promise!bspVars)
  <2>1. CASE resizeMesgQueue(p) \/ sync(p)
    BY <1>1, <2>1 DEF resizeMesgQueue, resizeMesgq, sync, SyncEnter
  <2>2. CASE SyncReturns(p)
    BY <1>1, <2>2 DEF SyncReturns, SyncKnown, SyncExchanged, Drained
  <2>3. CASE SyncContinues(p)
    BY <1>1, <2>3 DEF SyncContinues, SyncVoted, reconnectQPs, DestroyQPs, SyncReconnected,
       SyncExchange, Drained
  <2> QED BY <1>2, <2>1, <2>2, <2>3, CommunicateIssues, DoneSyncs, ReturnLeaves, VoteFailedExits
          DEF Program, Promise!Next
<1>3. ASSUME NEW p \in Procs, Polling(p)
      PROVE  [Promise!Next]_(Promise!bspVars)
  BY <1>1, <1>3 DEF Polling, PollLocal, PollRemote, PollBlock, PollSync, Poll, doLocalProgress,
     doRemoteProgress, processBlock, processSyncRequest
<1>4. ASSUME UNCHANGED vars
      PROVE  [Promise!Next]_(Promise!bspVars)
  BY <1>1, <1>4 DEF vars
<1> QED BY <1>2, <1>3, <1>4, FabricCompletes DEF Next, Finished, Promise!Next

\* The engine keeps the promise of core.h: every step of the processes, of their
\* polling tasks and of the fabric is one of the promise or changes nothing a
\* program sees.  A superstep ends at a process with its operations in place, a
\* barrier lets nobody ahead, and LPF_SUCCESS means that all have left.
THEOREM BspImplemented ==
  ASSUME Disciplined, RingSuffices PROVE Spec => ImplementsBsp
<1>1. Init => Promise!Init
  BY DEF Init, MachineInit, Promise!Init, Done
<1>2. Init => Untold
  BY DEF Init, Untold
<1>3. IInv /\ Untold /\ [Next]_vars => Untold'
  BY UntoldStep
<1>4. /\ IInv /\ OrderInv /\ VotesInv /\ DeliveryInv /\ SyncDelivers /\ Untold
      /\ [Next]_vars
      => [Promise!Next]_(Promise!bspVars)
  BY StepImplements
<1> QED BY <1>1, <1>2, <1>3, <1>4, Invariant, OrderInvariant, VotesInvariant, DeliveryInvariant,
           OperationsDelivered, PTL DEF Spec, ImplementsBsp, Promise!Spec
=============================================================================
