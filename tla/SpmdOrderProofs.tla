--------------------------- MODULE SpmdOrderProofs ---------------------------
(***************************************************************************)
(* The order of the collective calls, for any number of processes and any  *)
(* legal programs.  Each process decides on its own which collectives it   *)
(* calls: from the mode of the superstep, its cache of arrival counts, its *)
(* request to resize and the outcome of the vote.  The invariant says that *)
(* all decide alike: the program alone fixes an agenda of collectives, and *)
(* the calls a process has made are that agenda up to where it is.         *)
(***************************************************************************)
EXTENDS SpmdProofs

USE DEF cacheVars, doneVars, rmaVars, fabricVars, machineVars, spmdVars,
        engineVars

\* A process may return early only if each superstep lets the others know.
Disciplined ==
  Quitters = {} \/ \A prog \in Programs : \A s \in DOMAIN prog : prog[s].mode = "DEFAULT"

----------------------------------------------------------------------------
(* The agenda of a program *)

\* Is the cached number of arrivals valid when superstep s begins?
CacheValid(prog, s) ==
  \E t \in 0..(s - 1) : /\ prog[t + 1].mode = "CACHED"
                        /\ \A u \in t..(s - 1) : prog[u + 1].mode # "DEFAULT"

Resizes(prog, s) == s < Len(prog) /\ prog[s + 1].resize

\* Superstep s of the program calls the collective op.  The vote of superstep
\* Len(prog) is that of the processes that leave.
Takes(prog, s, op) ==
  \/ /\ op = "vote"
     /\ s = Len(prog) \/ (s < Len(prog) /\ prog[s + 1].mode = "DEFAULT")
  \/ /\ op \in {"reconnect", "reconnected"}
     /\ Resizes(prog, s) /\ prog[s + 1].mode = "DEFAULT"
  \/ /\ op = "sum"
     /\ s < Len(prog)
     /\ \/ prog[s + 1].mode = "DEFAULT"
        \/ prog[s + 1].mode = "CACHED" /\ ~ CacheValid(prog, s)
  \/ /\ op = "barrier"
     /\ s < Len(prog) /\ prog[s + 1].barrier

\* The collectives of a superstep come in this order.
Rank(op) == IF op = "vote" THEN 0 ELSE IF op = "reconnect" THEN 1
            ELSE IF op = "reconnected" THEN 2 ELSE IF op = "sum" THEN 3 ELSE 4
Moment(s, op) == 5 * s + Rank(op)

Occupied(prog, t) ==
  \E s \in 0..Len(prog), op \in CollectiveOps : Takes(prog, s, op) /\ t = Moment(s, op)

\* The agenda up to moment t, and how many calls it has.
Agenda(prog, t) == {u \in 0..t : Occupied(prog, u)}
Place(prog, t)  == Cardinality(Agenda(prog, t))

LEMMA PlaceType ==
  ASSUME NEW prog, NEW t \in Int
  PROVE  IsFiniteSet(Agenda(prog, t)) /\ Place(prog, t) \in Nat
<1>1. IsFiniteSet(0..t)
  BY FS_Interval
<1>2. IsFiniteSet(Agenda(prog, t))
  BY <1>1, FS_Subset DEF Agenda
<1> QED BY <1>2, FS_CardinalityType DEF Place

\* Where the agenda is empty no call is made.
LEMMA PlaceSame ==
  ASSUME NEW prog, NEW t \in Int, NEW u \in Int, t <= u,
         \A x \in (t + 1)..u : ~ Occupied(prog, x)
  PROVE  Place(prog, u) = Place(prog, t)
<1>1. Agenda(prog, u) = Agenda(prog, t)
  BY DEF Agenda
<1> QED BY <1>1 DEF Place

LEMMA PlaceNext ==
  ASSUME NEW prog, NEW t \in Int, NEW u \in Nat, t < u, Occupied(prog, u),
         \A x \in (t + 1)..(u - 1) : ~ Occupied(prog, x)
  PROVE  Place(prog, u) = Place(prog, t) + 1
<1>1. Agenda(prog, u) = Agenda(prog, t) \cup {u} /\ u \notin Agenda(prog, t)
  BY DEF Agenda
<1> QED BY <1>1, PlaceType, FS_AddElement DEF Place

\* Who has made at least as many calls as there are up to an agenda item has
\* reached the item.
LEMMA PlaceReached ==
  ASSUME NEW prog, NEW t \in Int, NEW u \in Nat, Occupied(prog, u),
         Place(prog, u) <= Place(prog, t)
  PROVE  u <= t
<1> SUFFICES ASSUME t < u PROVE FALSE
  OBVIOUS
<1>1. Agenda(prog, t) \subseteq Agenda(prog, u) /\ u \in Agenda(prog, u) \ Agenda(prog, t)
  BY DEF Agenda
<1>2. Place(prog, t) <= Place(prog, u) /\ Place(prog, t) # Place(prog, u)
  BY <1>1, PlaceType, FS_Subset DEF Place
<1> QED BY <1>2, PlaceType

LEMMA PlaceUnique ==
  ASSUME NEW prog, NEW t \in Nat, NEW u \in Nat, Occupied(prog, t), Occupied(prog, u),
         Place(prog, u) = Place(prog, t)
  PROVE  u = t
<1>1. Place(prog, u) <= Place(prog, t) /\ Place(prog, t) <= Place(prog, u)
  BY PlaceType
<1> QED BY <1>1, PlaceReached

LEMMA MomentType ==
  ASSUME NEW s \in Nat, NEW op
  PROVE  Moment(s, op) \in Nat /\ 5 * s <= Moment(s, op) /\ Moment(s, op) <= 5 * s + 4
BY DEF Moment, Rank

\* An agenda item is one collective of one superstep.
LEMMA MomentUnique ==
  ASSUME NEW s \in Nat, NEW t \in Nat, NEW op \in CollectiveOps, NEW oq \in CollectiveOps,
         Moment(s, op) = Moment(t, oq)
  PROVE  s = t /\ op = oq
<1>1. /\ Rank(op) \in 0..4 /\ Rank(oq) \in 0..4
      /\ 5 * s + Rank(op) = 5 * t + Rank(oq)
  BY DEF Rank, Moment
<1>2. s = t
  BY <1>1
<1>3. Rank(op) = Rank(oq)
  BY <1>1, <1>2
<1> QED BY <1>2, <1>3 DEF Rank, CollectiveOps

\* What lies between two moments of a superstep is a collective of it.
LEMMA Between ==
  ASSUME NEW prog, NEW s \in Nat, NEW a \in -1..4, NEW b \in -1..4,
         NEW x \in (5 * s + a + 1)..(5 * s + b), Occupied(prog, x)
  PROVE  \E op \in CollectiveOps : Takes(prog, s, op) /\ a < Rank(op) /\ Rank(op) <= b
<1>1. PICK t \in 0..Len(prog), op \in CollectiveOps : Takes(prog, t, op) /\ x = Moment(t, op)
  BY DEF Occupied
<1>2. t \in Nat /\ Rank(op) \in 0..4 /\ x = 5 * t + Rank(op)
  BY <1>1 DEF Rank, Moment
<1>3. t = s
  BY <1>2
<1>4. a < Rank(op) /\ Rank(op) <= b
  BY <1>2, <1>3
<1> QED BY <1>1, <1>3, <1>4

\* The cache becomes valid with LPF_SYNC_CACHED and invalid with the default
\* mode; the other mode does not touch it.
LEMMA CacheNext ==
  ASSUME NEW prog, NEW s \in Nat
  PROVE  CacheValid(prog, s + 1) <=>
           /\ prog[s + 1].mode # "DEFAULT"
           /\ CacheValid(prog, s) \/ prog[s + 1].mode = "CACHED"
<1>1. ASSUME CacheValid(prog, s + 1)
      PROVE  /\ prog[s + 1].mode # "DEFAULT"
             /\ CacheValid(prog, s) \/ prog[s + 1].mode = "CACHED"
  BY <1>1 DEF CacheValid
<1>2. ASSUME prog[s + 1].mode = "CACHED"
      PROVE  CacheValid(prog, s + 1)
  <2>1. /\ s \in 0..((s + 1) - 1) /\ prog[s + 1].mode = "CACHED"
        /\ \A u \in s..((s + 1) - 1) : prog[u + 1].mode # "DEFAULT"
    BY <1>2
  <2> QED BY <2>1 DEF CacheValid
<1>3. ASSUME prog[s + 1].mode # "DEFAULT", CacheValid(prog, s)
      PROVE  CacheValid(prog, s + 1)
  BY <1>3 DEF CacheValid
<1> QED BY <1>1, <1>2, <1>3

----------------------------------------------------------------------------
(* The invariant *)

\* The first half of a synchronisation: arrivals are awaited.
Awaiting(p) == syncRequest[p].isActive /\ ~ syncRequest[p].secondPhase

\* The moment up to which process p has made its calls.
Stage(p) == IF at[p] = "out" THEN IF m_aborted[p] # 0 THEN 0 ELSE -1
            ELSE IF at[p] = "vote" THEN 0
            ELSE IF at[p] = "reconnect" THEN 1
            ELSE IF at[p] \in {"reconnected", "drain"} THEN 2
            ELSE IF at[p] = "sum" \/ Awaiting(p) THEN 3
            ELSE 4
Reached(p) == 5 * step[p] + Stage(p)

\* Call record c is what superstep s contributes to the collective op.
Fits(prog, c, s, op) ==
  /\ c.op = op
  /\ op = "vote" /\ ~ c.abort => c.resized = Resizes(prog, s)

\* The calls of p are the agenda up to where p is.
Ordered(p) ==
  /\ LastCall(p) = Place(program, Reached(p))
  /\ \A n \in DOMAIN calls[p] : \E s \in 0..Len(program), op \in CollectiveOps :
       /\ Takes(program, s, op)
       /\ n = Place(program, Moment(s, op))
       /\ Fits(program, calls[p][n], s, op)

\* What p knows when it decides about its next call.
Situated(p) ==
  /\ at[p] \in {"vote", "reconnect", "reconnected", "sum"} => Takes(program, step[p], at[p])
  /\ m_aborted[p] # 0 => at[p] = "out"
  /\ run[p] = "exited" => m_aborted[p] # 0
  /\ syncRequest[p].secondPhase => syncRequest[p].isActive /\ syncRequest[p].withBarrier
  /\ syncRequest[p].isActive => syncRequest[p].withBarrier = Superstep(p).barrier
  /\ m_sync_cached[p] =
       IF at[p] = "sum" THEN CacheValid(program, step[p]) \/ Superstep(p).mode = "CACHED"
       ELSE IF at[p] = "wait" THEN CacheValid(program, step[p] + 1)
       ELSE CacheValid(program, step[p])

\* A request to resize is pending exactly from lpf_resize_message_queue to the
\* end of the superstep, and the queue pairs it staged until they are swapped in.
Resizing(p) ==
  /\ m_resized[p] /\ at[p] \in {"out", "vote", "reconnect"} => m_qps[p].staged = step[p] + 1
  /\ m_resized[p] => Resizes(program, step[p]) /\ at[p] # "wait"
  /\ run[p] = "spmd" /\ at[p] \in {"vote", "reconnect"} =>
       m_resized[p] = Resizes(program, step[p])

\* The polling task has released the vote: everybody has cast its own.
Voted(p) ==
  at[p] = "vote" /\ ~ m_blockTask[p] => \A q \in Procs : LastCall(p) <= LastCall(q)

OrderInv ==
  /\ \A p \in Procs : Ordered(p) /\ Situated(p) /\ Resizing(p)
  /\ \A p \in Procs : Voted(p)


LEMMA ReachedType ==
  ASSUME TypeOK, NEW p \in Procs
  PROVE  Stage(p) \in -1..4 /\ step[p] \in Nat /\ Reached(p) \in Int
<1>1. Stage(p) \in -1..4 /\ step[p] \in Nat
  BY DEF TypeOK, SpmdType, Stage
<1> QED BY <1>1 DEF Reached

\* p goes on without a call: the superstep has none in between.
LEMMA GoesOn ==
  ASSUME program \in Programs, TypeOK, NEW p \in Procs, Ordered(p), program' = program,
         calls'[p] = calls[p],
         NEW a \in -1..4, NEW b \in -1..4, a <= b,
         Reached(p) = 5 * step[p] + a, Reached(p)' = 5 * step[p] + b,
         \A op \in CollectiveOps :
           Takes(program, step[p], op) => Rank(op) <= a \/ b < Rank(op)
  PROVE  Ordered(p)'
<1>1. step[p] \in Nat
  BY DEF TypeOK, SpmdType
<1>2. \A x \in (5 * step[p] + a + 1)..(5 * step[p] + b) : ~ Occupied(program, x)
  <2> SUFFICES ASSUME NEW x \in (5 * step[p] + a + 1)..(5 * step[p] + b), Occupied(program, x)
               PROVE  FALSE
    OBVIOUS
  <2>1. PICK op \in CollectiveOps : Takes(program, step[p], op) /\ a < Rank(op) /\ Rank(op) <= b
    BY <1>1, Between
  <2>2. Rank(op) <= a \/ b < Rank(op)
    BY <2>1
  <2>3. Rank(op) \in 0..4
    BY DEF Rank
  <2> QED BY <2>1, <2>2, <2>3
<1> DEFINE t == 5 * step[p] + a
           u == 5 * step[p] + b
<1>3. Place(program, u) = Place(program, t)
  <2>1. t \in Int /\ u \in Int /\ t <= u
    BY <1>1
  <2>2. \A x \in (t + 1)..u : ~ Occupied(program, x)
    BY <1>2
  <2> HIDE DEF t, u
  <2> QED BY <2>1, <2>2, PlaceSame
<1> QED BY <1>3 DEF Ordered, LastCall

\* p makes the next call of the agenda.
LEMMA CallsNext ==
  ASSUME program \in Programs, TypeOK, Phases, NEW p \in Procs, Ordered(p), program' = program,
         NEW op \in CollectiveOps, NEW c, Enter(p, c),
         Takes(program, step[p], op), Fits(program, c, step[p], op),
         NEW a \in -1..4, a < Rank(op),
         Reached(p) = 5 * step[p] + a, Reached(p)' = Moment(step[p], op),
         \A oq \in CollectiveOps :
           Takes(program, step[p], oq) => Rank(oq) <= a \/ Rank(op) <= Rank(oq)
  PROVE  Ordered(p)'
<1>1. step[p] \in Nat /\ step[p] \in 0..Len(program) /\ Rank(op) \in 0..4
  BY DEF TypeOK, SpmdType, Phases, Phase, Rank
<1> DEFINE t == 5 * step[p] + a
           u == Moment(step[p], op)
<1>2. \A x \in (t + 1)..(u - 1) : ~ Occupied(program, x)
  <2> SUFFICES ASSUME NEW x \in (t + 1)..(u - 1), Occupied(program, x)
               PROVE  FALSE
    OBVIOUS
  <2>1. x \in (5 * step[p] + a + 1)..(5 * step[p] + (Rank(op) - 1)) /\ Rank(op) - 1 \in -1..4
    BY <1>1 DEF Moment
  <2>2. PICK oq \in CollectiveOps :
          Takes(program, step[p], oq) /\ a < Rank(oq) /\ Rank(oq) <= Rank(op) - 1
    BY <1>1, <2>1, Between
  <2>3. Rank(oq) <= a \/ Rank(op) <= Rank(oq)
    BY <2>2
  <2>4. Rank(oq) \in 0..4
    BY DEF Rank
  <2> QED BY <1>1, <2>2, <2>3, <2>4
<1>3. Occupied(program, u)
  BY <1>1 DEF Occupied
<1>4. t \in Int /\ u \in Nat /\ t < u
  BY <1>1 DEF Moment
<1>5. Place(program, u) = Place(program, t) + 1
  <2> HIDE DEF t, u
  <2> QED BY <1>2, <1>3, <1>4, PlaceNext
<1>6. LastCall(p) = Place(program, t)
  BY DEF Ordered
<1>7. /\ LastCall(p)' = LastCall(p) + 1
      /\ calls'[p][LastCall(p)'] = c
      /\ \A n \in DOMAIN calls'[p] :
           \/ n = LastCall(p)'
           \/ n \in DOMAIN calls[p] /\ calls'[p][n] = calls[p][n]
  <2>1. calls[p] \in Seq(CallRecords) /\ calls'[p] = Append(calls[p], c)
    BY DEF Enter, TypeOK, CallsType
  <2> QED BY <2>1 DEF LastCall
<1>8. LastCall(p)' = Place(program', Reached(p)')
  BY <1>5, <1>6, <1>7
<1>9. ASSUME NEW n \in DOMAIN calls'[p]
      PROVE  \E s \in 0..Len(program), oq \in CollectiveOps :
               /\ Takes(program, s, oq)
               /\ n = Place(program, Moment(s, oq))
               /\ Fits(program, calls'[p][n], s, oq)
  <2>1. CASE n = LastCall(p)'
    <3>1. n = Place(program, Moment(step[p], op)) /\ calls'[p][n] = c
      BY <1>5, <1>6, <1>7, <2>1
    <3> QED BY <1>1, <3>1
  <2>2. CASE n # LastCall(p)'
    <3>1. n \in DOMAIN calls[p] /\ calls'[p][n] = calls[p][n]
      BY <1>7, <2>2
    <3> QED BY <3>1 DEF Ordered
  <2> QED BY <2>1, <2>2
<1> QED BY <1>8, <1>9 DEF Ordered

\* A process that takes no part in a step stays in order.
LEMMA StaysInOrder ==
  ASSUME NEW q \in Procs, Ordered(q), Situated(q), Resizing(q), program' = program,
         UNCHANGED <<calls[q], step[q], at[q], run[q], m_aborted[q], syncRequest[q],
                     m_sync_cached[q], m_resized[q], m_qps[q]>>
  PROVE  Ordered(q)' /\ Situated(q)' /\ Resizing(q)'
<1>1. Reached(q)' = Reached(q)
  BY DEF Reached, Stage, Awaiting
<1>2. Ordered(q)'
  BY <1>1 DEF Ordered, LastCall
<1>3. Situated(q)'
  BY DEF Situated, Superstep
<1>4. Resizing(q)'
  BY DEF Resizing
<1> QED BY <1>2, <1>3, <1>4

LEMMA OthersStayInOrder ==
  ASSUME OrderInv, NEW p \in Procs, program' = program,
         Ordered(p)', Situated(p)', Resizing(p)', \A q \in Procs : Voted(q)',
         \A q \in Procs \ {p} :
            UNCHANGED <<calls[q], step[q], at[q], run[q], m_aborted[q], syncRequest[q],
                        m_sync_cached[q], m_resized[q], m_qps[q]>>
  PROVE  OrderInv'
BY StaysInOrder DEF OrderInv


\* Calls are only added.
LEMMA CallsGrow ==
  ASSUME CallsType, NEW p \in Procs, (\E c : Enter(p, c)) \/ UNCHANGED calls, NEW q \in Procs
  PROVE  /\ LastCall(q) \in Nat /\ LastCall(q)' \in Nat
         /\ LastCall(q) <= LastCall(q)'
         /\ q # p => calls'[q] = calls[q]
<1>1. CASE \E c : Enter(p, c)
  <2>1. PICK c : Enter(p, c)
    BY <1>1
  <2>2. CASE q = p
    BY <2>1, <2>2, EnterLast DEF LastCall, CallsType
  <2>3. CASE q # p
    BY <2>1, <2>3, EnterLast DEF LastCall, CallsType
  <2> QED BY <2>2, <2>3
<1>2. CASE UNCHANGED calls
  BY <1>2 DEF LastCall, CallsType
<1> QED BY <1>1, <1>2

LEMMA VotedStays ==
  ASSUME CallsType, OrderInv, NEW p \in Procs, (\E c : Enter(p, c)) \/ UNCHANGED calls,
         \A q \in Procs \ {p} : UNCHANGED <<at[q], m_blockTask[q]>>,
         \/ at'[p] # "vote"
         \/ m_blockTask'[p]
         \/ UNCHANGED <<at[p], m_blockTask[p], calls[p]>>
  PROVE  \A q \in Procs : Voted(q)'
<1> SUFFICES ASSUME NEW q \in Procs, at'[q] = "vote", ~ m_blockTask'[q], NEW r \in Procs
             PROVE  LastCall(q)' <= LastCall(r)'
  BY DEF Voted
<1>1. at[q] = "vote" /\ ~ m_blockTask[q] /\ calls'[q] = calls[q]
  BY CallsGrow
<1>2. LastCall(q) <= LastCall(r)
  BY <1>1 DEF OrderInv, Voted
<1>3. LastCall(r) <= LastCall(r)' /\ LastCall(q)' = LastCall(q)
  BY <1>1, CallsGrow DEF LastCall
<1>4. LastCall(q) \in Nat /\ LastCall(r) \in Nat /\ LastCall(r)' \in Nat
  BY CallsGrow
<1> QED BY <1>2, <1>3, <1>4

\* Whoever has made as many calls as there are up to a collective has reached
\* it, and has called it.
LEMMA CallAt ==
  ASSUME program \in Programs, TypeOK, OrderInv, NEW q \in Procs,
         NEW s \in 0..Len(program), NEW op \in CollectiveOps, Takes(program, s, op),
         Place(program, Moment(s, op)) <= LastCall(q)
  PROVE  /\ Moment(s, op) <= Reached(q)
         /\ Place(program, Moment(s, op)) \in DOMAIN calls[q]
         /\ Fits(program, calls[q][Place(program, Moment(s, op))], s, op)
<1> DEFINE u == Moment(s, op)
           n == Place(program, u)
<1>1. u \in Nat /\ Occupied(program, u)
  BY MomentType DEF Occupied
<1>2. Reached(q) \in Int
  BY ReachedType
<1>3. LastCall(q) = Place(program, Reached(q))
  BY DEF OrderInv, Ordered
<1>4. u <= Reached(q)
  <2> HIDE DEF u
  <2> QED BY <1>1, <1>2, <1>3, PlaceReached DEF u
<1>5. n \in Nat /\ n # 0
  <2> HIDE DEF u
  <2>1. n \in Nat
    BY <1>1, PlaceType
  <2>2. Place(program, -1) = 0
    <3>1. Agenda(program, -1) = {}
      BY DEF Agenda
    <3> QED BY <3>1, FS_EmptySet, Zenon DEF Place
  <2>3. ASSUME n = 0 PROVE FALSE
    <3>1. Place(program, u) <= Place(program, -1)
      BY <2>2, <2>3
    <3>2. u <= -1
      BY <1>1, <3>1, PlaceReached
    <3> QED BY <1>1, <3>2
  <2> QED BY <2>1, <2>3
<1>6. n \in DOMAIN calls[q]
  BY <1>5 DEF TypeOK, CallsType, LastCall
<1>7. PICK t \in 0..Len(program), oq \in CollectiveOps :
         /\ Takes(program, t, oq)
         /\ n = Place(program, Moment(t, oq))
         /\ Fits(program, calls[q][n], t, oq)
  BY <1>6 DEF OrderInv, Ordered
<1>8. Moment(t, oq) \in Nat /\ Occupied(program, Moment(t, oq))
  BY <1>7, MomentType DEF Occupied
<1>9. u = Moment(t, oq)
  <2> HIDE DEF u
  <2> QED BY <1>1, <1>7, <1>8, PlaceUnique
<1>10. t = s /\ oq = op
  BY <1>9, MomentUnique
<1> QED BY <1>4, <1>6, <1>7, <1>10

\* When the vote is over all contributions are votes of the superstep.
LEMMA VoteContents ==
  ASSUME IInv, OrderInv, NEW p \in Procs, VoteOver(p), NEW q \in Procs
  PROVE  /\ LastCall(p) = Place(program, Moment(step[p], "vote"))
         /\ LastCall(p) \in DOMAIN calls[q]
         /\ Fits(program, calls[q][LastCall(p)], step[p], "vote")
<1>1. at[p] = "vote" /\ LastCall(p) <= LastCall(q) /\ Takes(program, step[p], "vote")
  BY DEF VoteOver, OrderInv, Voted, Situated
<1>2. Reached(p) = Moment(step[p], "vote") /\ step[p] \in 0..Len(program)
  BY <1>1 DEF IInv, TypeOK, SpmdType, Phases, Phase, Reached, Stage, Moment, Rank
<1>3. LastCall(p) = Place(program, Moment(step[p], "vote"))
  BY <1>2 DEF OrderInv, Ordered
<1> QED BY <1>1, <1>2, <1>3, CallAt DEF IInv, CollectiveOps

\* Nobody aborts: all have voted alike on reconnecting.
LEMMA VoteOutcome ==
  ASSUME IInv, OrderInv, NEW p \in Procs, SyncVoted(p)
  PROVE  /\ run[p] = "spmd" /\ step[p] < Len(program) /\ Superstep(p).mode = "DEFAULT"
         /\ VotedResize(p) > 0 <=> Resizes(program, step[p])
<1>1. at[p] = "vote" /\ VoteOver(p) /\ VotedAbort(p) = 0
  BY DEF SyncVoted, VoteOver
<1>2. run[p] = "spmd" /\ step[p] < Len(program)
  BY <1>1, AborterIsCounted DEF IInv, Phases, Phase, TypeOK, SpmdType
<1>3. Superstep(p).mode = "DEFAULT"
  <2>1. Takes(program, step[p], "vote")
    BY <1>1 DEF OrderInv, Situated
  <2> QED BY <1>2, <2>1 DEF Takes, Superstep, IInv, TypeOK, SpmdType
<1> DEFINE A == {q \in Procs : Contributions(p)[q].abort}
           R == {q \in Procs : Contributions(p)[q].resized}
<1>4. A = {}
  <2>1. IsFiniteSet(A)
    BY ProcsAssumption, FS_Subset
  <2> QED BY <1>1, <2>1, FS_EmptySet DEF VotedAbort
<1>5. ASSUME NEW q \in Procs
      PROVE  q \in R <=> Resizes(program, step[p])
  <2>1. ~ calls[q][LastCall(p)].abort
    BY <1>4 DEF Contributions
  <2>2. calls[q][LastCall(p)].resized = Resizes(program, step[p])
    BY <1>1, <2>1, VoteContents DEF Fits
  <2> QED BY <2>2 DEF Contributions
<1>6. IsFiniteSet(R) /\ Cardinality(R) \in Nat
  BY ProcsAssumption, FS_Subset, FS_CardinalityType
<1>7. VotedResize(p) = Cardinality(R)
  BY DEF VotedResize
<1>8. R = {} <=> ~ Resizes(program, step[p])
  BY <1>5, ProcsAssumption
<1> HIDE DEF R
<1>9. Cardinality(R) > 0 <=> R # {}
  BY <1>6, FS_EmptySet
<1> QED BY <1>2, <1>3, <1>7, <1>8, <1>9


----------------------------------------------------------------------------
(* Every step keeps the order *)

LEMMA CommunicateOrder ==
  ASSUME OrderInv, NEW p \in Procs, Communicate(p)
  PROVE  OrderInv'
<1>1. UNCHANGED <<program, calls, step, at, run, m_aborted, syncRequest, m_sync_cached,
                  m_resized, m_qps, m_blockTask>>
  BY DEF Communicate, put, get, atomic_fetch_and_add, atomic_cmp_and_swp, Post
<1>2. \A q \in Procs : Voted(q)'
  BY <1>1 DEF OrderInv, Voted, LastCall
<1> QED BY <1>1, <1>2, StaysInOrder DEF OrderInv

LEMMA ResizeOrder ==
  ASSUME IInv, OrderInv, NEW p \in Procs, resizeMesgQueue(p)
  PROVE  OrderInv'
<1>1. /\ UNCHANGED <<program, calls, step, at, run, m_aborted, syncRequest, m_sync_cached,
                     m_blockTask>>
      /\ m_resized' = [m_resized EXCEPT ![p] = TRUE]
      /\ m_qps' = [m_qps EXCEPT ![p].staged = step[p] + 1]
      /\ at[p] = "out" /\ Superstep(p).resize /\ step[p] < Len(program)
  BY DEF resizeMesgQueue, resizeMesgq, stageQPs, Computing
<1>2. \A q \in Procs : Voted(q)'
  BY <1>1 DEF OrderInv, Voted, LastCall
<1>3. Ordered(p)' /\ Situated(p)'
  BY <1>1 DEF OrderInv, Ordered, Situated, Superstep, Reached, Stage, Awaiting, LastCall
<1>4. Resizing(p)'
  BY <1>1 DEF Resizing, Resizes, Superstep, IInv, TypeOK, SyncType, SpmdType
<1>5. \A q \in Procs \ {p} : UNCHANGED <<m_resized[q], m_qps[q]>>
  BY <1>1 DEF IInv, TypeOK, SyncType, SpmdType
<1> QED BY <1>1, <1>2, <1>3, <1>4, <1>5, OthersStayInOrder

\* Entering sync through the vote.
LEMMA CastsVote ==
  ASSUME IInv, OrderInv, NEW p \in Procs, NEW abort \in BOOLEAN,
         SyncEnter(p, "DEFAULT", abort, m_resized[p]),
         UNCHANGED <<program, step, m_resized, m_aborted>>,
         \A q \in Procs \ {p} : run'[q] = run[q],
         run'[p] # "exited", abort => run'[p] = "aborting",
         ~ abort => m_resized[p] = Resizes(program, step[p]),
         m_aborted[p] = 0, Takes(program, step[p], "vote")
  PROVE  OrderInv'
<1>1. /\ at[p] = "out"
      /\ at' = [at EXCEPT ![p] = "vote"]
      /\ m_blockTask' = [m_blockTask EXCEPT ![p] = TRUE]
      /\ UNCHANGED <<syncRequest, m_qps, m_sync_cached>>
      /\ Enter(p, Call("vote", abort, m_resized[p], {}))
  BY DEF SyncEnter
<1>2. /\ at'[p] = "vote" /\ m_blockTask'[p]
      /\ \A q \in Procs \ {p} : UNCHANGED <<at[q], m_blockTask[q]>>
  BY <1>1 DEF IInv, TypeOK, SyncType
<1> DEFINE c == Call("vote", abort, m_resized[p], {})
<1>3. Fits(program, c, step[p], "vote")
  BY DEF Fits, Call
<1> HIDE DEF c
<1>4. Enter(p, c)
  BY <1>1 DEF c
<1>5. Reached(p) = 5 * step[p] + (-1) /\ Reached(p)' = Moment(step[p], "vote")
  BY <1>1, <1>2 DEF Reached, Stage, Moment, Rank
<1>6. Ordered(p)'
  <2>1. /\ "vote" \in CollectiveOps /\ -1 < Rank("vote")
        /\ \A oq \in CollectiveOps : Rank(oq) <= -1 \/ Rank("vote") <= Rank(oq)
    BY DEF CollectiveOps, Rank
  <2> HIDE DEF OrderInv
  <2> QED BY <1>3, <1>4, <1>5, <2>1, CallsNext DEF IInv, OrderInv
<1>7. Situated(p)'
  BY <1>1, <1>2 DEF OrderInv, Situated, Superstep
<1>8. Resizing(p)'
  <2>1. run'[p] = "spmd" => m_resized[p] = Resizes(program, step[p])
    OBVIOUS
  <2> QED BY <1>1, <1>2, <2>1 DEF OrderInv, Resizing
<1>9. \A q \in Procs : Voted(q)'
  BY <1>2, <1>4, VotedStays DEF IInv, TypeOK
<1>10. \A q \in Procs \ {p} : calls'[q] = calls[q]
  BY <1>4, EnterLast DEF IInv, TypeOK
<1> QED BY <1>1, <1>2, <1>6, <1>7, <1>8, <1>9, <1>10, OthersStayInOrder

LEMMA SyncOrder ==
  ASSUME IInv, OrderInv, NEW p \in Procs, sync(p)
  PROVE  OrderInv'
<1>1. /\ run[p] = "spmd" /\ m_aborted[p] = 0 /\ step[p] < Len(program) /\ at[p] = "out"
      /\ Superstep(p).resize => m_resized[p]
      /\ SyncEnter(p, Superstep(p).mode, FALSE, m_resized[p])
      /\ UNCHANGED spmdVars
  BY DEF sync, Computing, SyncEnter
<1>2. m_resized[p] = Resizes(program, step[p])
  <2>1. Superstep(p).resize \in BOOLEAN
    BY <1>1, SuperstepFacts DEF IInv, Supersteps
  <2>2. m_resized[p] \in BOOLEAN
    BY DEF IInv, TypeOK, SpmdType
  <2>3. Resizes(program, step[p]) = Superstep(p).resize
    BY <1>1, <2>1 DEF Resizes, Superstep
  <2>4. m_resized[p] => Superstep(p).resize
    BY <2>3 DEF OrderInv, Resizing
  <2> QED BY <1>1, <2>1, <2>2, <2>3, <2>4
<1>3. CASE Superstep(p).mode = "DEFAULT"
  <2>1. Takes(program, step[p], "vote")
    BY <1>1, <1>3 DEF Takes, Superstep
  <2>2. /\ SyncEnter(p, "DEFAULT", FALSE, m_resized[p])
        /\ UNCHANGED <<program, step, m_resized, m_aborted, run>>
    BY <1>1, <1>3
  <2> QED BY <1>1, <1>2, <2>1, <2>2, CastsVote
<1>4. CASE Superstep(p).mode # "DEFAULT"
  <2>1. /\ at' = [at EXCEPT ![p] = "drain"]
        /\ UNCHANGED <<program, calls, step, run, m_aborted, syncRequest, m_sync_cached,
                       m_resized, m_qps, m_blockTask>>
    BY <1>1, <1>4 DEF SyncEnter
  <2>2. at'[p] = "drain" /\ \A q \in Procs \ {p} : at'[q] = at[q]
    BY <2>1 DEF IInv, TypeOK, SyncType
  <2>3. Reached(p) = 5 * step[p] + (-1) /\ Reached(p)' = 5 * step[p] + 2
    BY <1>1, <2>1, <2>2 DEF Reached, Stage
  <2>4. \A op \in CollectiveOps : Takes(program, step[p], op) => Rank(op) <= -1 \/ 2 < Rank(op)
    <3>1. step[p] # Len(program) /\ program[step[p] + 1].mode # "DEFAULT"
      BY <1>1, <1>4 DEF Superstep, IInv, TypeOK, SpmdType
    <3> QED BY <3>1 DEF Takes, Rank, CollectiveOps
  <2>5. Ordered(p)'
    BY <2>1, <2>3, <2>4, GoesOn DEF IInv, OrderInv
  <2>6. Situated(p)' /\ Resizing(p)'
    BY <1>1, <2>1, <2>2 DEF OrderInv, Situated, Resizing, Superstep
  <2>7. \A q \in Procs : Voted(q)'
    BY <2>1, <2>2, VotedStays DEF IInv, TypeOK
  <2> QED BY <2>1, <2>2, <2>5, <2>6, <2>7, OthersStayInOrder
<1> QED BY <1>3, <1>4

LEMMA ReturnOrder ==
  ASSUME Disciplined, IInv, OrderInv, NEW p \in Procs, Return(p)
  PROVE  OrderInv'
<1>1. /\ run[p] = "spmd" /\ at[p] = "out"
      /\ step[p] = Len(program) \/ m_aborted[p] # 0 \/ p \in Quitters
      /\ UNCHANGED <<program, step, m_resized, m_aborted>>
  BY DEF Return
<1>2. CASE MustVote(p)
  <2>1. /\ SyncEnter(p, "DEFAULT", TRUE, m_resized[p])
        /\ run' = [run EXCEPT ![p] = "aborting"]
    BY <1>2 DEF Return
  <2>2. run'[p] = "aborting" /\ \A q \in Procs \ {p} : run'[q] = run[q]
    BY <2>1 DEF IInv, TypeOK, SpmdType
  <2>3. Takes(program, step[p], "vote")
    <3>1. step[p] \in Nat /\ step[p] <= Len(program) /\ program \in Seq(Supersteps)
      BY DEF IInv, TypeOK, SpmdType, Phases, Phase
    <3>2. CASE step[p] = Len(program)
      BY <3>2 DEF Takes
    <3>3. CASE step[p] < Len(program)
      <4>1. p \in Quitters
        BY <1>1, <1>2, <3>1, <3>3 DEF MustVote
      <4>2. step[p] + 1 \in DOMAIN program
        BY <3>1, <3>3
      <4>3. program[step[p] + 1].mode = "DEFAULT"
        BY <4>1, <4>2 DEF Disciplined, IInv
      <4> QED BY <3>3, <4>3 DEF Takes
    <3> QED BY <3>1, <3>2, <3>3
  <2> QED BY <1>1, <1>2, <2>1, <2>2, <2>3, CastsVote DEF MustVote
<1>3. CASE ~ MustVote(p)
  <2>1. /\ run' = [run EXCEPT ![p] = "exited"] /\ m_aborted[p] # 0
        /\ UNCHANGED <<calls, at, syncRequest, m_sync_cached, m_qps, m_blockTask>>
    BY <1>3 DEF Return, MustVote
  <2>2. run'[p] = "exited" /\ \A q \in Procs \ {p} : run'[q] = run[q]
    BY <2>1 DEF IInv, TypeOK, SpmdType
  <2>3. Ordered(p)'
    BY <1>1, <2>1 DEF OrderInv, Ordered, Reached, Stage, Awaiting, LastCall
  <2>4. Situated(p)' /\ Resizing(p)'
    BY <1>1, <2>1, <2>2 DEF OrderInv, Situated, Resizing, Superstep
  <2>5. \A q \in Procs : Voted(q)'
    BY <2>1 DEF OrderInv, Voted, LastCall
  <2> QED BY <1>1, <2>1, <2>2, <2>3, <2>4, <2>5, OthersStayInOrder
<1> QED BY <1>2, <1>3

LEMMA VoteFailedOrder ==
  ASSUME IInv, OrderInv, NEW p \in Procs, VoteFailed(p)
  PROVE  OrderInv'
<1>1. /\ at[p] = "vote" /\ at' = [at EXCEPT ![p] = "out"]
      /\ VotedAbort(p) # 0 /\ m_aborted' = [m_aborted EXCEPT ![p] = VotedAbort(p)]
      /\ run' = [run EXCEPT ![p] = "exited"] \/ run' = run
      /\ UNCHANGED <<program, calls, step, syncRequest, m_sync_cached, m_resized, m_qps,
                     m_blockTask>>
  BY DEF VoteFailed, SyncAborted, VoteOver
<1>2. /\ at'[p] = "out" /\ m_aborted'[p] # 0
      /\ \A q \in Procs \ {p} : UNCHANGED <<at[q], m_aborted[q], run[q]>>
  BY <1>1 DEF IInv, TypeOK, SpmdType, SyncType
<1>3. Ordered(p)'
  BY <1>1, <1>2 DEF OrderInv, Ordered, Reached, Stage, LastCall
<1>4. Situated(p)' /\ Resizing(p)'
  BY <1>1, <1>2 DEF OrderInv, Situated, Resizing, Superstep
<1>5. \A q \in Procs : Voted(q)'
  BY <1>1, <1>2 DEF OrderInv, Voted, LastCall
<1> QED BY <1>1, <1>2, <1>3, <1>4, <1>5, OthersStayInOrder


\* The inner steps of the sync task.
LEMMA VotedOrder ==
  ASSUME IInv, OrderInv, NEW p \in Procs, SyncVoted(p), UNCHANGED spmdVars
  PROVE  OrderInv'
<1>1. /\ at[p] = "vote"
      /\ UNCHANGED <<program, step, run, m_aborted, syncRequest, m_sync_cached, m_resized, m_qps,
                     m_blockTask>>
  BY DEF SyncVoted, VoteOver
<1>2. /\ run[p] = "spmd" /\ step[p] < Len(program) /\ Superstep(p).mode = "DEFAULT"
      /\ VotedResize(p) > 0 <=> Resizes(program, step[p])
  BY VoteOutcome
<1>3. Reached(p) = 5 * step[p] + 0
  BY <1>1 DEF Reached, Stage, IInv, TypeOK, SpmdType
<1>4. CASE Resizes(program, step[p])
  <2> DEFINE c == Barrier("reconnect")
  <2>1. at' = [at EXCEPT ![p] = "reconnect"] /\ Enter(p, c)
    BY <1>2, <1>4 DEF SyncVoted
  <2>2. Fits(program, c, step[p], "reconnect")
    BY DEF Fits, Barrier, Call
  <2> HIDE DEF c
  <2>3. at'[p] = "reconnect" /\ \A q \in Procs \ {p} : at'[q] = at[q]
    BY <2>1 DEF IInv, TypeOK, SyncType
  <2>4. Reached(p)' = Moment(step[p], "reconnect")
    BY <1>1, <2>3 DEF Reached, Stage, Moment, Rank
  <2>5. Takes(program, step[p], "reconnect")
    BY <1>2, <1>4 DEF Takes, Superstep
  <2>6. /\ "reconnect" \in CollectiveOps /\ 0 < Rank("reconnect")
        /\ \A oq \in CollectiveOps : Rank(oq) <= 0 \/ Rank("reconnect") <= Rank(oq)
    BY DEF CollectiveOps, Rank
  <2>7. Ordered(p)'
    BY <1>1, <1>3, <2>1, <2>2, <2>4, <2>5, <2>6, CallsNext DEF IInv, OrderInv
  <2>8. Situated(p)' /\ Resizing(p)'
    BY <1>1, <1>2, <2>3, <2>5 DEF OrderInv, Situated, Resizing, Superstep
  <2>9. (\A q \in Procs : Voted(q)') /\ \A q \in Procs \ {p} : calls'[q] = calls[q]
    BY <1>1, <2>1, <2>3, VotedStays, EnterLast DEF IInv, TypeOK
  <2> QED BY <1>1, <2>3, <2>7, <2>8, <2>9, OthersStayInOrder
<1>5. CASE ~ Resizes(program, step[p])
  <2>1. at' = [at EXCEPT ![p] = "drain"] /\ UNCHANGED calls
    BY <1>2, <1>5 DEF SyncVoted
  <2>2. at'[p] = "drain" /\ \A q \in Procs \ {p} : at'[q] = at[q]
    BY <2>1 DEF IInv, TypeOK, SyncType
  <2>3. Reached(p)' = 5 * step[p] + 2
    BY <1>1, <2>2 DEF Reached, Stage
  <2>4. \A op \in CollectiveOps : Takes(program, step[p], op) => Rank(op) <= 0 \/ 2 < Rank(op)
    BY <1>5 DEF Takes, Rank, CollectiveOps
  <2>5. Ordered(p)'
    BY <1>1, <1>3, <2>1, <2>3, <2>4, GoesOn DEF IInv, OrderInv
  <2>6. Situated(p)' /\ Resizing(p)'
    BY <1>1, <2>2 DEF OrderInv, Situated, Resizing, Superstep
  <2>7. \A q \in Procs : Voted(q)'
    BY <1>1, <2>1, <2>2, VotedStays DEF IInv, TypeOK
  <2> QED BY <1>1, <2>1, <2>2, <2>5, <2>6, <2>7, OthersStayInOrder
<1> QED BY <1>4, <1>5

LEMMA ReconnectOrder ==
  ASSUME IInv, OrderInv, NEW p \in Procs, reconnectQPs(p), UNCHANGED spmdVars
  PROVE  OrderInv'
<1> DEFINE c == Barrier("reconnected")
<1>1. /\ at[p] = "reconnect" /\ at' = [at EXCEPT ![p] = "reconnected"] /\ Enter(p, c)
      /\ UNCHANGED <<program, step, run, m_aborted, syncRequest, m_sync_cached, m_resized,
                     m_blockTask>>
      /\ \A q \in Procs \ {p} : m_qps'[q] = m_qps[q]
  BY DEF reconnectQPs, Swap, IInv, TypeOK, SyncType
<1>2. Fits(program, c, step[p], "reconnected")
  BY DEF Fits, Barrier, Call
<1> HIDE DEF c
<1>3. at'[p] = "reconnected" /\ \A q \in Procs \ {p} : at'[q] = at[q]
  BY <1>1 DEF IInv, TypeOK, SyncType
<1>4. Reached(p) = 5 * step[p] + 1 /\ Reached(p)' = Moment(step[p], "reconnected")
  BY <1>1, <1>3 DEF Reached, Stage, Moment, Rank
<1>5. Takes(program, step[p], "reconnected")
  BY <1>1 DEF OrderInv, Situated, Takes
<1>6. /\ "reconnected" \in CollectiveOps /\ 1 < Rank("reconnected")
      /\ \A oq \in CollectiveOps : Rank(oq) <= 1 \/ Rank("reconnected") <= Rank(oq)
  BY DEF CollectiveOps, Rank
<1>7. Ordered(p)'
  BY <1>1, <1>2, <1>4, <1>5, <1>6, CallsNext DEF IInv, OrderInv
<1>8. Situated(p)' /\ Resizing(p)'
  BY <1>1, <1>3, <1>5 DEF OrderInv, Situated, Resizing, Superstep
<1>9. (\A q \in Procs : Voted(q)') /\ \A q \in Procs \ {p} : calls'[q] = calls[q]
  BY <1>1, <1>3, VotedStays, EnterLast DEF IInv, TypeOK
<1> QED BY <1>1, <1>3, <1>7, <1>8, <1>9, OthersStayInOrder

LEMMA ReconnectedOrder ==
  ASSUME IInv, OrderInv, NEW p \in Procs, SyncReconnected(p), UNCHANGED spmdVars
  PROVE  OrderInv'
<1>1. /\ at[p] = "reconnected" /\ at' = [at EXCEPT ![p] = "drain"]
      /\ UNCHANGED <<program, calls, step, run, m_aborted, syncRequest, m_sync_cached,
                     m_resized, m_qps, m_blockTask>>
  BY DEF SyncReconnected
<1>2. at'[p] = "drain" /\ \A q \in Procs \ {p} : at'[q] = at[q]
  BY <1>1 DEF IInv, TypeOK, SyncType
<1>3. Reached(p)' = Reached(p)
  BY <1>1, <1>2 DEF Reached, Stage
<1>4. Ordered(p)'
  BY <1>1, <1>3 DEF OrderInv, Ordered, LastCall
<1>5. Situated(p)' /\ Resizing(p)'
  BY <1>1, <1>2 DEF OrderInv, Situated, Resizing, Superstep
<1>6. \A q \in Procs : Voted(q)'
  BY <1>1, <1>2, VotedStays DEF IInv, TypeOK
<1> QED BY <1>1, <1>2, <1>4, <1>5, <1>6, OthersStayInOrder

LEMMA ExchangeOrder ==
  ASSUME IInv, OrderInv, NEW p \in Procs, SyncExchange(p, Superstep(p).mode), UNCHANGED spmdVars
  PROVE  OrderInv'
<1> DEFINE c    == Call("sum", FALSE, FALSE, Contribution(p))
           mode == Superstep(p).mode
<1>1. /\ at[p] = "drain" /\ at' = [at EXCEPT ![p] = "sum"] /\ Enter(p, c)
      /\ mode = "DEFAULT" \/ (mode = "CACHED" /\ ~ m_sync_cached[p])
      /\ m_sync_cached' = [m_sync_cached EXCEPT ![p] = m_sync_cached[p] \/ mode = "CACHED"]
      /\ UNCHANGED <<program, step, run, m_aborted, syncRequest, m_resized, m_qps, m_blockTask>>
  BY DEF SyncExchange, Drained, Exchanges, NowValid
<1>2. Fits(program, c, step[p], "sum")
  BY DEF Fits, Call
<1> HIDE DEF c
<1>3. /\ at'[p] = "sum" /\ m_sync_cached'[p] = (m_sync_cached[p] \/ mode = "CACHED")
      /\ \A q \in Procs \ {p} : at'[q] = at[q] /\ m_sync_cached'[q] = m_sync_cached[q]
  BY <1>1 DEF IInv, TypeOK, SyncType
<1>4. Reached(p) = 5 * step[p] + 2 /\ Reached(p)' = Moment(step[p], "sum")
  BY <1>1, <1>3 DEF Reached, Stage, Moment, Rank
<1>5. step[p] < Len(program) /\ m_sync_cached[p] = CacheValid(program, step[p])
  BY <1>1, BeyondVote DEF IInv, OrderInv, Situated
<1>6. Takes(program, step[p], "sum")
  BY <1>1, <1>5 DEF Takes, Superstep
<1>7. /\ "sum" \in CollectiveOps /\ 2 < Rank("sum")
      /\ \A oq \in CollectiveOps : Rank(oq) <= 2 \/ Rank("sum") <= Rank(oq)
  BY DEF CollectiveOps, Rank
<1>8. Ordered(p)'
  BY <1>1, <1>2, <1>4, <1>6, <1>7, CallsNext DEF IInv, OrderInv
<1>9. Situated(p)' /\ Resizing(p)'
  <2>1. Superstep(p)' = Superstep(p)
    BY <1>1 DEF Superstep
  <2>2. m_sync_cached'[p] = (CacheValid(program, step[p]) \/ Superstep(p).mode = "CACHED")
    BY <1>3, <1>5
  <2> QED BY <1>1, <1>3, <1>6, <2>1, <2>2 DEF OrderInv, Situated, Resizing
<1>10. (\A q \in Procs : Voted(q)') /\ \A q \in Procs \ {p} : calls'[q] = calls[q]
  BY <1>1, <1>3, VotedStays, EnterLast DEF IInv, TypeOK
<1> QED BY <1>1, <1>3, <1>8, <1>9, <1>10, OthersStayInOrder

\* sync hands its request over.
LEMMA ReturnsOrder ==
  ASSUME IInv, OrderInv, NEW p \in Procs, SyncReturns(p)
  PROVE  OrderInv'
<1> DEFINE mode == Superstep(p).mode
<1>1. PICK n : Activate(p, Superstep(p).barrier, n)
  BY DEF SyncReturns, SyncKnown, SyncExchanged
<1>2. /\ at[p] \in {"drain", "sum"}
      /\ m_resized' = [m_resized EXCEPT ![p] = FALSE]
      /\ UNCHANGED <<program, calls, step, run, m_aborted, m_qps, m_blockTask>>
      /\ \A q \in Procs \ {p} : m_sync_cached'[q] = m_sync_cached[q]
  BY DEF SyncReturns, SyncKnown, SyncExchanged, Drained, WithdrawResized, IInv, TypeOK, SyncType
<1>3. run[p] = "spmd" /\ step[p] < Len(program) /\ step[p] \in Nat
  BY <1>2, BeyondVote DEF IInv, TypeOK, SpmdType
<1>4. /\ at'[p] = "wait" /\ syncRequest'[p].isActive
      /\ syncRequest'[p].withBarrier = Superstep(p).barrier
      /\ syncRequest'[p].secondPhase = syncRequest[p].secondPhase
      /\ ~ m_resized'[p]
      /\ \A q \in Procs \ {p} : UNCHANGED <<at[q], syncRequest[q], m_resized[q]>>
  <2>1. syncRequest' = [syncRequest EXCEPT ![p] = Request(syncRequest[p], Superstep(p).barrier, n)]
    BY <1>1 DEF Activate
  <2>2. syncRequest'[p] = Request(syncRequest[p], Superstep(p).barrier, n)
    BY <2>1 DEF IInv, TypeOK, SyncType
  <2>3. \A q \in Procs \ {p} : syncRequest'[q] = syncRequest[q]
    BY <2>1 DEF IInv, TypeOK, SyncType
  <2>4. /\ syncRequest'[p].isActive
        /\ syncRequest'[p].withBarrier = Superstep(p).barrier
        /\ syncRequest'[p].secondPhase = syncRequest[p].secondPhase
    BY <2>2 DEF Request, IInv, TypeOK, SyncType
  <2> QED BY <1>1, <1>2, <2>3, <2>4 DEF Activate, IInv, TypeOK, SyncType, SpmdType
<1>5. ~ syncRequest[p].secondPhase
  BY <1>2, OutIdle DEF IInv, OrderInv, Situated
<1>6. Reached(p)' = 5 * step[p] + 3
  BY <1>2, <1>4, <1>5 DEF Reached, Stage, Awaiting
<1>7. CacheValid(program, step[p] + 1) <=>
        mode # "DEFAULT" /\ (CacheValid(program, step[p]) \/ mode = "CACHED")
  BY <1>3, CacheNext DEF Superstep
<1>8. Ordered(p)' /\ m_sync_cached'[p] = CacheValid(program, step[p] + 1)
  <2>1. CASE at[p] = "drain"
    <3>1. /\ ~ (mode = "DEFAULT" \/ (mode = "CACHED" /\ ~ m_sync_cached[p]))
          /\ m_sync_cached'[p] = m_sync_cached[p]
          /\ m_sync_cached[p] = CacheValid(program, step[p])
      BY <2>1 DEF SyncReturns, SyncKnown, SyncExchanged, Exchanges, OrderInv, Situated
    <3>2. \A op \in CollectiveOps : Takes(program, step[p], op) => Rank(op) <= 2 \/ 3 < Rank(op)
      <4>1. /\ step[p] # Len(program) /\ program[step[p] + 1].mode # "DEFAULT"
            /\ program[step[p] + 1].mode = "CACHED" => CacheValid(program, step[p])
        BY <1>3, <3>1 DEF Superstep, IInv, TypeOK, SpmdType
      <4> QED BY <4>1 DEF Takes, Rank, CollectiveOps
    <3>3. Reached(p) = 5 * step[p] + 2
      BY <2>1 DEF Reached, Stage
    <3>4. Ordered(p)'
      BY <1>2, <1>6, <3>2, <3>3, GoesOn DEF IInv, OrderInv
    <3>5. m_sync_cached'[p] \in BOOLEAN /\ CacheValid(program, step[p] + 1) \in BOOLEAN
      BY <3>1 DEF IInv, TypeOK, SyncType, CacheValid
    <3>6. m_sync_cached'[p] <=> CacheValid(program, step[p] + 1)
      BY <1>7, <3>1
    <3> QED BY <3>4, <3>5, <3>6
  <2>2. CASE at[p] = "sum"
    <3>1. /\ m_sync_cached' = [m_sync_cached EXCEPT ![p] = m_sync_cached[p] /\ mode # "DEFAULT"]
          /\ m_sync_cached[p] = (CacheValid(program, step[p]) \/ mode = "CACHED")
      BY <2>2 DEF SyncReturns, SyncKnown, SyncExchanged, Drained, OrderInv, Situated
    <3>2. m_sync_cached'[p] = (m_sync_cached[p] /\ mode # "DEFAULT")
      BY <3>1 DEF IInv, TypeOK, SyncType
    <3>3. Reached(p)' = Reached(p)
      BY <1>6, <2>2 DEF Reached, Stage
    <3>4. Ordered(p)'
      BY <1>2, <3>3 DEF OrderInv, Ordered, LastCall
    <3>5. m_sync_cached'[p] \in BOOLEAN /\ CacheValid(program, step[p] + 1) \in BOOLEAN
      BY <3>2 DEF CacheValid
    <3>6. m_sync_cached'[p] <=> CacheValid(program, step[p] + 1)
      BY <1>7, <3>1, <3>2
    <3> QED BY <3>4, <3>5, <3>6
  <2> QED BY <1>2, <2>1, <2>2
<1>9. Situated(p)'
  <2>1. Superstep(p)' = Superstep(p)
    BY <1>2 DEF Superstep
  <2>2. m_aborted[p] = 0
    BY <1>2 DEF OrderInv, Situated
  <2> QED BY <1>2, <1>3, <1>4, <1>5, <1>8, <2>1, <2>2 DEF Situated
<1>10. Resizing(p)'
  BY <1>4 DEF Resizing
<1>11. \A q \in Procs : Voted(q)'
  BY <1>2, <1>4, VotedStays DEF IInv, TypeOK
<1> QED BY <1>2, <1>4, <1>8, <1>9, <1>10, <1>11, OthersStayInOrder

\* On to the next superstep.
LEMMA DoneOrder ==
  ASSUME IInv, OrderInv, NEW p \in Procs, SyncDone(p)
  PROVE  OrderInv'
<1>1. /\ at[p] = "wait" /\ syncEvents[p] = 0
      /\ at' = [at EXCEPT ![p] = "out"] /\ step' = [step EXCEPT ![p] = @ + 1]
      /\ UNCHANGED <<program, calls, run, m_aborted, syncRequest, m_sync_cached,
                     m_resized, m_qps, m_blockTask>>
  BY DEF SyncDone, SyncReleased
<1>2. /\ at'[p] = "out" /\ step'[p] = step[p] + 1 /\ step[p] \in Nat
      /\ \A q \in Procs \ {p} : at'[q] = at[q] /\ step'[q] = step[q]
  BY <1>1 DEF IInv, TypeOK, SyncType, SpmdType
<1>3. ~ syncRequest[p].isActive /\ m_aborted[p] = 0 /\ ~ m_resized[p] /\ run[p] # "exited"
  BY <1>1 DEF IInv, Phases, Phase, OrderInv, Situated, Resizing
<1>4. Reached(p)' = Reached(p)
  BY <1>1, <1>2, <1>3 DEF Reached, Stage, Awaiting
<1>5. Ordered(p)'
  BY <1>1, <1>4 DEF OrderInv, Ordered, LastCall
<1>6. Situated(p)'
  BY <1>1, <1>2, <1>3 DEF OrderInv, Situated
<1>7. Resizing(p)'
  BY <1>1, <1>2, <1>3 DEF Resizing
<1>8. \A q \in Procs : Voted(q)'
  BY <1>1, <1>2, VotedStays DEF IInv, TypeOK
<1> QED BY <1>1, <1>2, <1>5, <1>6, <1>7, <1>8, OthersStayInOrder

LEMMA ProgramOrder ==
  ASSUME Disciplined, IInv, OrderInv, NEW p \in Procs, Program(p)
  PROVE  OrderInv'
<1>1. CASE SyncContinues(p)
  <2>1. UNCHANGED spmdVars
    BY <1>1 DEF SyncContinues
  <2> QED BY <1>1, <2>1, VotedOrder, ReconnectOrder, ReconnectedOrder, ExchangeOrder
          DEF SyncContinues
<1> QED BY <1>1, CommunicateOrder, ResizeOrder, SyncOrder, ReturnOrder, VoteFailedOrder,
           ReturnsOrder, DoneOrder DEF Program

\* The polling task enters the barrier of the superstep, if it has one.
LEMMA PollSyncOrder ==
  ASSUME IInv, OrderInv, NEW p \in Procs, PollSync(p)
  PROVE  OrderInv'
<1>1. /\ syncRequest[p].isActive
      /\ UNCHANGED <<program, step, at, run, m_aborted, m_sync_cached, m_resized, m_qps,
                     m_blockTask>>
  BY DEF PollSync, Poll, processSyncRequest, AllArrived
<1>2. at[p] = "wait" /\ step[p] < Len(program)
  BY <1>1, BeyondVote DEF IInv, Phases, Phase
<1>3. \A q \in Procs \ {p} : syncRequest'[q] = syncRequest[q]
  BY DEF PollSync, Poll, processSyncRequest, FinishSync, IInv, TypeOK, SyncType
<1>4. Superstep(p)' = Superstep(p) /\ Superstep(p).barrier \in BOOLEAN
  BY <1>1, <1>2, SuperstepFacts DEF Superstep, IInv, Supersteps
<1>5. /\ Resizing(p)'
      /\ Situated(p)' <=> /\ syncRequest'[p].secondPhase =>
                               syncRequest'[p].isActive /\ syncRequest'[p].withBarrier
                          /\ syncRequest'[p].isActive =>
                               syncRequest'[p].withBarrier = Superstep(p).barrier
  BY <1>1, <1>2, <1>4 DEF OrderInv, Resizing, Situated
<1>6. CASE AllArrived(p) /\ syncRequest[p].withBarrier
  <2> DEFINE c == Barrier("barrier")
  <2>1. /\ syncRequest' = [syncRequest EXCEPT ![p].secondPhase = TRUE, ![p].remoteMsgs = 0]
        /\ Enter(p, c) /\ ~ syncRequest[p].secondPhase
    BY <1>6 DEF PollSync, Poll, processSyncRequest, AllArrived
  <2>2. Fits(program, c, step[p], "barrier")
    BY DEF Fits, Barrier, Call
  <2> HIDE DEF c
  <2>3. /\ syncRequest'[p].isActive = syncRequest[p].isActive
        /\ syncRequest'[p].withBarrier = syncRequest[p].withBarrier
        /\ syncRequest'[p].secondPhase
    BY <2>1 DEF IInv, TypeOK, SyncType
  <2>4. Reached(p) = 5 * step[p] + 3 /\ Reached(p)' = Moment(step[p], "barrier")
    BY <1>1, <1>2, <2>1, <2>3 DEF Reached, Stage, Awaiting, Moment, Rank
  <2>5. Takes(program, step[p], "barrier")
    BY <1>1, <1>2, <1>6 DEF OrderInv, Situated, Takes, Superstep
  <2>6. /\ "barrier" \in CollectiveOps /\ 3 < Rank("barrier")
        /\ \A oq \in CollectiveOps : Rank(oq) <= 3 \/ Rank("barrier") <= Rank(oq)
    BY DEF CollectiveOps, Rank
  <2>7. Ordered(p)'
    BY <1>1, <2>1, <2>2, <2>4, <2>5, <2>6, CallsNext DEF IInv, OrderInv
  <2>8. Situated(p)'
    BY <1>1, <1>5, <1>6, <2>3 DEF OrderInv, Situated
  <2>9. (\A q \in Procs : Voted(q)') /\ \A q \in Procs \ {p} : calls'[q] = calls[q]
    BY <1>1, <1>2, <2>1, VotedStays, EnterLast DEF IInv, TypeOK
  <2> QED BY <1>1, <1>3, <1>5, <2>7, <2>8, <2>9, OthersStayInOrder
<1>7. CASE FinishSync(p) /\ UNCHANGED calls
  <2>1. ~ syncRequest'[p].isActive /\ ~ syncRequest'[p].secondPhase
    BY <1>7 DEF FinishSync, IInv, TypeOK, SyncType
  <2>2. Reached(p)' = 5 * step[p] + 4
    BY <1>1, <1>2, <2>1 DEF Reached, Stage, Awaiting
  <2>3. Ordered(p)'
    <3>1. CASE syncRequest[p].secondPhase
      <4>1. Reached(p)' = Reached(p)
        BY <1>2, <2>2, <3>1 DEF Reached, Stage, Awaiting
      <4> QED BY <1>1, <1>7, <4>1 DEF OrderInv, Ordered, LastCall
    <3>2. CASE ~ syncRequest[p].secondPhase
      <4>1. Reached(p) = 5 * step[p] + 3
        BY <1>1, <1>2, <3>2 DEF Reached, Stage, Awaiting
      <4>2. ~ syncRequest[p].withBarrier /\ ~ Superstep(p).barrier
        BY <1>1, <1>7, <3>2 DEF PollSync, Poll, processSyncRequest, FinishSync, OrderInv,
           Situated, IInv, TypeOK, SyncType
      <4>3. \A op \in CollectiveOps :
              Takes(program, step[p], op) => Rank(op) <= 3 \/ 4 < Rank(op)
        BY <4>2 DEF Takes, Rank, CollectiveOps, Superstep
      <4> QED BY <1>1, <1>7, <2>2, <4>1, <4>3, GoesOn DEF IInv, OrderInv
    <3> QED BY <3>1, <3>2
  <2>4. Situated(p)'
    BY <1>5, <2>1
  <2>5. \A q \in Procs : Voted(q)'
    BY <1>1, <1>7, VotedStays DEF IInv, TypeOK
  <2> QED BY <1>1, <1>3, <1>5, <1>7, <2>3, <2>4, <2>5, OthersStayInOrder
<1> QED BY <1>6, <1>7 DEF PollSync, Poll, processSyncRequest

\* The polling task releases the vote only when all have voted.
LEMMA PollBlockOrder ==
  ASSUME IInv, OrderInv, NEW p \in Procs, PollBlock(p)
  PROVE  OrderInv'
<1>1. /\ Completed(p) /\ m_blockTask' = [m_blockTask EXCEPT ![p] = FALSE]
      /\ UNCHANGED <<program, calls, step, at, run, m_aborted, syncRequest, m_sync_cached,
                     m_resized, m_qps>>
  BY DEF PollBlock, Poll, processBlock
<1>2. \A q \in Procs : Ordered(q)' /\ Situated(q)' /\ Resizing(q)'
  BY <1>1, StaysInOrder DEF OrderInv
<1>3. ASSUME NEW q \in Procs
      PROVE  Voted(q)'
  <2>1. CASE q = p
    BY <1>1, <2>1 DEF Completed, Voted, LastCall
  <2>2. CASE q # p
    BY <1>1, <2>2 DEF OrderInv, Voted, LastCall, IInv, TypeOK, SyncType
  <2> QED BY <2>1, <2>2
<1> QED BY <1>2, <1>3 DEF OrderInv

LEMMA IdleOrder ==
  ASSUME OrderInv,
         UNCHANGED <<program, calls, step, at, run, m_aborted, syncRequest, m_sync_cached,
                     m_resized, m_qps, m_blockTask>>
  PROVE  OrderInv'
<1>1. \A q \in Procs : Voted(q)'
  BY DEF OrderInv, Voted, LastCall
<1> QED BY <1>1, StaysInOrder DEF OrderInv

LEMMA OrderStep ==
  ASSUME Disciplined, IInv, OrderInv, [Next]_vars
  PROVE  OrderInv'
<1>1. CASE \E p \in Procs : Program(p)
  BY <1>1, ProgramOrder
<1>2. CASE \E p \in Procs : Polling(p)
  <2>1. PICK p \in Procs : Polling(p)
    BY <1>2
  <2>2. CASE PollLocal(p) \/ PollRemote(p)
    BY <2>2, IdleOrder DEF PollLocal, PollRemote, Poll, doLocalProgress, doRemoteProgress
  <2> QED BY <2>1, <2>2, PollBlockOrder, PollSyncOrder DEF Polling
<1>3. CASE Fabric \/ UNCHANGED vars
  BY <1>3, IdleOrder DEF Fabric, vars
<1> QED BY <1>1, <1>2, <1>3 DEF Next, Finished

LEMMA InitOrder == Init => OrderInv
<1> SUFFICES ASSUME Init PROVE OrderInv
  OBVIOUS
<1>1. ASSUME NEW p \in Procs
      PROVE  Ordered(p)
  <2>1. Reached(p) = -1
    BY DEF Init, EngineInit, Reached, Stage
  <2>2. Agenda(program, -1) = {}
    BY DEF Agenda
  <2>3. Place(program, -1) = 0
    BY <2>2, FS_EmptySet, Zenon DEF Place
  <2>4. calls[p] = <<>>
    BY DEF Init, MachineInit
  <2> QED BY <2>1, <2>3, <2>4 DEF Ordered, LastCall
<1>2. ASSUME NEW p \in Procs
      PROVE  Situated(p) /\ Resizing(p) /\ Voted(p)
  <2>1. ~ CacheValid(program, 0)
    BY DEF CacheValid
  <2>2. CacheValid(program, 0) \in BOOLEAN
    BY DEF CacheValid
  <2>3. CacheValid(program, 0) = FALSE
    BY <2>1, <2>2
  <2> QED BY <2>3 DEF Init, EngineInit, NoRequest, Situated, Resizing, Voted
<1> QED BY <1>1, <1>2 DEF OrderInv

----------------------------------------------------------------------------
(* Theorems *)

\* The calls each process has made are the agenda of the program up to where
\* the process is: IBVerbs::sync, resize and the polling task, each on its own,
\* never leave out a collective of a superstep nor call one that it lacks.
THEOREM OrderInvariant == ASSUME Disciplined PROVE Spec => []OrderInv
<1>1. Init => OrderInv
  BY InitOrder
<1>2. IInv /\ OrderInv /\ [Next]_vars => OrderInv'
  BY OrderStep
<1> QED BY <1>1, <1>2, Invariant, PTL DEF Spec

\* All processes make the same collective calls in the same order: as long as
\* processes return early only from programs that vote in each superstep, MPI
\* never matches a vote, a reconnection, an exchange of counters or a barrier of
\* IBVerbs::sync with a collective of another kind.
THEOREM CollectivesMatch == ASSUME Disciplined PROVE Spec => []MatchingCollectives
<1>1. IInv /\ OrderInv => MatchingCollectives
  <2> SUFFICES ASSUME IInv, OrderInv, NEW p \in Procs, NEW q \in Procs,
                      NEW n \in DOMAIN calls[p] \cap DOMAIN calls[q]
               PROVE  calls[p][n].op = calls[q][n].op
    BY DEF MatchingCollectives
  <2>1. PICK s \in 0..Len(program), op \in CollectiveOps :
          /\ Takes(program, s, op)
          /\ n = Place(program, Moment(s, op))
          /\ calls[p][n].op = op
    BY DEF OrderInv, Ordered, Fits
  <2>2. PICK t \in 0..Len(program), oq \in CollectiveOps :
          /\ Takes(program, t, oq)
          /\ n = Place(program, Moment(t, oq))
          /\ calls[q][n].op = oq
    BY DEF OrderInv, Ordered, Fits
  <2>3. /\ Moment(s, op) \in Nat /\ Occupied(program, Moment(s, op))
        /\ Moment(t, oq) \in Nat /\ Occupied(program, Moment(t, oq))
    BY <2>1, <2>2, MomentType DEF Occupied
  <2>4. Moment(s, op) = Moment(t, oq)
    BY <2>1, <2>2, <2>3, PlaceUnique
  <2>5. op = oq
    BY <2>4, MomentUnique
  <2> QED BY <2>1, <2>2, <2>5
<1> QED BY <1>1, OrderInvariant, Invariant, PTL

\* ASSERT( m_stagedQps[0] ) of reconnectQPs holds: a process reconnects only in
\* a superstep that resizes the message queue, and has staged its queue pairs.
THEOREM AlwaysStaged == ASSUME Disciplined PROVE Spec => []StagedWhenReconnecting
<1>1. IInv /\ OrderInv => StagedWhenReconnecting
  <2> SUFFICES ASSUME IInv, OrderInv, NEW p \in Procs, at[p] = "reconnect"
               PROVE  m_qps[p].staged # 0
    BY DEF StagedWhenReconnecting
  <2>1. Resizes(program, step[p]) /\ run[p] = "spmd"
    BY BeyondVote DEF OrderInv, Situated, Takes, IInv
  <2>2. m_qps[p].staged = step[p] + 1
    BY <2>1 DEF OrderInv, Resizing
  <2>3. step[p] \in Nat
    BY DEF IInv, TypeOK, SpmdType
  <2> QED BY <2>2, <2>3
<1> QED BY <1>1, OrderInvariant, Invariant, PTL

----------------------------------------------------------------------------
(* What the votes decide *)

\* Who has gone past a vote knows that all cast it and that nobody aborted.
Passed(p) ==
  \A s \in 0..Len(program) :
    Takes(program, s, "vote") /\ 5 * s < Reached(p) =>
      \A q \in Procs : /\ Place(program, Moment(s, "vote")) <= LastCall(q)
                       /\ ~ calls[q][Place(program, Moment(s, "vote"))].abort

\* Who has been told of an abort has it from a vote that all have cast, and who
\* has left was told LPF_SUCCESS exactly if all aborted there.
AllAbort(n) == \A q \in Procs : calls[q][n].abort
Told(p) ==
  m_aborted[p] # 0 =>
    /\ Takes(program, step[p], "vote")
    /\ LastCall(p) > 0 /\ \A q \in Procs : LastCall(p) <= LastCall(q)
    /\ \E q \in Procs : calls[q][LastCall(p)].abort
    /\ run[p] = "exited" =>
         status[p] = IF AllAbort(LastCall(p)) THEN "LPF_SUCCESS" ELSE "LPF_ERR_FATAL"

\* Only who leaves votes for aborting.
Staying(p) == run[p] = "spmd" => \A n \in DOMAIN calls[p] : ~ calls[p][n].abort

VotesInv == \A p \in Procs : Passed(p) /\ Told(p) /\ Staying(p)

\* Whatever happens, calls once made stay as they are.
LEMMA CallsKept ==
  ASSUME CallsType, NEW p \in Procs, (\E c : Enter(p, c)) \/ UNCHANGED calls, NEW q \in Procs
  PROVE  /\ LastCall(q) <= LastCall(q)'
         /\ \A n \in DOMAIN calls[q] : n \in DOMAIN calls'[q] /\ calls'[q][n] = calls[q][n]
         /\ \A n \in Int : 1 <= n /\ n <= LastCall(q) => n \in DOMAIN calls[q]
<1>1. LastCall(q) <= LastCall(q)'
  BY CallsGrow
<1>2. \A n \in Int : 1 <= n /\ n <= LastCall(q) => n \in DOMAIN calls[q]
  BY DEF CallsType, LastCall
<1>3. CASE \E c : Enter(p, c)
  <2>1. PICK c : Enter(p, c)
    BY <1>3
  <2>2. CASE q = p
    <3>1. calls[p] \in Seq(CallRecords) /\ calls'[p] = Append(calls[p], c)
      BY <2>1 DEF Enter, CallsType
    <3> QED BY <1>1, <1>2, <2>2, <3>1
  <2>3. CASE q # p
    BY <1>1, <1>2, <2>3, CallsGrow
  <2> QED BY <2>2, <2>3
<1>4. CASE UNCHANGED calls
  BY <1>1, <1>2, <1>4
<1> QED BY <1>3, <1>4

\* The first step past a vote is the one that follows its outcome.
LEMMA NoVoteSkipped ==
  ASSUME IInv, OrderInv, IInv', NEW p \in Procs,
         (Program(p) /\ ~ SyncVoted(p)) \/ Polling(p),
         NEW s \in 0..Len(program), Takes(program, s, "vote"), 5 * s < Reached(p)'
  PROVE  5 * s < Reached(p)
<1>1. step[p] \in Nat /\ s \in Nat /\ Reached(p)' <= 5 * step'[p] + 4 /\ Reached(p)' \in Int
      /\ Reached(p) \in Int
  <2>1. step[p] \in Nat /\ step'[p] \in Nat
    BY DEF IInv, TypeOK, SpmdType
  <2>2. Stage(p) \in -1..4 /\ Stage(p)' \in -1..4
    BY DEF Stage
  <2>3. s \in Nat
    OBVIOUS
  <2>4. Reached(p) \in Int
    BY <2>1, <2>2 DEF Reached
  <2>5. Reached(p)' \in Int /\ Reached(p)' <= 5 * step'[p] + 4
    BY <2>1, <2>2 DEF Reached
  <2> QED BY <2>1, <2>3, <2>4, <2>5
\* A superstep is left for the next one only when its calls are made.
<1>2. CASE at[p] \notin {"out", "vote"} /\ step'[p] = step[p]
  <2>1. Stage(p) \in 1..4
    BY <1>2 DEF Stage
  <2>2. Reached(p) = 5 * step[p] + Stage(p)
    BY DEF Reached
  <2>3. Reached(p)' <= 5 * step[p] + 4
    BY <1>1, <1>2
  <2>4. s <= step[p]
    BY <1>1, <2>3
  <2> QED BY <1>1, <2>1, <2>2, <2>4
<1>3. CASE Reached(p)' = Reached(p)
  BY <1>3
<1>4. CASE Communicate(p) \/ resizeMesgQueue(p)
  <2>1. UNCHANGED <<step, at, m_aborted, syncRequest>>
    BY <1>4 DEF Communicate, put, get, atomic_fetch_and_add, atomic_cmp_and_swp, Post,
       resizeMesgQueue, resizeMesgq
  <2> QED BY <1>3, <2>1 DEF Reached, Stage, Awaiting
<1>5. CASE sync(p) \/ Return(p)
  <2>1. CASE UNCHANGED <<at, step, m_aborted, syncRequest>>
    BY <1>3, <2>1 DEF Reached, Stage, Awaiting
  <2>2. CASE /\ at' = [at EXCEPT ![p] = "vote"] /\ at[p] = "out" /\ m_aborted[p] = 0
             /\ UNCHANGED <<step, m_aborted>>
    <3>1. at'[p] = "vote"
      BY <2>2 DEF IInv, TypeOK, SyncType
    <3>2. Reached(p) = 5 * step[p] - 1 /\ Reached(p)' = 5 * step[p]
      BY <1>1, <2>2, <3>1 DEF Reached, Stage
    <3> QED BY <1>1, <3>2
  <2>3. CASE /\ at' = [at EXCEPT ![p] = "drain"] /\ at[p] = "out" /\ m_aborted[p] = 0
             /\ UNCHANGED <<step, m_aborted>>
             /\ step[p] < Len(program) /\ Superstep(p).mode # "DEFAULT"
    <3>1. at'[p] = "drain"
      BY <2>3 DEF IInv, TypeOK, SyncType
    <3>2. Reached(p) = 5 * step[p] - 1 /\ Reached(p)' = 5 * step[p] + 2
      BY <1>1, <2>3, <3>1 DEF Reached, Stage
    <3>3. s # step[p]
      BY <2>3, <1>1 DEF Takes, Superstep, IInv, TypeOK, SpmdType
    <3> QED BY <1>1, <3>2, <3>3
  <2> QED BY <1>5, <2>1, <2>2, <2>3 DEF sync, Return, SyncEnter, Computing, MustVote
<1>6. CASE VoteFailed(p)
  <2>1. at[p] = "vote" /\ at'[p] = "out" /\ m_aborted'[p] # 0 /\ step' = step
    BY <1>6 DEF VoteFailed, SyncAborted, VoteOver, IInv, TypeOK, SyncType, SpmdType
  <2> QED BY <1>3, <2>1 DEF Reached, Stage
<1>7. CASE SyncReturns(p) \/ (SyncContinues(p) /\ ~ SyncVoted(p))
  BY <1>2, <1>7 DEF SyncReturns, SyncKnown, SyncExchanged, SyncContinues, reconnectQPs,
     SyncReconnected, SyncExchange, Drained
<1>8. CASE SyncDone(p)
  <2>1. at[p] = "wait" /\ at'[p] = "out" /\ step'[p] = step[p] + 1 /\ m_aborted'[p] = 0
    BY <1>8 DEF SyncDone, SyncReleased, OrderInv, Situated, IInv, TypeOK, SyncType, SpmdType
  <2>2. Reached(p) >= 5 * step[p] + 3 /\ Reached(p)' = 5 * (step[p] + 1) - 1
    <3>1. Stage(p) \in 3..4
      BY <2>1 DEF Stage
    <3>2. Stage(p)' = -1
      BY <2>1 DEF Stage
    <3>3. Reached(p) = 5 * step[p] + Stage(p) /\ Reached(p)' = 5 * step'[p] + Stage(p)'
      BY DEF Reached
    <3>4. Reached(p) >= 5 * step[p] + 3
      BY <1>1, <3>1, <3>3
    <3>5. Reached(p)' = 5 * (step[p] + 1) - 1
      BY <2>1, <3>2, <3>3
    <3> QED BY <3>4, <3>5
  <2>3. step'[p] = step[p] + 1 /\ step[p] \in Nat /\ s \in Nat /\ Reached(p)' = 5 * step[p] + 4
    BY <1>1, <2>1, <2>2
  <2>4. s <= step[p]
    BY <2>3
  <2>5. Reached(p) \in Int /\ Reached(p) >= 5 * step[p] + 3
    BY <1>1, <2>2
  <2> QED BY <2>3, <2>4, <2>5
<1>9. CASE Polling(p)
  <2>1. CASE PollSync(p)
    <3>1. syncRequest[p].isActive /\ step' = step
      BY <2>1 DEF PollSync, Poll, processSyncRequest, AllArrived
    <3>2. at[p] = "wait"
      BY <3>1 DEF IInv, Phases, Phase
    <3> QED BY <1>2, <3>1, <3>2
  <2>2. CASE ~ PollSync(p)
    <3>1. UNCHANGED <<step, at, m_aborted, syncRequest>>
      BY <1>9, <2>2 DEF Polling, PollLocal, PollRemote, PollBlock, Poll, doLocalProgress,
         doRemoteProgress, processBlock
    <3> QED BY <1>3, <3>1 DEF Reached, Stage, Awaiting
  <2> QED BY <2>1, <2>2
<1> QED BY <1>4, <1>5, <1>6, <1>7, <1>8, <1>9 DEF Program

LEMMA PlacePositive ==
  ASSUME NEW prog, NEW u \in Nat, Occupied(prog, u)
  PROVE  Place(prog, u) \in Nat /\ Place(prog, u) >= 1
<1>1. Place(prog, u) \in Nat
  BY PlaceType
<1>2. Place(prog, -1) = 0
  <2>1. Agenda(prog, -1) = {}
    BY DEF Agenda
  <2> QED BY <2>1, FS_EmptySet, Zenon DEF Place
<1>3. ASSUME Place(prog, u) = 0 PROVE FALSE
  <2>1. Place(prog, u) <= Place(prog, -1)
    BY <1>2, <1>3
  <2>2. u <= -1
    BY <2>1, PlaceReached
  <2> QED BY <2>2
<1> QED BY <1>1, <1>3

LEMMA PassedKept ==
  ASSUME CallsType, NEW p \in Procs, (\E c : Enter(p, c)) \/ UNCHANGED calls,
         NEW q \in Procs, Passed(q), program' = program,
         \A s \in 0..Len(program) :
           Takes(program, s, "vote") /\ 5 * s < Reached(q)' => 5 * s < Reached(q)
  PROVE  Passed(q)'
<1> SUFFICES ASSUME NEW s \in 0..Len(program), Takes(program, s, "vote"), 5 * s < Reached(q)',
                    NEW r \in Procs
             PROVE  /\ Place(program, Moment(s, "vote")) <= LastCall(r)'
                    /\ ~ calls'[r][Place(program, Moment(s, "vote"))].abort
  BY DEF Passed
<1> DEFINE n == Place(program, Moment(s, "vote"))
<1>1. n <= LastCall(r) /\ ~ calls[r][n].abort
  BY DEF Passed
<1>2. n \in Nat /\ n >= 1
  <2>1. s \in Nat /\ "vote" \in CollectiveOps
    BY DEF CollectiveOps
  <2>2. Moment(s, "vote") \in Nat /\ Occupied(program, Moment(s, "vote"))
    BY <2>1, MomentType DEF Occupied
  <2> QED BY <2>2, PlacePositive
<1> HIDE DEF n
<1>3. n \in DOMAIN calls[r] /\ calls'[r][n] = calls[r][n]
  BY <1>1, <1>2, CallsKept
<1>4. LastCall(r) \in Nat /\ LastCall(r)' \in Nat /\ LastCall(r) <= LastCall(r)'
  BY CallsGrow
<1> QED BY <1>1, <1>2, <1>3, <1>4 DEF n

LEMMA ToldKept ==
  ASSUME CallsType, NEW p \in Procs, (\E c : Enter(p, c)) \/ UNCHANGED calls,
         NEW q \in Procs, Told(q), program' = program,
         UNCHANGED <<calls[q], m_aborted[q], step[q], run[q], status[q]>>
  PROVE  Told(q)'
<1> SUFFICES ASSUME m_aborted[q] # 0
             PROVE  Told(q)'
  BY DEF Told
<1> DEFINE n == LastCall(q)
<1>1. LastCall(q)' = n /\ n \in Nat /\ n > 0
  BY CallsGrow DEF LastCall, Told
<1>2. ASSUME NEW r \in Procs
      PROVE  n <= LastCall(r)' /\ calls'[r][n].abort = calls[r][n].abort
  <2>1. n <= LastCall(r) /\ LastCall(r) \in Nat /\ LastCall(r)' \in Nat
    BY CallsGrow DEF Told
  <2>2. n \in DOMAIN calls[r] /\ calls'[r][n] = calls[r][n] /\ LastCall(r) <= LastCall(r)'
    BY <1>1, <2>1, CallsKept
  <2> QED BY <1>1, <2>1, <2>2
<1>3. AllAbort(LastCall(q))' <=> AllAbort(LastCall(q))
  BY <1>1, <1>2 DEF AllAbort
<1>4. \E r \in Procs : calls'[r][n].abort
  BY <1>2 DEF Told
<1>7. Takes(program, step[q], "vote")
  BY DEF Told
<1>8. \A r \in Procs : LastCall(q)' <= LastCall(r)'
  BY <1>1, <1>2
<1>9. \E r \in Procs : calls'[r][LastCall(q)'].abort
  BY <1>1, <1>4
<1> HIDE DEF n
<1>10. run'[q] = "exited" =>
         status'[q] = IF AllAbort(LastCall(q))' THEN "LPF_SUCCESS" ELSE "LPF_ERR_FATAL"
  BY <1>3 DEF Told
<1> QED BY <1>1, <1>7, <1>8, <1>9, <1>10 DEF Told

LEMMA VotesKept ==
  ASSUME TypeOK, VotesInv, NEW p \in Procs, (\E c : Enter(p, c)) \/ UNCHANGED calls,
         program' = program,
         \A q \in Procs \ {p} :
            UNCHANGED <<at[q], m_aborted[q], step[q], run[q], status[q], syncRequest[q]>>,
         Passed(p)', Told(p)', Staying(p)'
  PROVE  VotesInv'
<1>1. ASSUME NEW q \in Procs, q # p
      PROVE  Passed(q)' /\ Told(q)' /\ Staying(q)'
  <2>1. calls'[q] = calls[q] /\ Reached(q)' = Reached(q)
    BY <1>1, CallsGrow DEF TypeOK, Reached, Stage, Awaiting
  <2> QED BY <1>1, <2>1, PassedKept, ToldKept DEF VotesInv, Staying, TypeOK
<1> QED BY <1>1 DEF VotesInv

\* Steps of p that decide nothing: no vote is passed, nobody is told.
LEMMA VotesSame ==
  ASSUME IInv, OrderInv, IInv', VotesInv, NEW p \in Procs,
         (Program(p) /\ ~ SyncVoted(p)) \/ Polling(p),
         \/ UNCHANGED calls
         \/ \E c : Enter(p, c) /\ ~ c.abort /\ m_aborted[p] = 0,
         program' = program,
         \A q \in Procs \ {p} : UNCHANGED <<at[q], step[q], syncRequest[q]>>,
         UNCHANGED <<m_aborted, run, status>>, m_aborted[p] # 0 => UNCHANGED step
  PROVE  VotesInv'
<1>1. Passed(p)'
  <2>1. \A s \in 0..Len(program) :
          Takes(program, s, "vote") /\ 5 * s < Reached(p)' => 5 * s < Reached(p)
    BY NoVoteSkipped
  <2> QED BY <2>1, PassedKept DEF VotesInv, IInv, TypeOK
<1>2. Told(p)'
  <2>1. CASE m_aborted[p] = 0
    BY <2>1 DEF Told
  <2>2. CASE m_aborted[p] # 0
    BY <2>2, ToldKept DEF VotesInv, IInv, TypeOK
  <2> QED BY <2>1, <2>2
<1>3. Staying(p)'
  <2>1. CASE UNCHANGED calls
    BY <2>1 DEF VotesInv, Staying
  <2>2. CASE \E c : Enter(p, c) /\ ~ c.abort
    <3>1. PICK c : Enter(p, c) /\ ~ c.abort
      BY <2>2
    <3>2. \A n \in DOMAIN calls'[p] :
            calls'[p][n] = c \/ (n \in DOMAIN calls[p] /\ calls'[p][n] = calls[p][n])
      BY <3>1, EnterLast DEF IInv, TypeOK
    <3> QED BY <3>1, <3>2 DEF VotesInv, Staying
  <2> QED BY <2>1, <2>2
<1> QED BY <1>1, <1>2, <1>3, VotesKept DEF IInv

LEMMA ReturnVotes ==
  ASSUME IInv, OrderInv, IInv', VotesInv, NEW p \in Procs, Return(p)
  PROVE  VotesInv'
<1>1. /\ run[p] = "spmd" /\ UNCHANGED <<program, step, m_aborted>>
      /\ (\E c : Enter(p, c)) \/ UNCHANGED calls
  BY DEF Return, SyncEnter
<1>2. \A q \in Procs \ {p} : UNCHANGED <<at[q], step[q], run[q], status[q], syncRequest[q]>>
  <2>1. CASE MustVote(p)
    <3>1. /\ at' = [at EXCEPT ![p] = "vote"] /\ run' = [run EXCEPT ![p] = "aborting"]
          /\ UNCHANGED <<step, status, syncRequest>>
      BY <2>1 DEF Return, SyncEnter
    <3> QED BY <3>1 DEF IInv, TypeOK, SyncType, SpmdType
  <2>2. CASE ~ MustVote(p)
    <3>1. /\ run' = [run EXCEPT ![p] = "exited"]
          /\ status' = [status EXCEPT ![p] = "LPF_ERR_FATAL"]
          /\ UNCHANGED <<at, step, syncRequest>>
      BY <2>2 DEF Return
    <3> QED BY <3>1 DEF IInv, TypeOK, SyncType, SpmdType
  <2> QED BY <2>1, <2>2
<1>3. Passed(p)'
  <2>1. \A s \in 0..Len(program) :
          Takes(program, s, "vote") /\ 5 * s < Reached(p)' => 5 * s < Reached(p)
    BY NoVoteSkipped DEF Program, SyncVoted, VoteOver, Return
  <2> QED BY <1>1, <2>1, PassedKept DEF VotesInv, IInv, TypeOK
<1>4. run'[p] # "spmd"
  BY DEF Return, IInv, TypeOK, SpmdType
<1>5. Told(p)'
  <2>1. CASE m_aborted[p] = 0
    BY <1>1, <2>1 DEF Told
  <2>2. CASE m_aborted[p] # 0
    <3>1. UNCHANGED calls /\ status'[p] = "LPF_ERR_FATAL"
      BY <2>2 DEF Return, MustVote, IInv, TypeOK, SpmdType
    <3>2. ~ calls[p][LastCall(p)].abort
      <4>1. LastCall(p) \in DOMAIN calls[p]
        <5>1. LastCall(p) > 0 /\ LastCall(p) \in Nat
          BY <2>2 DEF VotesInv, Told, IInv, TypeOK, CallsType, LastCall
        <5> QED BY <5>1 DEF IInv, TypeOK, CallsType, LastCall
      <4> QED BY <1>1, <4>1 DEF VotesInv, Staying
    <3>3. ~ AllAbort(LastCall(p))'
      BY <3>1, <3>2 DEF AllAbort, LastCall
    <3> QED BY <1>1, <2>2, <3>1, <3>3 DEF VotesInv, Told, LastCall
  <2> QED BY <2>1, <2>2 DEF IInv, TypeOK, SpmdType
<1> QED BY <1>1, <1>2, <1>3, <1>4, <1>5, VotesKept DEF Staying, IInv

\* The vote fails: all have cast theirs, and somebody aborts.
LEMMA VoteFailedVotes ==
  ASSUME IInv, OrderInv, IInv', VotesInv, NEW p \in Procs, VoteFailed(p)
  PROVE  VotesInv'
<1>1. /\ at[p] = "vote" /\ VoteOver(p) /\ VotedAbort(p) # 0
      /\ UNCHANGED <<program, calls, step, syncRequest>>
  BY DEF VoteFailed, SyncAborted, VoteOver
<1>2. \A q \in Procs \ {p} :
        UNCHANGED <<at[q], m_aborted[q], step[q], run[q], status[q], syncRequest[q]>>
  BY DEF VoteFailed, SyncAborted, IInv, TypeOK, SyncType, SpmdType
<1>3. Passed(p)'
  <2>1. \A s \in 0..Len(program) :
          Takes(program, s, "vote") /\ 5 * s < Reached(p)' => 5 * s < Reached(p)
    BY NoVoteSkipped DEF Program, SyncVoted, VoteFailed, SyncAborted
  <2> QED BY <1>1, <2>1, PassedKept DEF VotesInv, IInv, TypeOK
<1> DEFINE A == {q \in Procs : Contributions(p)[q].abort}
<1>4. VotedAbort(p) = Cardinality(A) /\ IsFiniteSet(A)
  BY ProcsAssumption, FS_Subset DEF VotedAbort
<1>5. /\ \E q \in Procs : calls[q][LastCall(p)].abort
      /\ AllAbort(LastCall(p)) <=> A = Procs
  <2>1. \A q \in Procs : Contributions(p)[q] = calls[q][LastCall(p)]
    BY DEF Contributions
  <2>2. A # {}
    BY <1>1, <1>4, FS_EmptySet
  <2>3. \E q \in Procs : calls[q][LastCall(p)].abort
    BY <2>1, <2>2
  <2>4. AllAbort(LastCall(p)) <=> A = Procs
    BY <2>1 DEF AllAbort
  <2> QED BY <2>3, <2>4
<1>6. VotedAbort(p) = Cardinality(Procs) <=> A = Procs
  BY <1>4, ProcsAssumption, FS_Subset
<1>7. Told(p)'
  <2>1. Takes(program, step[p], "vote") /\ \A q \in Procs : LastCall(p) <= LastCall(q)
    BY <1>1 DEF OrderInv, Situated, Voted, VoteOver
  <2>2. LastCall(p) > 0
    BY <1>1 DEF IInv, Phases, Phase
  <2>3. run'[p] = "exited" => run[p] = "aborting" /\ status'[p] = Verdict(p)
    BY <1>1 DEF VoteFailed, IInv, TypeOK, SpmdType, Phases, Phase
  <2>4. run'[p] = "exited" =>
          status'[p] = IF AllAbort(LastCall(p)) THEN "LPF_SUCCESS" ELSE "LPF_ERR_FATAL"
    BY <1>5, <1>6, <2>3 DEF Verdict
  <2>5. LastCall(p)' = LastCall(p) /\ (AllAbort(LastCall(p))' <=> AllAbort(LastCall(p)))
        /\ \A q \in Procs : LastCall(q)' = LastCall(q)
    BY <1>1 DEF LastCall, AllAbort
  <2> HIDE DEF A
  <2> QED BY <1>1, <1>5, <2>1, <2>2, <2>4, <2>5 DEF Told
<1>8. Staying(p)'
  <2>1. run'[p] = "spmd" => run[p] = "spmd"
    BY DEF VoteFailed, IInv, TypeOK, SpmdType
  <2> QED BY <1>1, <2>1 DEF VotesInv, Staying
<1> QED BY <1>1, <1>2, <1>3, <1>7, <1>8, VotesKept DEF IInv

\* The vote succeeds: all have cast theirs, and nobody aborts.
LEMMA VotedVotes ==
  ASSUME IInv, OrderInv, IInv', VotesInv, NEW p \in Procs, SyncVoted(p), UNCHANGED spmdVars
  PROVE  VotesInv'
<1>1. /\ at[p] = "vote" /\ VoteOver(p) /\ VotedAbort(p) = 0
      /\ (\E c : Enter(p, c) /\ ~ c.abort) \/ UNCHANGED calls
      /\ UNCHANGED <<program, step, m_aborted, run, status, syncRequest>>
      /\ \A q \in Procs \ {p} : at'[q] = at[q]
  BY DEF SyncVoted, VoteOver, Barrier, Call, IInv, TypeOK, SyncType
<1>2. step[p] \in Nat /\ Reached(p) = 5 * step[p] /\ Reached(p)' \in Int
      /\ Reached(p)' <= 5 * step[p] + 4
  <2>1. step[p] \in Nat
    BY DEF IInv, TypeOK, SpmdType
  <2>2. Stage(p) = 0
    BY <1>1 DEF Stage
  <2>3. Stage(p)' \in -1..4 /\ Reached(p)' = 5 * step[p] + Stage(p)'
    BY <1>1 DEF Stage, Reached
  <2>4. Reached(p) = 5 * step[p]
    BY <2>1, <2>2 DEF Reached
  <2>5. Reached(p)' \in Int /\ Reached(p)' <= 5 * step[p] + 4
    BY <2>1, <2>3
  <2> QED BY <2>1, <2>4, <2>5
<1>3. \A q \in Procs : ~ calls[q][LastCall(p)].abort
  <2> DEFINE A == {q \in Procs : Contributions(p)[q].abort}
  <2>1. IsFiniteSet(A)
    BY ProcsAssumption, FS_Subset
  <2>2. A = {}
    BY <1>1, <2>1, FS_EmptySet DEF VotedAbort
  <2> QED BY <2>2 DEF Contributions
<1>4. Passed(p)'
  <2> SUFFICES ASSUME NEW s \in 0..Len(program), Takes(program, s, "vote"),
                      5 * s < Reached(p)', NEW r \in Procs
               PROVE  /\ Place(program, Moment(s, "vote")) <= LastCall(r)'
                      /\ ~ calls'[r][Place(program, Moment(s, "vote"))].abort
    BY <1>1 DEF Passed
  <2> DEFINE n == Place(program, Moment(s, "vote"))
  <2>1. n <= LastCall(r) /\ ~ calls[r][n].abort
    <3>1. CASE s = step[p]
      <4>1. n = LastCall(p)
        BY <1>1, <3>1, VoteContents
      <4>2. LastCall(p) <= LastCall(r)
        BY <1>1 DEF VoteOver, OrderInv, Voted
      <4> QED BY <1>3, <4>1, <4>2
    <3>2. CASE s # step[p]
      <4>1. s \in Nat
        OBVIOUS
      <4>2. 5 * s < Reached(p)
        BY <1>2, <3>2, <4>1
      <4> QED BY <4>2 DEF VotesInv, Passed
    <3> QED BY <3>1, <3>2
  <2>2. n \in Nat /\ n >= 1
    <3>1. s \in Nat /\ "vote" \in CollectiveOps
      BY DEF CollectiveOps
    <3>2. Moment(s, "vote") \in Nat /\ Occupied(program, Moment(s, "vote"))
      BY <3>1, MomentType DEF Occupied
    <3> QED BY <3>2, PlacePositive
  <2> HIDE DEF n
  <2>3. n \in DOMAIN calls[r] /\ calls'[r][n] = calls[r][n]
    BY <1>1, <2>1, <2>2, CallsKept DEF IInv, TypeOK
  <2>4. LastCall(r) \in Nat /\ LastCall(r)' \in Nat /\ LastCall(r) <= LastCall(r)'
    BY <1>1, CallsGrow DEF IInv, TypeOK
  <2> QED BY <2>1, <2>2, <2>3, <2>4 DEF n
<1>5. Told(p)'
  BY <1>1 DEF OrderInv, Situated, Told
<1>6. Staying(p)'
  <2>1. CASE UNCHANGED calls
    BY <1>1, <2>1 DEF VotesInv, Staying
  <2>2. CASE \E c : Enter(p, c) /\ ~ c.abort
    <3>1. PICK c : Enter(p, c) /\ ~ c.abort
      BY <2>2
    <3>2. \A n \in DOMAIN calls'[p] :
            calls'[p][n] = c \/ (n \in DOMAIN calls[p] /\ calls'[p][n] = calls[p][n])
      BY <3>1, EnterLast DEF IInv, TypeOK
    <3> QED BY <1>1, <3>1, <3>2 DEF VotesInv, Staying
  <2> QED BY <1>1, <2>1, <2>2
<1> QED BY <1>1, <1>4, <1>5, <1>6, VotesKept DEF IInv

LEMMA VotesStep ==
  ASSUME IInv, OrderInv, IInv', VotesInv, [Next]_vars
  PROVE  VotesInv'
<1>1. ASSUME NEW p \in Procs, Program(p)
      PROVE  VotesInv'
  <2>1. CASE Communicate(p)
    BY <1>1, <2>1, VotesSame DEF Communicate, put, get, atomic_fetch_and_add,
       atomic_cmp_and_swp, Post, SyncVoted, VoteOver
  <2>2. CASE resizeMesgQueue(p)
    BY <1>1, <2>2, VotesSame DEF resizeMesgQueue, resizeMesgq, SyncVoted, VoteOver
  <2>3. CASE sync(p)
    <3>1. /\ \/ UNCHANGED calls
             \/ Enter(p, Call("vote", FALSE, m_resized[p], {})) /\ m_aborted[p] = 0
          /\ UNCHANGED <<program, step, syncRequest, m_aborted, run, status>>
          /\ ~ SyncVoted(p)
      BY <2>3 DEF sync, SyncEnter, Computing, SyncVoted, VoteOver
    <3>2. \A q \in Procs \ {p} : at'[q] = at[q]
      BY <2>3 DEF sync, SyncEnter, IInv, TypeOK, SyncType
    <3>3. UNCHANGED calls \/ \E c : Enter(p, c) /\ ~ c.abort /\ m_aborted[p] = 0
      BY <3>1 DEF Call
    <3> QED BY <1>1, <3>1, <3>2, <3>3, VotesSame
  <2>4. CASE SyncReturns(p)
    <3>1. /\ UNCHANGED <<program, calls, step, m_aborted, run, status>>
          /\ ~ SyncVoted(p)
      BY <2>4 DEF SyncReturns, SyncKnown, SyncExchanged, Drained, SyncVoted, VoteOver
    <3>2. \A q \in Procs \ {p} : at'[q] = at[q] /\ syncRequest'[q] = syncRequest[q]
      BY <2>4 DEF SyncReturns, SyncKnown, SyncExchanged, Activate, IInv, TypeOK, SyncType
    <3> QED BY <1>1, <3>1, <3>2, VotesSame
  <2>5. CASE SyncContinues(p)
    <3>1. UNCHANGED spmdVars
      BY <2>5 DEF SyncContinues
    <3>2. CASE SyncVoted(p)
      BY <3>1, <3>2, VotedVotes
    <3>3. CASE ~ SyncVoted(p)
      <4>1. /\ UNCHANGED syncRequest /\ m_aborted[p] = 0
            /\ \A q \in Procs \ {p} : at'[q] = at[q]
        BY <2>5, <3>3 DEF SyncContinues, reconnectQPs, SyncReconnected, SyncExchange, Drained,
           OrderInv, Situated, IInv, TypeOK, SyncType
      <4>2. \/ UNCHANGED calls
            \/ Enter(p, Barrier("reconnected"))
            \/ Enter(p, Call("sum", FALSE, FALSE, Contribution(p)))
        BY <2>5, <3>3 DEF SyncContinues, reconnectQPs, SyncReconnected, SyncExchange
      <4>3. UNCHANGED calls \/ \E c : Enter(p, c) /\ ~ c.abort /\ m_aborted[p] = 0
        BY <4>1, <4>2 DEF Call, Barrier
      <4> QED BY <1>1, <3>1, <3>3, <4>1, <4>3, VotesSame
    <3> QED BY <3>2, <3>3
  <2>6. CASE SyncDone(p)
    <3>1. /\ UNCHANGED <<program, calls, syncRequest, m_aborted, run, status>>
          /\ m_aborted[p] = 0 /\ ~ SyncVoted(p)
          /\ \A q \in Procs \ {p} : at'[q] = at[q] /\ step'[q] = step[q]
      BY <2>6 DEF SyncDone, SyncReleased, SyncVoted, VoteOver, OrderInv, Situated, IInv, TypeOK,
         SyncType, SpmdType
    <3> QED BY <1>1, <3>1, VotesSame
  <2> QED BY <1>1, <2>1, <2>2, <2>3, <2>4, <2>5, <2>6, ReturnVotes, VoteFailedVotes DEF Program
<1>2. ASSUME NEW p \in Procs, Polling(p)
      PROVE  VotesInv'
  <2>1. UNCHANGED spmdVars /\ UNCHANGED at
    BY <1>2 DEF Polling, PollLocal, PollRemote, PollBlock, PollSync, Poll, doLocalProgress,
       doRemoteProgress, processBlock, processSyncRequest
  <2>2. CASE PollSync(p)
    <3>1. syncRequest[p].isActive /\ (UNCHANGED calls \/ Enter(p, Barrier("barrier")))
      BY <2>2 DEF PollSync, Poll, processSyncRequest, AllArrived
    <3>2. m_aborted[p] = 0
      BY <3>1 DEF IInv, Phases, Phase, OrderInv, Situated
    <3>3. UNCHANGED calls \/ \E c : Enter(p, c) /\ ~ c.abort /\ m_aborted[p] = 0
      BY <3>1, <3>2 DEF Call, Barrier
    <3>4. \A q \in Procs \ {p} : syncRequest'[q] = syncRequest[q]
      BY <2>2 DEF PollSync, Poll, processSyncRequest, FinishSync, IInv, TypeOK, SyncType
    <3> QED BY <1>2, <2>1, <3>3, <3>4, VotesSame
  <2>3. CASE ~ PollSync(p)
    <3>1. UNCHANGED <<calls, syncRequest>>
      BY <1>2, <2>3 DEF Polling, PollLocal, PollRemote, PollBlock, Poll, doLocalProgress,
         doRemoteProgress, processBlock
    <3> QED BY <1>2, <2>1, <3>1, VotesSame
  <2> QED BY <2>2, <2>3
<1>3. CASE Fabric \/ UNCHANGED vars
  <2>1. UNCHANGED <<program, calls, step, at, run, status, m_aborted, syncRequest>>
    BY <1>3 DEF Fabric, vars
  <2>2. \A p \in Procs : Reached(p)' = Reached(p)
    BY <2>1 DEF Reached, Stage, Awaiting
  <2>3. \A p \in Procs : Passed(p)' /\ Told(p)' /\ Staying(p)'
    BY <2>1, <2>2 DEF VotesInv, Passed, Told, Staying, AllAbort, LastCall
  <2> QED BY <2>3 DEF VotesInv
<1> QED BY <1>1, <1>2, <1>3 DEF Next, Finished

LEMMA InitVotes ==
  ASSUME Init
  PROVE  VotesInv
<1>1. program \in Seq(Supersteps)
  BY ProgramsAssumption DEF Init
<1> SUFFICES ASSUME NEW p \in Procs PROVE Passed(p) /\ Told(p) /\ Staying(p)
  BY DEF VotesInv
<1>2. Reached(p) = -1
  BY DEF Init, EngineInit, Reached, Stage
<1>3. Passed(p)
  BY <1>2 DEF Passed
<1>4. Told(p) /\ Staying(p)
  BY DEF Init, MachineInit, Told, Staying
<1> QED BY <1>3, <1>4

\* IBVerbs::sync goes past a vote only when all have cast it for staying, and
\* Process::hook tells a process the outcome of a vote that all have cast.
THEOREM VotesInvariant == ASSUME Disciplined PROVE Spec => []VotesInv
<1>1. Init => VotesInv
  BY InitVotes
<1>2. IInv /\ OrderInv /\ IInv' /\ VotesInv /\ [Next]_vars => VotesInv'
  BY VotesStep
<1> QED BY <1>1, <1>2, Invariant, OrderInvariant, PTL DEF Spec

\* Process::hook returns the same on all processes: LPF_SUCCESS if all left the
\* spmd function by themselves, otherwise LPF_ERR_FATAL.
THEOREM ExitsAgree == ASSUME Disciplined PROVE Spec => []ExitAgreement
<1>1. IInv /\ OrderInv /\ VotesInv => ExitAgreement
  <2> SUFFICES ASSUME IInv, OrderInv, VotesInv
               PROVE  ExitAgreement
    OBVIOUS
  <2>1. ASSUME NEW p \in Procs, run[p] = "exited"
        PROVE  /\ m_aborted[p] # 0 /\ step[p] \in 0..Len(program)
               /\ Reached(p) = 5 * step[p]
               /\ LastCall(p) = Place(program, Moment(step[p], "vote"))
    <3>1. m_aborted[p] # 0 /\ at[p] = "out"
      BY <2>1 DEF OrderInv, Situated
    <3>2. step[p] \in 0..Len(program) /\ step[p] \in Nat
      BY DEF IInv, TypeOK, SpmdType, Phases, Phase
    <3>3. Reached(p) = 5 * step[p] + 0 /\ Moment(step[p], "vote") = 5 * step[p] + 0
      BY <3>1 DEF Reached, Stage, Moment, Rank
    <3> QED BY <3>1, <3>2, <3>3 DEF OrderInv, Ordered
  \* Nobody gets past the vote at which another has been told.
  <2>2. ASSUME NEW p \in Procs, NEW q \in Procs, run[p] = "exited", run[q] = "exited"
        PROVE  ~ (step[p] < step[q])
    <3> SUFFICES ASSUME step[p] < step[q] PROVE FALSE
      OBVIOUS
    <3>1. 5 * step[p] < Reached(q) /\ step[p] \in 0..Len(program)
      BY <2>1, <2>2
    <3>2. Takes(program, step[p], "vote") /\ \E r \in Procs : calls[r][LastCall(p)].abort
      BY <2>1, <2>2 DEF VotesInv, Told
    <3>3. \A r \in Procs : ~ calls[r][LastCall(p)].abort
      BY <2>1, <2>2, <3>1, <3>2 DEF VotesInv, Passed
    <3> QED BY <3>2, <3>3
  <2>3. ASSUME NEW p \in Procs, NEW q \in Procs, run[p] = "exited", run[q] = "exited"
        PROVE  status[p] = status[q]
    <3>1. step[p] = step[q]
      <4>1. step[p] \in Nat /\ step[q] \in Nat
        BY DEF IInv, TypeOK, SpmdType
      <4> QED BY <2>2, <2>3, <4>1
    <3>2. LastCall(p) = LastCall(q)
      BY <2>1, <2>3, <3>1
    <3> QED BY <2>1, <2>3, <3>2 DEF VotesInv, Told
  <2> QED BY <2>3 DEF ExitAgreement
<1> QED BY <1>1, Invariant, OrderInvariant, VotesInvariant, PTL

----------------------------------------------------------------------------
(* Resized queue pairs *)

\* lpf_resize_message_queue takes effect with the next default sync.
DefaultResizes ==
  \A prog \in Programs : \A s \in DOMAIN prog : prog[s].resize => prog[s].mode = "DEFAULT"

\* Once past the reconnection of a superstep that resizes, p is connected with
\* the queue pairs of that superstep, or of a later one.
Connected(p) ==
  \A s \in 0..(Len(program) - 1) :
    /\ s < step[p] \/ (s = step[p] /\ at[p] \in {"reconnected", "drain", "sum", "wait"})
    /\ program[s + 1].resize
    => m_qps[p].connected > s
ConnectedInv == \A p \in Procs : Connected(p)

LEMMA ConnectedSame ==
  ASSUME NEW p \in Procs, Connected(p), UNCHANGED <<program, step[p]>>,
         m_qps'[p].connected = m_qps[p].connected,
         at'[p] \in {"reconnected", "drain", "sum", "wait"} =>
           at[p] \in {"reconnected", "drain", "sum", "wait"}
  PROVE  Connected(p)'
BY DEF Connected

LEMMA ConnectedStep ==
  ASSUME DefaultResizes, IInv, OrderInv, ConnectedInv, [Next]_vars
  PROVE  ConnectedInv'
<1>1. ASSUME NEW p \in Procs, Program(p)
      PROVE  ConnectedInv'
  <2>1. /\ program' = program
        /\ \A q \in Procs \ {p} : UNCHANGED <<at[q], step[q], m_qps[q]>>
    <3>1. CASE Communicate(p) \/ resizeMesgQueue(p) \/ sync(p) \/ SyncContinues(p)
      BY <3>1 DEF Communicate, put, get, atomic_fetch_and_add, atomic_cmp_and_swp, Post,
         resizeMesgQueue, resizeMesgq, stageQPs, sync, SyncEnter, SyncContinues, SyncVoted,
         reconnectQPs, Swap, SyncReconnected, SyncExchange, Drained, IInv, TypeOK, SyncType
    <3>2. CASE Return(p) \/ VoteFailed(p) \/ SyncReturns(p)
      BY <3>2 DEF Return, SyncEnter, VoteFailed, SyncAborted, SyncReturns, SyncKnown,
         SyncExchanged, Activate, Drained, IInv, TypeOK, SyncType
    <3>3. CASE SyncDone(p)
      BY <3>3 DEF SyncDone, SyncReleased, IInv, TypeOK, SyncType, SpmdType
    <3> QED BY <1>1, <3>1, <3>2, <3>3 DEF Program
  <2>2. \A q \in Procs \ {p} : Connected(q)'
    BY <2>1, ConnectedSame DEF ConnectedInv
  <2>3. Connected(p)'
    <3>1. CASE Communicate(p) \/ SyncReturns(p)
      BY <3>1, ConnectedSame DEF Communicate, put, get, atomic_fetch_and_add,
         atomic_cmp_and_swp, Post, SyncReturns, SyncKnown, SyncExchanged, Drained, ConnectedInv
    <3>2. CASE resizeMesgQueue(p)
      <4>1. m_qps'[p].connected = m_qps[p].connected /\ UNCHANGED <<at, step, program>>
        BY <3>2 DEF resizeMesgQueue, resizeMesgq, stageQPs, IInv, TypeOK, SyncType
      <4> QED BY <4>1, ConnectedSame DEF ConnectedInv
    <3>3. CASE sync(p)
      <4>1. /\ UNCHANGED <<m_qps, step, program>> /\ step[p] < Len(program)
            /\ \/ at'[p] = "vote"
               \/ at'[p] = "drain" /\ Superstep(p).mode # "DEFAULT"
        BY <3>3 DEF sync, SyncEnter, Computing, IInv, TypeOK, SyncType
      <4>2. CASE at'[p] = "vote"
        BY <4>1, <4>2, ConnectedSame DEF ConnectedInv
      <4>3. CASE Superstep(p).mode # "DEFAULT"
        <5>1. step[p] + 1 \in DOMAIN program
          BY <4>1 DEF IInv, TypeOK, SpmdType
        <5>2. ~ program[step[p] + 1].resize
          BY <4>3, <5>1 DEF DefaultResizes, Superstep, IInv
        <5> QED BY <4>1, <5>2 DEF ConnectedInv, Connected
      <4> QED BY <4>1, <4>2, <4>3
    <3>4. CASE Return(p) \/ VoteFailed(p)
      <4>1. UNCHANGED <<m_qps, step, program>> /\ at'[p] \in {"out", "vote"}
        BY <3>4 DEF Return, SyncEnter, VoteFailed, SyncAborted, IInv, TypeOK, SyncType
      <4> QED BY <4>1, ConnectedSame DEF ConnectedInv
    <3>5. CASE SyncContinues(p)
      <4>1. UNCHANGED <<step, program>>
        BY <3>5 DEF SyncContinues
      <4>2. CASE SyncVoted(p)
        <5>1. /\ UNCHANGED m_qps
              /\ \/ at'[p] = "reconnect"
                 \/ at'[p] = "drain" /\ ~ Resizes(program, step[p])
          BY <4>2, VoteOutcome DEF SyncVoted, IInv, TypeOK, SyncType
        <5>2. step[p] < Len(program)
          BY <4>2, VoteOutcome
        <5>3. CASE at'[p] = "reconnect"
          BY <4>1, <5>1, <5>3, ConnectedSame DEF ConnectedInv
        <5>4. CASE ~ Resizes(program, step[p])
          BY <4>1, <5>1, <5>2, <5>4 DEF ConnectedInv, Connected, Resizes
        <5> QED BY <5>1, <5>3, <5>4
      <4>3. CASE reconnectQPs(p)
        <5>1. m_qps[p].staged = step[p] + 1
          <6>1. at[p] = "reconnect"
            BY <4>3 DEF reconnectQPs
          <6>2. Resizes(program, step[p]) /\ run[p] = "spmd"
            BY <6>1, BeyondVote DEF OrderInv, Situated, Takes, IInv
          <6> QED BY <6>1, <6>2 DEF OrderInv, Resizing
        <5>2. m_qps'[p].connected = step[p] + 1
          BY <4>3, <5>1 DEF reconnectQPs, Swap, IInv, TypeOK, SyncType
        <5>3. step[p] \in Nat
          BY DEF IInv, TypeOK, SpmdType
        <5>4. \A s \in Nat : s < step[p] \/ s = step[p] => m_qps'[p].connected > s
          BY <5>2, <5>3
        <5> QED BY <4>1, <5>4 DEF Connected
      <4>4. CASE SyncReconnected(p) \/ SyncExchange(p, Superstep(p).mode)
        BY <4>1, <4>4, ConnectedSame DEF SyncReconnected, SyncExchange, Drained, ConnectedInv
      <4> QED BY <3>5, <4>2, <4>3, <4>4 DEF SyncContinues
    <3>6. CASE SyncDone(p)
      <4>1. /\ UNCHANGED <<m_qps, program>> /\ at[p] = "wait" /\ at'[p] = "out"
            /\ step'[p] = step[p] + 1 /\ step[p] \in Nat
        BY <3>6 DEF SyncDone, SyncReleased, IInv, TypeOK, SyncType, SpmdType
      <4>2. \A s \in Nat : s < step[p] + 1 => s < step[p] \/ s = step[p]
        BY <4>1
      <4> QED BY <4>1, <4>2 DEF ConnectedInv, Connected
    <3> QED BY <1>1, <3>1, <3>2, <3>3, <3>4, <3>5, <3>6 DEF Program
  <2> QED BY <2>2, <2>3 DEF ConnectedInv
<1>2. CASE UNCHANGED <<program, step, at, m_qps>>
  BY <1>2, ConnectedSame DEF ConnectedInv
<1>3. CASE (\E p \in Procs : Polling(p)) \/ Fabric \/ UNCHANGED vars
  <2>1. UNCHANGED <<program, step, at, m_qps>>
    BY <1>3 DEF Polling, PollLocal, PollRemote, PollBlock, PollSync, Poll, doLocalProgress,
       doRemoteProgress, processBlock, processSyncRequest, Fabric, vars
  <2> QED BY <1>2, <2>1
<1> QED BY <1>1, <1>3 DEF Next, Finished

\* After the sync that follows an lpf_resize_message_queue, be it the first or a
\* later one, the queue pairs that carry the traffic are those that it has made,
\* or those that one after it has made.
THEOREM ResizedInTime ==
  ASSUME Disciplined, DefaultResizes PROVE Spec => []ResizeTakesEffect
<1>1. Init => ConnectedInv
  <2> SUFFICES ASSUME Init, NEW p \in Procs, NEW s \in 0..(Len(program) - 1)
               PROVE  /\ ~ (s < step[p])
                      /\ at[p] \notin {"reconnected", "drain", "sum", "wait"}
    BY DEF ConnectedInv, Connected
  <2> QED BY DEF Init, EngineInit
<1>2. IInv /\ OrderInv /\ ConnectedInv /\ [Next]_vars => ConnectedInv'
  BY ConnectedStep
<1>3. IInv /\ ConnectedInv => ResizeTakesEffect
  <2> SUFFICES ASSUME IInv, ConnectedInv, NEW p \in Procs, NEW s \in 0..(step[p] - 1),
                      program[s + 1].resize
               PROVE  m_qps[p].connected > s
    BY DEF ResizeTakesEffect
  <2>1. step[p] \in Nat /\ step[p] <= Len(program) /\ Len(program) \in Nat
    BY DEF IInv, TypeOK, SpmdType, Phases, Phase
  <2>2. s \in 0..(Len(program) - 1) /\ s < step[p]
    BY <2>1
  <2> QED BY <2>2 DEF ConnectedInv, Connected
<1> QED BY <1>1, <1>2, <1>3, Invariant, OrderInvariant, PTL DEF Spec
=============================================================================
