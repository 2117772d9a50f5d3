----------------------- MODULE RegistrationOrderProofs -----------------------
(***************************************************************************)
(* Registrations are exchanged in the same order everywhere, under the     *)
(* right keys and within what has been reserved: proofs about              *)
(* Registration.  The list that a sync works through is the same on all    *)
(* processes although each keeps its own, so that the number and the kind  *)
(* of the collective calls of a process follow from the program.           *)
(***************************************************************************)
EXTENDS RegistrationProofs, FiniteSetTheorems

----------------------------------------------------------------------------
(* The agenda.  lists[k] holds the names of what is to be registered before *)
(* the k-th call of the program, base[k] how many collectives there have    *)
(* been by then.                                                            *)

Barriers(n)   == IF n > 0 THEN 1 ELSE 0
Ballots(vote) == IF vote THEN 1 ELSE 0

\* The collectives of a sync: two for each registration, a barrier, the vote.
VotePlace(list)       == 2 * Len(list) + Barriers(Len(list)) + 1
SyncCalls(list, vote) == 2 * Len(list) + Barriers(Len(list)) + Ballots(vote)

\* What the k-th call c makes of the list, and how many collectives it takes.
ListAfter(list, k, c) ==
  IF c.do = "register" THEN Append(list, k)
  ELSE IF c.do = "deregister"
  THEN IF c.name \in Range(list) THEN Erase(list, c.name) ELSE list
  ELSE <<>>
CallsOf(list, c) == IF c.do = "sync" THEN SyncCalls(list, c.vote) ELSE 0

Consistent(lists, base) ==
  /\ lists \in Seq(Seq(Nat)) /\ Len(lists) = Len(history) + 1
  /\ base \in Seq(Nat) /\ Len(base) = Len(history) + 1
  /\ \A k \in 1..Len(history) :
       /\ lists[k + 1] = ListAfter(lists[k], k, history[k])
       /\ base[k + 1] = base[k] + CallsOf(lists[k], history[k])
  /\ \A i, j \in 1..(Len(history) + 1) : i <= j => base[i] <= base[j]

\* The list that p should have, and the collectives it made since the call it is in.
List(p, lists)    == lists[pos[p] + 1]
Progress(p, base) == LastCall(p) - base[pos[p] + 1]

\* The list of p is that of the agenda.
Listed(p, lists) ==
  at[p] \notin {"vote", "left"} =>
    /\ Len(m_added[p]) = Len(List(p, lists))
    /\ \A i \in 1..Len(List(p, lists)) :
         /\ List(p, lists)[i] \in DOMAIN slotOf[p]
         /\ m_added[p][i] = slotOf[p][List(p, lists)[i]]

\* p has made the calls up to where it is.
Located(p, lists, base) ==
  /\ at[p] = "user"    => Progress(p, base) = 0
  /\ at[p] = "agree"   => Progress(p, base) = 2 * next[p] - 1
  /\ at[p] = "gather"  => Progress(p, base) = 2 * next[p]
  /\ at[p] = "barrier" => /\ Progress(p, base) = 2 * Len(List(p, lists)) + 1
                          /\ List(p, lists) # <<>>
  /\ at[p] = "vote"    => /\ Progress(p, base) = VotePlace(List(p, lists))
                          /\ ~ aborting[p] => history[pos[p] + 1].vote

\* The n-th collective of a sync with this list is c.
IsCall(c, list, n) ==
  \/ \E i \in 1..Len(list) : n = 2 * i - 1 /\ c.op = "allreduce"
  \/ \E i \in 1..Len(list) : n = 2 * i /\ c.op = "allgather" /\ c.key = list[i]
  \/ n = 2 * Len(list) + 1 /\ list # <<>> /\ c.op = "barrier"
  \/ n = VotePlace(list) /\ c.op = "vote"

\* The j-th collective belongs to the k-th call; the one after the last is the
\* sync of Interface::abort.
Falls(j, k, base) ==
  /\ k \in 1..(Len(history) + 1) /\ base[k] < j
  /\ k <= Len(history) => j <= base[k + 1]
  /\ k = Len(history) + 1 => Len(history) = MaxCalls
Made(p, lists, base) ==
  \A j \in 1..LastCall(p) : \E k \in 1..(Len(history) + 1) :
    Falls(j, k, base) /\ IsCall(calls[p][j], lists[k], j - base[k])

Leaving(p) == aborting[p] => pos[p] = MaxCalls

Agenda(lists, base) ==
  /\ Consistent(lists, base)
  /\ \A p \in Procs : /\ Listed(p, lists) /\ Located(p, lists, base)
                    /\ Made(p, lists, base)
AgendaInv == (\E lists, base : Agenda(lists, base)) /\ \A p \in Procs : Leaving(p)

----------------------------------------------------------------------------
(* Lists and their collectives *)

LEMMA CostType ==
  ASSUME NEW n \in Nat, NEW vote \in BOOLEAN
  PROVE  /\ Barriers(n) \in {0, 1} /\ (n > 0 => Barriers(n) = 1) /\ (n = 0 => Barriers(n) = 0)
         /\ Ballots(vote) \in {0, 1} /\ (vote => Ballots(vote) = 1)
         /\ (~ vote => Ballots(vote) = 0)
BY DEF Barriers, Ballots

LEMMA VotePlaceIs ==
  ASSUME NEW list \in Seq(Nat)
  PROVE  /\ VotePlace(list) \in Nat /\ Len(list) \in Nat
         /\ list # <<>> => VotePlace(list) = 2 * Len(list) + 2 /\ Len(list) > 0
         /\ list = <<>> => VotePlace(list) = 1 /\ Len(list) = 0
<1>1. Len(list) \in Nat /\ (list = <<>> <=> Len(list) = 0)
  OBVIOUS
<1>2. /\ Barriers(Len(list)) \in {0, 1}
      /\ list # <<>> => Barriers(Len(list)) = 1
      /\ list = <<>> => Barriers(Len(list)) = 0
  BY <1>1 DEF Barriers
<1> QED BY <1>1, <1>2 DEF VotePlace

LEMMA SyncCallsType ==
  ASSUME NEW list \in Seq(Nat), NEW vote \in BOOLEAN
  PROVE  /\ SyncCalls(list, vote) \in Nat
         /\ vote => SyncCalls(list, vote) = VotePlace(list)
         /\ ~ vote => SyncCalls(list, vote) = VotePlace(list) - 1
<1>1. Len(list) \in Nat
  OBVIOUS
<1>2. /\ Barriers(Len(list)) \in {0, 1} /\ Ballots(vote) \in {0, 1}
      /\ vote => Ballots(vote) = 1
      /\ ~ vote => Ballots(vote) = 0
  BY <1>1, CostType
<1> QED BY <1>1, <1>2 DEF SyncCalls, VotePlace

\* Where the j-th element of a list of length n comes from when the i-th is erased.
Moved(i, n, j) == IF j = i THEN n ELSE j

LEMMA MovedElsewhere ==
  ASSUME NEW n \in Nat, NEW i \in 1..n, NEW j \in 1..(n - 1)
  PROVE  Moved(i, n, j) \in 1..n /\ Moved(i, n, j) # i
BY DEF Moved

\* What SparseSet::erase does to a list that holds the element once.
LEMMA EraseEffect ==
  ASSUME NEW set \in Seq(Nat), NEW i \in DOMAIN set, NEW slot, set[i] = slot,
         \A j \in DOMAIN set : set[j] = slot => j = i
  PROVE  /\ Erase(set, slot) \in Seq(Nat) /\ Len(Erase(set, slot)) = Len(set) - 1
         /\ \A j \in 1..(Len(set) - 1) :
              /\ Erase(set, slot)[j] = set[Moved(i, Len(set), j)]
              /\ Moved(i, Len(set), j) \in 1..Len(set) /\ Moved(i, Len(set), j) # i
<1> DEFINE n == Len(set)
           x == CHOOSE j \in DOMAIN set : set[j] = slot
           d == [set EXCEPT ![x] = set[n]]
           e == SubSeq(d, 1, n - 1)
<1>1. x \in DOMAIN set /\ set[x] = slot
  OBVIOUS
<1>2. x = i
  BY <1>1
<1>3. n \in Nat /\ n # 0 /\ DOMAIN set = 1..n /\ set[n] \in Nat
  OBVIOUS
<1> HIDE DEF x
<1>4. d \in Seq(Nat) /\ Len(d) = n /\ \A j \in 1..n : d[j] = IF j = i THEN set[n] ELSE set[j]
  <2>0. set \in [1..n -> Nat]
    BY <1>3
  <2>1. d \in [1..n -> Nat]
    BY <1>3, <2>0
  <2>2. d \in Seq(Nat) /\ Len(d) = n
    BY <1>3, <2>1
  <2>3. \A j \in 1..n : d[j] = IF j = i THEN set[n] ELSE set[j]
    BY <1>2, <1>3
  <2> QED BY <2>2, <2>3
<1> HIDE DEF d
<1>5. e \in Seq(Nat) /\ Len(e) = n - 1 /\ \A j \in 1..(n - 1) : e[j] = d[j]
  BY <1>3, <1>4, SubSeqProperties, SMTT(20)
<1>6. Erase(set, slot) = e
  BY DEF Erase, d, x
<1>7. ASSUME NEW j \in 1..(n - 1)
      PROVE  e[j] = set[Moved(i, n, j)] /\ Moved(i, n, j) \in 1..n /\ Moved(i, n, j) # i
  <2>1. j \in 1..n
    BY <1>3
  <2>2. CASE j = i
    <3>1. n # i
      BY <1>3, <2>2
    <3>2. n \in 1..n
      BY <1>3
    <3> QED BY <1>4, <1>5, <2>1, <2>2, <3>1, <3>2 DEF Moved
  <2>3. CASE j # i
    BY <1>4, <1>5, <2>1, <2>3 DEF Moved
  <2> QED BY <2>2, <2>3
<1> QED BY <1>5, <1>6, <1>7

LEMMA ListAfterType ==
  ASSUME NEW list \in Seq(Nat), NEW k \in Nat, NEW c \in ProgramCalls
  PROVE  /\ ListAfter(list, k, c) \in Seq(Nat)
         /\ CallsOf(list, c) \in Nat
<1>1. CASE c.do = "register"
  BY <1>1 DEF ListAfter, CallsOf
<1>2. CASE c.do = "deregister"
  <2> DEFINE n == Len(list)
             x == CHOOSE j \in DOMAIN list : list[j] = c.name
             d == [list EXCEPT ![x] = list[n]]
  <2>1. c.name \notin Range(list) => ListAfter(list, k, c) = list
    BY <1>2 DEF ListAfter
  <2>2. ASSUME c.name \in Range(list) PROVE Erase(list, c.name) \in Seq(Nat)
    <3>1. x \in DOMAIN list
      BY <2>2 DEF Range
    <3>2. n \in Nat /\ n # 0 /\ DOMAIN list = 1..n /\ list[n] \in Nat
      BY <3>1
    <3> HIDE DEF x
    <3>0. list \in [1..n -> Nat]
      BY <3>2
    <3>3. d \in [1..n -> Nat]
      BY <3>0, <3>2
    <3>4. d \in Seq(Nat) /\ Len(d) = n
      BY <3>2, <3>3
    <3> HIDE DEF d
    <3>5. SubSeq(d, 1, n - 1) \in Seq(Nat)
      BY <3>2, <3>4, SubSeqProperties, SMTT(20)
    <3> QED BY <3>5 DEF Erase, d, x
  <2>3. c.name \in Range(list) => ListAfter(list, k, c) = Erase(list, c.name)
    BY <1>2 DEF ListAfter
  <2>4. CallsOf(list, c) = 0
    BY <1>2 DEF CallsOf
  <2> QED BY <2>1, <2>2, <2>3, <2>4
<1>3. CASE c.do = "sync"
  <2>1. c.vote \in BOOLEAN
    BY <1>3 DEF ProgramCalls
  <2> QED BY <1>3, <2>1, SyncCallsType DEF ListAfter, CallsOf
<1> QED BY <1>1, <1>2, <1>3 DEF ProgramCalls

\* The place of a collective in its sync says what it is.
LEMMA PlaceSaysWhat ==
  ASSUME NEW list \in Seq(Nat), NEW n \in Int, NEW c, NEW d,
         IsCall(c, list, n), IsCall(d, list, n)
  PROVE  c.op = d.op /\ (c.op = "allgather" => c.key = d.key)
<1>1. /\ VotePlace(list) \in Nat /\ Len(list) \in Nat
      /\ list # <<>> => VotePlace(list) = 2 * Len(list) + 2 /\ Len(list) > 0
      /\ list = <<>> => VotePlace(list) = 1 /\ Len(list) = 0
  BY VotePlaceIs
<1>2. ASSUME NEW i \in 1..Len(list), n = 2 * i - 1
      PROVE  /\ \A j \in 1..Len(list) : n # 2 * j
             /\ n # 2 * Len(list) + 1 /\ n # VotePlace(list)
  BY <1>1, <1>2
<1>3. ASSUME NEW i \in 1..Len(list), n = 2 * i
      PROVE  /\ \A j \in 1..Len(list) : n # 2 * j - 1
             /\ \A j \in 1..Len(list) : n = 2 * j => i = j
             /\ n # 2 * Len(list) + 1 /\ n # VotePlace(list)
  BY <1>1, <1>3
<1>4. list # <<>> => 2 * Len(list) + 1 # VotePlace(list)
  BY <1>1
<1> QED BY <1>2, <1>3, <1>4 DEF IsCall

\* The collectives of a sync are as many as it should have.
LEMMA CallInTime ==
  ASSUME NEW list \in Seq(Nat), NEW n \in Int, NEW c, IsCall(c, list, n),
         NEW vote \in BOOLEAN, c.op = "vote" => vote
  PROVE  1 <= n /\ n <= SyncCalls(list, vote)
<1>1. /\ VotePlace(list) \in Nat /\ Len(list) \in Nat
      /\ list # <<>> => VotePlace(list) = 2 * Len(list) + 2 /\ Len(list) > 0
      /\ list = <<>> => VotePlace(list) = 1 /\ Len(list) = 0
      /\ SyncCalls(list, vote) \in Nat
      /\ vote => SyncCalls(list, vote) = VotePlace(list)
      /\ ~ vote => SyncCalls(list, vote) = VotePlace(list) - 1
  BY VotePlaceIs, SyncCallsType
<1>2. CASE \E i \in 1..Len(list) : n = 2 * i - 1 \/ n = 2 * i
  BY <1>1, <1>2
<1>3. CASE n = 2 * Len(list) + 1 /\ list # <<>>
  BY <1>1, <1>3
<1>4. CASE n = VotePlace(list) /\ c.op = "vote"
  <2>1. 1 <= VotePlace(list)
    BY <1>1
  <2>2. SyncCalls(list, vote) = VotePlace(list)
    BY <1>1, <1>4, Zenon
  <2> QED BY <1>1, <1>4, <2>1, <2>2
<1> QED BY <1>2, <1>3, <1>4 DEF IsCall

----------------------------------------------------------------------------
(* The agenda grows with the history *)

Extended(lists, base, lists2, base2) ==
  /\ \A k \in 1..(Len(history) + 1) : lists2[k] = lists[k] /\ base2[k] = base[k]
  /\ history' = history \/ Len(history) < MaxCalls

LEMMA SameAgenda ==
  ASSUME NEW lists, NEW base, Consistent(lists, base), history' = history
  PROVE  Consistent(lists, base)' /\ Extended(lists, base, lists, base)
BY DEF Consistent, Extended

LEMMA NewCall ==
  ASSUME IInv, NEW p \in Procs, NEW c \in ProgramCalls, Collective(p, c),
         NEW lists, NEW base, Consistent(lists, base)
  PROVE  \E lists2, base2 :
           /\ Consistent(lists2, base2)' /\ Extended(lists, base, lists2, base2)
           /\ pos[p] + 1 \in 1..Len(history') /\ history'[pos[p] + 1] = c
<1> DEFINE n == Len(history)
<1>1. /\ history \in Seq(ProgramCalls) /\ n \in Nat /\ pos[p] \in Nat /\ pos[p] <= n
  BY DEF IInv, TypeOK, ProgramType, InStep
<1>2. CASE pos[p] < n /\ history[pos[p] + 1] = c /\ UNCHANGED <<history, trace>>
  <2>1. Consistent(lists, base)' /\ Extended(lists, base, lists, base)
    BY <1>2, SameAgenda
  <2>2. pos[p] + 1 \in 1..Len(history') /\ history'[pos[p] + 1] = c
    BY <1>1, <1>2
  <2> QED BY <2>1, <2>2
<1>3. CASE pos[p] = n /\ n < MaxCalls /\ history' = Append(history, c)
  <2>0. PICK l, b : /\ l = ListAfter(lists[n + 1], n + 1, c)
                    /\ b = base[n + 1] + CallsOf(lists[n + 1], c)
    OBVIOUS
  <2>9. PICK lists2, base2 : lists2 = Append(lists, l) /\ base2 = Append(base, b)
    OBVIOUS
  <2>1. /\ lists \in Seq(Seq(Nat)) /\ Len(lists) = n + 1
        /\ base \in Seq(Nat) /\ Len(base) = n + 1
        /\ \A k \in 1..n : /\ lists[k + 1] = ListAfter(lists[k], k, history[k])
                           /\ base[k + 1] = base[k] + CallsOf(lists[k], history[k])
        /\ \A i, j \in 1..(n + 1) : i <= j => base[i] <= base[j]
    BY DEF Consistent
  <2>2. n + 1 \in 1..(n + 1) /\ lists[n + 1] \in Seq(Nat) /\ base[n + 1] \in Nat
    <3>1. n + 1 \in 1..(n + 1) /\ n + 1 \in DOMAIN lists /\ n + 1 \in DOMAIN base
      BY <1>1, <2>1
    <3> QED BY <2>1, <3>1, ElementOfSeq
  <2>3. l \in Seq(Nat) /\ CallsOf(lists[n + 1], c) \in Nat /\ b \in Nat /\ base[n + 1] <= b
    <3>1. n + 1 \in Nat
      BY <1>1
    <3>2. l \in Seq(Nat) /\ CallsOf(lists[n + 1], c) \in Nat
      BY <2>0, <2>2, <3>1, ListAfterType
    <3> QED BY <2>0, <2>2, <3>2
  <2>4. /\ history' \in Seq(ProgramCalls) /\ Len(history') = n + 1 /\ history'[n + 1] = c
        /\ \A k \in 1..n : history'[k] = history[k]
    BY <1>1, <1>3
  <2>5. /\ lists2 \in Seq(Seq(Nat)) /\ Len(lists2) = n + 2 /\ lists2[n + 2] = l
        /\ \A k \in 1..(n + 1) : lists2[k] = lists[k]
    BY <1>1, <2>1, <2>3, <2>9
  <2>6. /\ base2 \in Seq(Nat) /\ Len(base2) = n + 2 /\ base2[n + 2] = b
        /\ \A k \in 1..(n + 1) : base2[k] = base[k]
    BY <1>1, <2>1, <2>3, <2>9
  <2>7. Consistent(lists2, base2)'
    <3>1. ASSUME NEW k \in 1..(n + 1)
          PROVE  /\ lists2[k + 1] = ListAfter(lists2[k], k, history'[k])
                 /\ base2[k + 1] = base2[k] + CallsOf(lists2[k], history'[k])
      <4>1. CASE k = n + 1
        <5>1. k + 1 = n + 2
          BY <1>1, <4>1
        <5>2. lists2[k] = lists[n + 1] /\ base2[k] = base[n + 1] /\ history'[k] = c
          BY <2>2, <2>4, <2>5, <2>6, <4>1
        <5> QED BY <2>0, <2>5, <2>6, <4>1, <5>1, <5>2
      <4>2. CASE k # n + 1
        <5>1. k \in 1..n /\ k + 1 \in 1..(n + 1)
          BY <1>1, <4>2
        <5> QED BY <2>1, <2>4, <2>5, <2>6, <5>1
      <4> QED BY <4>1, <4>2
    <3>2. ASSUME NEW i \in 1..(n + 2), NEW j \in 1..(n + 2), i <= j
          PROVE  base2[i] <= base2[j]
      <4>1. CASE j # n + 2
        <5>1. i \in 1..(n + 1) /\ j \in 1..(n + 1)
          BY <1>1, <3>2, <4>1
        <5> QED BY <2>1, <2>6, <3>2, <5>1
      <4>2. CASE j = n + 2 /\ i # n + 2
        <5>1. i \in 1..(n + 1) /\ i <= n + 1
          BY <1>1, <4>2
        <5>2. base[i] <= base[n + 1] /\ base[i] \in Nat
          <6>1. i \in DOMAIN base
            BY <2>1, <5>1
          <6> QED BY <2>1, <2>2, <5>1, <6>1
        <5>3. base2[i] = base[i] /\ base2[j] = b
          BY <2>6, <4>2, <5>1
        <5> QED BY <2>2, <2>3, <5>2, <5>3
      <4>3. CASE i = n + 2 /\ j = n + 2
        BY <2>3, <2>6, <4>3
      <4> QED BY <4>1, <4>2, <4>3
    <3>3. Len(history') + 1 = n + 2
      BY <1>1, <2>4
    <3> QED BY <2>4, <2>5, <2>6, <3>1, <3>2, <3>3 DEF Consistent
  <2>8. Extended(lists, base, lists2, base2)
    BY <1>3, <2>5, <2>6 DEF Extended
  <2>10. pos[p] + 1 \in 1..Len(history') /\ history'[pos[p] + 1] = c
    BY <1>1, <1>3, <2>4
  <2> QED BY <2>7, <2>8, <2>10
<1> QED BY <1>2, <1>3 DEF Collective

----------------------------------------------------------------------------
(* A process that takes no step is not disturbed *)

Undisturbed(q) ==
  /\ calls'[q] = calls[q] /\ pos'[q] = pos[q] /\ slotOf'[q] = slotOf[q]
  /\ m_memreg'[q] = m_memreg[q] /\ record'[q] = record[q] /\ m_added'[q] = m_added[q]
  /\ m_capacity'[q] = m_capacity[q] /\ verbs'[q] = verbs[q] /\ glob'[q] = glob[q]
  /\ at'[q] = at[q] /\ next'[q] = next[q] /\ id'[q] = id[q] /\ aborting'[q] = aborting[q]

LEMMA OthersUndisturbed ==
  ASSUME IInv, NEW p \in Procs, Program(p) \/ Sync(p), NEW q \in Procs, q # p
  PROVE  Undisturbed(q)
<1>1. /\ calls \in [Procs -> Seq(CallRecords)] /\ pos \in [Procs -> 0..MaxCalls]
      /\ DOMAIN slotOf = Procs /\ DOMAIN record = Procs /\ DOMAIN glob = Procs
      /\ m_memreg \in [Procs -> CombinedRegisters] /\ verbs \in [Procs -> CombinedRegisters]
      /\ m_added \in [Procs -> Seq(Nat)] /\ m_capacity \in [Procs -> Nat]
      /\ at \in [Procs -> Places] /\ next \in [Procs -> Nat]
      /\ id \in [Procs -> Nat \cup {NoSlot}] /\ aborting \in [Procs -> BOOLEAN]
  BY DEF IInv, TypeOK, CallsType, ProgramType, TableType, VerbsType, SyncType
<1> USE DEF programVars, tableVars, verbsVars, syncVars
<1>2. CASE addGlobal(p)
  BY <1>1, <1>2 DEF addGlobal, Undisturbed
<1>3. CASE addLocal(p)
  BY <1>1, <1>3 DEF addLocal, Undisturbed
<1>4. ASSUME NEW name, remove(p, name)
      PROVE  /\ UNCHANGED <<calls, record, m_capacity, glob, at, next, id, aborting>>
             /\ m_added'[q] = m_added[q] /\ verbs'[q] = verbs[q]
             /\ m_memreg'[q] = m_memreg[q] /\ slotOf'[q] = slotOf[q]
  BY <1>1, <1>4 DEF remove, RemoveBelow
<1>5. CASE removeGlobal(p) \/ removeLocal(p)
  <2>1. PICK name : remove(p, name)
    BY <1>5 DEF removeGlobal, removeLocal
  <2>2. pos'[q] = pos[q]
    BY <1>1, <1>5 DEF removeGlobal, removeLocal
  <2> QED BY <1>4, <2>1, <2>2 DEF Undisturbed
<1>6. CASE resizeMemreg(p)
  BY <1>1, <1>6 DEF resizeMemreg, reserve, ResizeAdded, Undisturbed
<1>7. CASE sync(p) \/ abort(p)
  <2>1. UNCHANGED <<slotOf, m_memreg, record, m_added, m_capacity, verbs, glob, id>>
    BY <1>7 DEF sync, abort, SyncStart
  <2>2. calls'[q] = calls[q] /\ next'[q] = next[q] /\ at'[q] = at[q] /\ pos'[q] = pos[q]
    BY <1>1, <1>7 DEF sync, abort, SyncStart, SyncEngine, regGlobal, Enter
  <2>3. aborting'[q] = aborting[q]
    BY <1>1, <1>7 DEF sync, abort, SyncStart
  <2> QED BY <2>1, <2>2, <2>3 DEF Undisturbed
<1>8. CASE Agreed(p) \/ Failing(p) \/ Voted(p)
  BY <1>1, <1>8 DEF Agreed, AddVerb, Failing, Voted, Enter, Undisturbed
<1>9. CASE Gathered(p)
  BY <1>1, <1>9 DEF Gathered, regGlobal, Enter, Undisturbed
<1>10. CASE Fenced(p)
  BY <1>1, <1>10 DEF Fenced, ClearAdded, SyncEngine, Enter, Undisturbed
<1> QED BY <1>2, <1>3, <1>5, <1>6, <1>7, <1>8, <1>9, <1>10 DEF Program, Sync

----------------------------------------------------------------------------
(* What follows for the agenda *)

\* Where p is, the agenda of before still holds.
LEMMA ExtendedHere ==
  ASSUME IInv, NEW p \in Procs,
         NEW lists, NEW base, NEW lists2, NEW base2, Extended(lists, base, lists2, base2)
  PROVE  /\ lists2[pos[p] + 1] = lists[pos[p] + 1] /\ base2[pos[p] + 1] = base[pos[p] + 1]
         /\ pos[p] + 1 \in 1..(Len(history) + 1) /\ pos[p] \in Nat
<1>1. pos[p] \in Nat /\ Len(history) \in Nat /\ pos[p] <= Len(history)
  BY DEF IInv, TypeOK, ProgramType, InStep
<1>2. pos[p] + 1 \in 1..(Len(history) + 1)
  BY <1>1
<1> QED BY <1>1, <1>2 DEF Extended

LEMMA MadeKept ==
  ASSUME IInv, NEW p \in Procs, NEW lists, NEW base, NEW lists2, NEW base2,
         Extended(lists, base, lists2, base2),
         Made(p, lists, base),
         Len(history') \in Nat, Len(history) <= Len(history'),
         NEW j \in 1..LastCall(p), calls'[p][j] = calls[p][j]
  PROVE  \E k \in 1..(Len(history') + 1) :
           Falls(j, k, base2)' /\ IsCall(calls'[p][j], lists2[k], j - base2[k])
<1>1. PICK k \in 1..(Len(history) + 1) :
        Falls(j, k, base) /\ IsCall(calls[p][j], lists[k], j - base[k])
  BY DEF Made
<1>2. Len(history) \in Nat
  BY DEF IInv, TypeOK, ProgramType
<1>3. lists2[k] = lists[k] /\ base2[k] = base[k]
  BY DEF Extended
<1>4. k \in 1..(Len(history') + 1)
  BY <1>2
<1>5. Falls(j, k, base2)'
  <2>1. base[k] < j
    BY <1>1 DEF Falls
  <2>2. CASE k <= Len(history)
    <3>1. k + 1 \in 1..(Len(history) + 1) /\ k <= Len(history') /\ k # Len(history') + 1
      BY <1>2, <2>2
    <3>2. base2[k + 1] = base[k + 1]
      BY <3>1 DEF Extended
    <3>3. j <= base[k + 1]
      BY <1>1, <2>2 DEF Falls
    <3> QED BY <1>3, <1>4, <2>1, <3>1, <3>2, <3>3 DEF Falls
  <2>3. CASE k = Len(history) + 1
    <3>1. Len(history) = MaxCalls /\ history' = history
      BY <1>1, <1>2, <2>3 DEF Falls, Extended
    <3>2. ~ k <= Len(history)
      BY <1>2, <2>3
    <3> QED BY <1>3, <1>4, <2>1, <2>3, <3>1, <3>2 DEF Falls
  <2> QED BY <1>2, <2>2, <2>3
<1> QED BY <1>1, <1>3, <1>4, <1>5

\* A process that makes no collective call.
LEMMA MadeStays ==
  ASSUME IInv, NEW p \in Procs, NEW lists, NEW base, NEW lists2, NEW base2,
         Extended(lists, base, lists2, base2), Made(p, lists, base),
         Len(history') \in Nat, Len(history) <= Len(history'), calls'[p] = calls[p]
  PROVE  Made(p, lists2, base2)'
<1>1. ASSUME NEW j \in 1..LastCall(p)
      PROVE  \E k \in 1..(Len(history') + 1) :
               Falls(j, k, base2)' /\ IsCall(calls'[p][j], lists2[k], j - base2[k])
  BY MadeKept
<1>2. LastCall(p)' = LastCall(p)
  BY DEF LastCall
<1> QED BY <1>1, <1>2 DEF Made

LEMMA OthersAgenda ==
  ASSUME IInv, NEW q \in Procs, NEW lists, NEW base, NEW lists2, NEW base2,
         Consistent(lists2, base2)', Extended(lists, base, lists2, base2),
         Len(history') \in Nat, Len(history) <= Len(history'),
         \A k \in 1..Len(history) : history'[k] = history[k],
         Undisturbed(q), Listed(q, lists), Located(q, lists, base), Made(q, lists, base)
  PROVE  /\ Listed(q, lists2)' /\ Located(q, lists2, base2)' /\ Made(q, lists2, base2)'
<1>1. lists2[pos[q] + 1] = lists[pos[q] + 1] /\ base2[pos[q] + 1] = base[pos[q] + 1]
  BY ExtendedHere
<1>2. List(q, lists2)' = List(q, lists)
  BY <1>1 DEF List, Undisturbed
<1>3. Progress(q, base2)' = Progress(q, base)
  BY <1>1 DEF Progress, LastCall, Undisturbed
<1>4. Listed(q, lists2)'
  BY <1>2 DEF Listed, Undisturbed
<1>5. at[q] = "vote" /\ ~ aborting[q] => history'[pos[q] + 1] = history[pos[q] + 1]
  <2>1. pos[q] \in Nat /\ Len(history) \in Nat
    BY DEF IInv, TypeOK, ProgramType
  <2>2. at[q] = "vote" /\ ~ aborting[q] => pos[q] < Len(history)
    BY DEF IInv, InStep
  <2> QED BY <2>1, <2>2
<1>6. Located(q, lists2, base2)'
  BY <1>2, <1>3, <1>5 DEF Located, Undisturbed
<1>7. Made(q, lists2, base2)'
  BY MadeStays DEF Undisturbed
<1> QED BY <1>4, <1>6, <1>7

\* What is to be shown of the process that takes the step.
LEMMA AgendaOf ==
  ASSUME IInv, NEW p \in Procs, Program(p) \/ Sync(p),
         NEW lists, NEW base, NEW lists2, NEW base2, Agenda(lists, base),
         Consistent(lists2, base2)', Extended(lists, base, lists2, base2), Grows,
         Listed(p, lists2)', Located(p, lists2, base2)', Made(p, lists2, base2)'
  PROVE  Agenda(lists2, base2)'
<1>1. ASSUME NEW q \in Procs, q # p
      PROVE  Listed(q, lists2)' /\ Located(q, lists2, base2)' /\ Made(q, lists2, base2)'
  <2>1. Undisturbed(q)
    BY <1>1, OthersUndisturbed
  <2> QED BY <2>1, OthersAgenda DEF Agenda, Grows
<1> QED BY <1>1 DEF Agenda

LEMMA Shift ==
  ASSUME NEW a \in Int, NEW b \in Int, NEW n \in Int, a + 1 = b + n
  PROVE  (a + 1) - b = n
OBVIOUS

\* A process enters the n-th collective of the sync it is in.
LEMMA MadeNext ==
  ASSUME IInv, NEW p \in Procs, NEW lists, NEW base, NEW lists2, NEW base2,
         Consistent(lists2, base2)', Extended(lists, base, lists2, base2), Grows,
         Made(p, lists, base), Located(p, lists, base),
         NEW c \in CallRecords, Enter(p, c),
         NEW n \in Int, LastCall(p) + 1 = base[pos[p] + 1] + n,
         IsCall(c, lists[pos[p] + 1], n),
         \/ /\ pos[p] + 1 \in 1..Len(history') /\ history'[pos[p] + 1].do = "sync"
            /\ history'[pos[p] + 1].vote \in BOOLEAN
            /\ c.op = "vote" => history'[pos[p] + 1].vote
         \/ pos[p] = MaxCalls /\ Len(history') = MaxCalls
  PROVE  Made(p, lists2, base2)' /\ LastCall(p)' = LastCall(p) + 1
<1>0. PICK k, x : k = pos[p] + 1 /\ x = LastCall(p)
  OBVIOUS
<1>1. /\ calls \in [Procs -> Seq(CallRecords)] /\ x \in Nat
      /\ calls'[p] = Append(calls[p], c)
  BY <1>0 DEF IInv, TypeOK, CallsType, LastCall, Enter
<1>2. /\ LastCall(p)' = x + 1 /\ calls'[p][x + 1] = c
      /\ \A j \in 1..x : calls'[p][j] = calls[p][j]
  BY <1>0, <1>1 DEF LastCall
<1>3. /\ lists2[k] = lists[k] /\ base2[k] = base[k] /\ k \in 1..(Len(history) + 1)
      /\ pos[p] \in Nat /\ x + 1 = base[k] + n /\ IsCall(c, lists[k], n)
      /\ \/ /\ k \in 1..Len(history') /\ history'[k].do = "sync"
            /\ history'[k].vote \in BOOLEAN
            /\ c.op = "vote" => history'[k].vote
         \/ k = MaxCalls + 1 /\ Len(history') = MaxCalls
  BY <1>0, ExtendedHere
<1>4. /\ lists2 \in Seq(Seq(Nat)) /\ Len(lists2) = Len(history') + 1
      /\ base2 \in Seq(Nat) /\ Len(base2) = Len(history') + 1
      /\ Len(history) \in Nat /\ Len(history') \in Nat /\ Len(history) <= Len(history')
  BY DEF Consistent, Grows
<1>5. k \in 1..(Len(history') + 1)
  BY <1>3, <1>4
<1>6. lists2[k] \in Seq(Nat) /\ base2[k] \in Nat
  BY <1>4, <1>5, ElementOfSeq
<1>7. Falls(x + 1, k, base2)'
  <2>1. x + 1 = base2[k] + n
    BY <1>3
  <2>2. 1 <= n
    <3>1. c.op = "vote" => TRUE
      OBVIOUS
    <3> QED BY <1>3, <1>6, <3>1, CallInTime
  <2>3. base2[k] < x + 1
    BY <1>1, <1>6, <2>1, <2>2
  <2>4. CASE /\ k \in 1..Len(history') /\ history'[k].do = "sync"
             /\ history'[k].vote \in BOOLEAN
             /\ c.op = "vote" => history'[k].vote
    <3>1. base2[k + 1] = base2[k] + CallsOf(lists2[k], history'[k])
      BY <2>4 DEF Consistent
    <3>2. CallsOf(lists2[k], history'[k]) = SyncCalls(lists2[k], history'[k].vote)
      BY <2>4 DEF CallsOf
    <3>3. n <= SyncCalls(lists2[k], history'[k].vote)
      BY <1>3, <1>6, <2>4, CallInTime
    <3>4. SyncCalls(lists2[k], history'[k].vote) \in Nat
      BY <1>6, <2>4, SyncCallsType
    <3>5. x + 1 <= base2[k + 1]
      BY <1>6, <2>1, <3>1, <3>2, <3>3, <3>4
    <3>6. k # Len(history') + 1
      BY <1>4, <2>4
    <3> QED BY <1>5, <2>3, <3>5, <3>6 DEF Falls
  <2>5. CASE k = MaxCalls + 1 /\ Len(history') = MaxCalls
    <3>1. ~ k <= Len(history')
      BY <1>4, <2>5
    <3> QED BY <1>5, <2>3, <2>5, <3>1 DEF Falls
  <2> QED BY <1>3, <2>4, <2>5
<1>8. (x + 1) - base2[k] = n /\ IsCall(c, lists2[k], n)
  <2>0. x + 1 = base2[k] + n
    BY <1>3
  <2>1. x \in Int /\ base2[k] \in Int
    BY <1>1, <1>6
  <2>2. (x + 1) - base2[k] = n
    BY <2>0, <2>1, Shift, Zenon
  <2> QED BY <1>3, <2>2
<1>9. ASSUME NEW j \in 1..(x + 1)
      PROVE  \E i \in 1..(Len(history') + 1) :
               Falls(j, i, base2)' /\ IsCall(calls'[p][j], lists2[i], j - base2[i])
  <2>1. CASE j = x + 1
    <3>1. calls'[p][j] = c
      BY <1>2, <2>1
    <3>2. Falls(j, k, base2)'
      BY <1>7, <2>1 DEF Falls
    <3>3. IsCall(calls'[p][j], lists2[k], j - base2[k])
      <4>1. j - base2[k] = n
        BY <1>8, <2>1, Zenon
      <4> QED BY <1>8, <3>1, <4>1
    <3> QED BY <1>5, <3>2, <3>3
  <2>2. CASE j # x + 1
    <3>1. j \in 1..x
      BY <1>1, <2>2
    <3> QED BY <1>0, <1>2, <1>4, <3>1, MadeKept
  <2> QED BY <2>1, <2>2
<1> QED BY <1>0, <1>2, <1>9 DEF Made

----------------------------------------------------------------------------
(* The calls of the program that take no collective *)

LEMMA ListType ==
  ASSUME IInv, NEW p \in Procs, NEW lists, NEW base, Consistent(lists, base)
  PROVE  /\ List(p, lists) \in Seq(Nat) /\ base[pos[p] + 1] \in Nat /\ pos[p] \in Nat
         /\ m_added[p] \in Seq(Nat) /\ LastCall(p) \in Nat
<1>1. pos[p] \in Nat /\ Len(history) \in Nat /\ pos[p] <= Len(history)
  BY DEF IInv, TypeOK, ProgramType, InStep
<1>2. /\ lists \in Seq(Seq(Nat)) /\ Len(lists) = Len(history) + 1
      /\ base \in Seq(Nat) /\ Len(base) = Len(history) + 1
  BY DEF Consistent
<1>3. pos[p] + 1 \in 1..Len(lists) /\ pos[p] + 1 \in 1..Len(base)
  BY <1>1, <1>2
<1>4. lists[pos[p] + 1] \in Seq(Nat) /\ base[pos[p] + 1] \in Nat
  BY <1>2, <1>3, ElementOfSeq
<1>5. m_added[p] \in Seq(Nat) /\ LastCall(p) \in Nat
  BY DEF IInv, TypeOK, TableType, CallsType, LastCall
<1> QED BY <1>1, <1>4, <1>5 DEF List

LEMMA NamesDiffer ==
  ASSUME IInv, NEW p \in Procs, NEW n \in DOMAIN slotOf[p], NEW m \in DOMAIN slotOf[p],
         slotOf[p][n] = slotOf[p][m]
  PROVE  n = m
BY DEF IInv, TableKept

LEMMA HistoryGrows ==
  ASSUME IInv, NEW p \in Procs, Program(p) \/ Sync(p)
  PROVE  Grows
<1>1. /\ history \in Seq(ProgramCalls) /\ trace \in Seq([free : Seq(Nat), min : Nat])
      /\ Len(trace) = Len(history) + 1 /\ Len(history) \in Nat
  BY DEF IInv, TypeOK, ProgramType, TraceKept
<1>2. CASE UNCHANGED <<history, trace>>
  BY <1>2, UnchangedGrows DEF IInv
<1>3. CASE \E c, d : history' = Append(history, c) /\ trace' = Append(trace, d)
  <2>1. PICK c, d : history' = Append(history, c) /\ trace' = Append(trace, d)
    BY <1>3
  <2>2. Len(history') = Len(history) + 1 /\ \A k \in 1..Len(history) : history'[k] = history[k]
    BY <1>1, <2>1
  <2>3. \A k \in 1..Len(trace) : trace'[k] = trace[k]
    BY <1>1, <2>1
  <2> QED BY <1>1, <2>2, <2>3 DEF Grows
<1>4. ASSUME NEW c, Collective(p, c)
      PROVE  \/ UNCHANGED <<history, trace>>
             \/ \E x, d : history' = Append(history, x) /\ trace' = Append(trace, d)
  BY <1>4 DEF Collective
<1>5. \/ UNCHANGED <<history, trace>>
      \/ \E c : Collective(p, c)
  BY DEF Program, Sync, addGlobal, removeGlobal, addLocal, removeLocal, resizeMemreg, sync,
     abort, Agreed, Failing, Gathered, Fenced, Voted, programVars
<1> QED BY <1>2, <1>3, <1>4, <1>5

\* A step that leaves p where it is, and its global registrations alone.
LEMMA StaysInPlace ==
  ASSUME IInv, NEW p \in Procs, Program(p) \/ Sync(p),
         NEW lists, NEW base, Agenda(lists, base),
         UNCHANGED <<history, calls, pos, next, aborting>>,
         at'[p] = at[p] \/ at'[p] = "threw",
         m_added' = m_added, at[p] \notin {"vote", "left"},
         \A n \in DOMAIN slotOf[p] :
           n >= 0 => n \in DOMAIN slotOf'[p] /\ slotOf'[p][n] = slotOf[p][n]
  PROVE  Agenda(lists, base)'
<1>1. Consistent(lists, base)' /\ Extended(lists, base, lists, base) /\ Consistent(lists, base)
  BY SameAgenda DEF Agenda
<1>2. /\ Listed(p, lists) /\ Located(p, lists, base) /\ Made(p, lists, base) /\ Grows
      /\ List(p, lists) \in Seq(Nat)
  BY <1>1, HistoryGrows, ListType DEF Agenda
<1>3. List(p, lists)' = List(p, lists) /\ Progress(p, base)' = Progress(p, base)
  BY DEF List, Progress, LastCall
<1>4. Listed(p, lists)'
  <2>1. \A i \in 1..Len(List(p, lists)) : List(p, lists)[i] >= 0
    BY <1>2
  <2>2. /\ Len(m_added[p]) = Len(List(p, lists))
        /\ \A i \in 1..Len(List(p, lists)) :
             /\ List(p, lists)[i] \in DOMAIN slotOf'[p]
             /\ m_added[p][i] = slotOf'[p][List(p, lists)[i]]
    BY <1>2, <2>1 DEF Listed
  <2> QED BY <1>3, <2>2 DEF Listed
<1>5. Located(p, lists, base)'
  BY <1>2, <1>3 DEF Located
<1>6. Made(p, lists, base)'
  BY <1>1, <1>2, MadeStays DEF Grows
<1> QED BY <1>1, <1>2, <1>4, <1>5, <1>6, AgendaOf

LEMMA LocalAgenda ==
  ASSUME IInv, NEW p \in Procs, addLocal(p) \/ removeLocal(p) \/ resizeMemreg(p) \/ Failing(p),
         NEW lists, NEW base, Agenda(lists, base)
  PROVE  Agenda(lists, base)'
<1>1. Program(p) \/ Sync(p)
  BY DEF Program, Sync
<1>2. /\ DOMAIN slotOf = Procs /\ at \in [Procs -> Places] /\ locals[p] \in Nat
      /\ m_added[p] \in Seq(Nat)
  BY DEF IInv, TypeOK, ProgramType, SyncType, TableType
<1>3. CASE addLocal(p)
  <2>1. PICK n, s : /\ n = 0 - locals[p] - 1
                    /\ slotOf' = [slotOf EXCEPT ![p] = Bind(@, n, s)]
    BY <1>3 DEF addLocal
  <2>2. slotOf'[p] = Bind(slotOf[p], n, s) /\ ~ n >= 0
    BY <1>2, <2>1
  <2>3. \A m \in DOMAIN slotOf[p] : m # n => m \in DOMAIN slotOf'[p] /\ slotOf'[p][m] = slotOf[p][m]
    BY <2>2 DEF Bind
  <2>4. \A m \in DOMAIN slotOf[p] :
           m >= 0 => m \in DOMAIN slotOf'[p] /\ slotOf'[p][m] = slotOf[p][m]
    BY <2>2, <2>3
  <2>5. /\ UNCHANGED <<history, calls, pos, next, aborting, at, m_added>> /\ at[p] = "user"
    BY <1>3 DEF addLocal, syncVars
  <2> QED BY <1>1, <2>4, <2>5, StaysInPlace
<1>4. CASE removeLocal(p)
  <2>1. PICK n \in DOMAIN slotOf[p] :
          /\ n < 0 /\ remove(p, n) /\ at[p] = "user" /\ UNCHANGED <<history, trace, pos>>
    BY <1>4 DEF removeLocal
  <2>2. /\ slotOf' = [slotOf EXCEPT ![p] = Unbind(@, n)]
        /\ UNCHANGED <<calls, at, next, aborting>>
        /\ RemoveBelow(p, slotOf[p][n])
    BY <2>1 DEF remove, syncVars
  <2>3. slotOf'[p] = Unbind(slotOf[p], n)
    BY <1>2, <2>2
  <2>4. \A m \in DOMAIN slotOf[p] : m # n => m \in DOMAIN slotOf'[p] /\ slotOf'[p][m] = slotOf[p][m]
    BY <2>3 DEF Unbind, Restrict
  <2>5. \A m \in DOMAIN slotOf[p] :
           m >= 0 => m \in DOMAIN slotOf'[p] /\ slotOf'[p][m] = slotOf[p][m]
    <3>1. n \in Int
      BY DEF IInv, TypeOK, ProgramType
    <3>2. ~ n >= 0
      BY <2>1, <3>1
    <3> QED BY <2>4, <3>2
  <2>6. slotOf[p][n] \notin Range(m_added[p])
    <3> SUFFICES ASSUME NEW i \in DOMAIN m_added[p], m_added[p][i] = slotOf[p][n]
                 PROVE  FALSE
      BY DEF Range
    <3>1. List(p, lists) \in Seq(Nat) /\ Listed(p, lists)
      BY ListType DEF Agenda
    <3>2. i \in 1..Len(List(p, lists))
      BY <1>2, <2>1, <3>1 DEF Listed
    <3>3. /\ List(p, lists)[i] \in DOMAIN slotOf[p]
          /\ m_added[p][i] = slotOf[p][List(p, lists)[i]]
      BY <2>1, <3>1, <3>2 DEF Listed
    <3>4. List(p, lists)[i] = n
      BY <3>3, NamesDiffer
    <3>5. List(p, lists)[i] \in Nat
      BY <3>1, <3>2, ElementOfSeq
    <3> QED BY <2>1, <3>4, <3>5
  <2>7. m_added' = m_added
    BY <2>2, <2>6 DEF RemoveBelow
  <2> QED BY <1>1, <2>1, <2>2, <2>5, <2>7, StaysInPlace
<1>5. CASE resizeMemreg(p)
  <2>1. /\ UNCHANGED <<history, calls, pos, next, aborting, at, m_added, slotOf>>
        /\ at[p] = "user"
    BY <1>5 DEF resizeMemreg, reserve, ResizeAdded, programVars, syncVars
  <2> QED BY <1>1, <2>1, StaysInPlace
<1>6. CASE Failing(p)
  <2>1. /\ UNCHANGED <<history, calls, pos, next, aborting, m_added, slotOf>>
        /\ at[p] = "failing" /\ at'[p] = "threw"
    BY <1>2, <1>6 DEF Failing, programVars, tableVars
  <2> QED BY <1>1, <2>1, StaysInPlace
<1> QED BY <1>3, <1>4, <1>5, <1>6

----------------------------------------------------------------------------
(* The collective calls of the program that take no collective of MPI *)

\* The agenda has a place after the call that p completes.
LEMMA NextPlace ==
  ASSUME IInv, NEW p \in Procs, NEW lists, NEW base, NEW lists2, NEW base2,
         Consistent(lists2, base2)', Extended(lists, base, lists2, base2), Grows,
         pos[p] + 1 \in 1..Len(history'), pos'[p] = pos[p] + 1
  PROVE  LET c == history'[pos[p] + 1] IN
         /\ List(p, lists2)' = ListAfter(List(p, lists), pos[p] + 1, c)
         /\ base2[pos'[p] + 1] = base[pos[p] + 1] + CallsOf(List(p, lists), c)
<1>0. PICK k : k = pos[p] + 1
  OBVIOUS
<1>1. lists2[k] = lists[k] /\ base2[k] = base[k] /\ k \in 1..Len(history')
  BY <1>0, ExtendedHere
<1>2. /\ lists2[k + 1] = ListAfter(lists2[k], k, history'[k])
      /\ base2[k + 1] = base2[k] + CallsOf(lists2[k], history'[k])
  BY <1>1 DEF Consistent
<1>3. List(p, lists2)' = lists2[k + 1] /\ pos'[p] + 1 = k + 1
  BY <1>0 DEF List
<1> QED BY <1>0, <1>1, <1>2, <1>3 DEF List

LEMMA AddGlobalAgenda ==
  ASSUME IInv, NEW p \in Procs, addGlobal(p), NEW lists, NEW base, Agenda(lists, base)
  PROVE  \E lists2, base2 : Agenda(lists2, base2)'
<1>0. PICK slot, c : slot = toGlobal(NewSlot(m_memreg[p].global)) /\ c = [do |-> "register"]
  OBVIOUS
<1>1. /\ Collective(p, c) /\ at[p] = "user"
      /\ m_added'  = [m_added EXCEPT ![p] = Append(@, slot)]
      /\ slotOf'   = [slotOf EXCEPT ![p] = Bind(@, pos[p] + 1, slot)]
      /\ pos'      = [pos EXCEPT ![p] = pos[p] + 1]
      /\ UNCHANGED <<calls, at, next, aborting>>
  BY <1>0 DEF addGlobal, Collective, syncVars
<1>2. c \in ProgramCalls /\ c.do = "register" /\ Program(p)
  BY <1>0 DEF ProgramCalls, Program
<1>3. /\ m_added \in [Procs -> Seq(Nat)] /\ pos \in [Procs -> 0..MaxCalls]
      /\ DOMAIN slotOf = Procs
  BY DEF IInv, TypeOK, ProgramType, TableType
<1>4. /\ Consistent(lists, base) /\ Listed(p, lists) /\ Located(p, lists, base)
      /\ Made(p, lists, base) /\ Grows
      /\ List(p, lists) \in Seq(Nat) /\ base[pos[p] + 1] \in Nat /\ LastCall(p) \in Nat
      /\ pos[p] \in Nat
  BY <1>2, HistoryGrows, ListType DEF Agenda
<1>5. PICK lists2, base2 :
        /\ Consistent(lists2, base2)' /\ Extended(lists, base, lists2, base2)
        /\ pos[p] + 1 \in 1..Len(history') /\ history'[pos[p] + 1] = c
  BY <1>1, <1>2, <1>4, NewCall
<1>6. /\ pos'[p] = pos[p] + 1 /\ m_added'[p] = Append(m_added[p], slot)
      /\ slotOf'[p] = Bind(slotOf[p], pos[p] + 1, slot)
  BY <1>1, <1>3
<1>7. /\ List(p, lists2)' = Append(List(p, lists), pos[p] + 1)
      /\ base2[pos'[p] + 1] = base[pos[p] + 1] + 0
  BY <1>2, <1>4, <1>5, <1>6, NextPlace DEF ListAfter, CallsOf
<1>8. Listed(p, lists2)'
  <2>1. PICK list : list = List(p, lists)
    OBVIOUS
  <2>2. /\ list \in Seq(Nat) /\ Len(m_added[p]) = Len(list) /\ m_added[p] \in Seq(Nat)
        /\ \A i \in 1..Len(list) : /\ list[i] \in DOMAIN slotOf[p]
                                  /\ m_added[p][i] = slotOf[p][list[i]]
    BY <1>1, <1>3, <1>4, <2>1 DEF Listed
  <2>3. pos[p] + 1 \notin DOMAIN slotOf[p]
    BY <1>4 DEF IInv, NamesKept
  <2>4. /\ Len(m_added'[p]) = Len(list) + 1 /\ Len(Append(list, pos[p] + 1)) = Len(list) + 1
        /\ \A i \in 1..Len(list) : /\ m_added'[p][i] = m_added[p][i]
                                  /\ Append(list, pos[p] + 1)[i] = list[i]
        /\ m_added'[p][Len(list) + 1] = slot
        /\ Append(list, pos[p] + 1)[Len(list) + 1] = pos[p] + 1
    BY <1>4, <1>6, <2>2
  <2>5. /\ \A m \in DOMAIN slotOf[p] : m \in DOMAIN slotOf'[p] /\ slotOf'[p][m] = slotOf[p][m]
        /\ pos[p] + 1 \in DOMAIN slotOf'[p] /\ slotOf'[p][pos[p] + 1] = slot
    BY <1>6, <2>3 DEF Bind
  <2>6. ASSUME NEW i \in 1..(Len(list) + 1)
        PROVE  /\ Append(list, pos[p] + 1)[i] \in DOMAIN slotOf'[p]
               /\ m_added'[p][i] = slotOf'[p][Append(list, pos[p] + 1)[i]]
    <3>1. Len(list) \in Nat
      BY <2>2
    <3>2. i \in 1..Len(list) \/ i = Len(list) + 1
      BY <3>1
    <3> QED BY <2>2, <2>4, <2>5, <3>2
  <2> QED BY <1>7, <2>1, <2>4, <2>6 DEF Listed
<1>9. Located(p, lists2, base2)'
  <2>1. base2[pos'[p] + 1] = base[pos[p] + 1]
    BY <1>4, <1>7
  <2>2. Progress(p, base2)' = Progress(p, base)
    BY <1>1, <2>1 DEF Progress, LastCall
  <2>3. at'[p] = "user" /\ Progress(p, base) = 0
    BY <1>1, <1>4 DEF Located
  <2> QED BY <2>2, <2>3 DEF Located
<1>10. Made(p, lists2, base2)'
  BY <1>1, <1>4, <1>5, MadeStays DEF Grows
<1> QED BY <1>2, <1>4, <1>5, <1>8, <1>9, <1>10, AgendaOf

\* Erasing a registration takes the same place from the list of slots and from
\* that of the names.
LEMMA RemoveGlobalAgenda ==
  ASSUME IInv, NEW p \in Procs, removeGlobal(p), NEW lists, NEW base, Agenda(lists, base)
  PROVE  \E lists2, base2 : Agenda(lists2, base2)'
<1>0. PICK name \in DOMAIN slotOf[p] :
        /\ name > 0 /\ remove(p, name)
        /\ Collective(p, [do |-> "deregister", name |-> name])
        /\ pos' = [pos EXCEPT ![p] = @ + 1]
  BY DEF removeGlobal
<1>00. PICK slot, c : slot = slotOf[p][name] /\ c = [do |-> "deregister", name |-> name]
  OBVIOUS
<1>1. /\ Collective(p, c) /\ at[p] = "user" /\ RemoveBelow(p, slot)
      /\ slotOf'   = [slotOf EXCEPT ![p] = Unbind(@, name)]
      /\ UNCHANGED <<calls, at, next, aborting>>
  BY <1>0, <1>00 DEF remove, Collective, syncVars
<1>2. c \in ProgramCalls /\ c.do = "deregister" /\ c.name = name /\ Program(p)
  <2>1. name \in Int
    BY DEF IInv, TypeOK, ProgramType
  <2>2. name \in Nat
    BY <1>0, <2>1
  <2> QED BY <1>00, <2>2 DEF ProgramCalls, Program
<1>3. /\ m_added \in [Procs -> Seq(Nat)] /\ pos \in [Procs -> 0..MaxCalls]
      /\ DOMAIN slotOf = Procs /\ AddedKept(p)
  BY DEF IInv, TypeOK, ProgramType, TableType
<1>4. /\ Consistent(lists, base) /\ Listed(p, lists) /\ Located(p, lists, base)
      /\ Made(p, lists, base) /\ Grows
      /\ List(p, lists) \in Seq(Nat) /\ base[pos[p] + 1] \in Nat /\ LastCall(p) \in Nat
      /\ pos[p] \in Nat
  BY <1>2, HistoryGrows, ListType DEF Agenda
<1>5. PICK lists2, base2 :
        /\ Consistent(lists2, base2)' /\ Extended(lists, base, lists2, base2)
        /\ pos[p] + 1 \in 1..Len(history') /\ history'[pos[p] + 1] = c
  BY <1>1, <1>2, <1>4, NewCall
<1>6. pos'[p] = pos[p] + 1 /\ slotOf'[p] = Unbind(slotOf[p], name)
  BY <1>0, <1>1, <1>3
<1>7. /\ List(p, lists2)' = ListAfter(List(p, lists), pos[p] + 1, c)
      /\ base2[pos'[p] + 1] = base[pos[p] + 1] + 0
  BY <1>2, <1>4, <1>5, <1>6, NextPlace DEF CallsOf
<1>8. Listed(p, lists2)'
  <2>1. PICK list, added : list = List(p, lists) /\ added = m_added[p]
    OBVIOUS
  <2>2. /\ list \in Seq(Nat) /\ added \in Seq(Nat) /\ Len(added) = Len(list)
        /\ \A i \in 1..Len(list) : /\ list[i] \in DOMAIN slotOf[p]
                                  /\ added[i] = slotOf[p][list[i]]
        /\ \A i, j \in DOMAIN added : added[i] = added[j] => i = j
    BY <1>1, <1>3, <1>4, <2>1 DEF Listed, AddedKept
  <2>3. DOMAIN list = 1..Len(list) /\ DOMAIN added = 1..Len(list) /\ Len(list) \in Nat
    BY <2>2
  <2>4. \A i \in 1..Len(list) : added[i] = slot <=> list[i] = name
    BY <1>00, <2>2, NamesDiffer
  <2>5. \A m \in DOMAIN slotOf[p] :
          m # name => m \in DOMAIN slotOf'[p] /\ slotOf'[p][m] = slotOf[p][m]
    BY <1>6 DEF Unbind, Restrict
  <2>6. CASE slot \in Range(added)
    <3>1. PICK i \in 1..Len(list) : added[i] = slot
      BY <2>3, <2>6 DEF Range
    <3>2. /\ list[i] = name
          /\ \A j \in 1..Len(list) : list[j] = name => j = i
          /\ \A j \in 1..Len(list) : added[j] = slot => j = i
      BY <2>2, <2>3, <2>4, <3>1
    <3>3. name \in Range(list)
      BY <2>3, <3>2 DEF Range
    <3>4. m_added'[p] = Erase(added, slot)
      BY <1>1, <1>3, <2>1, <2>6 DEF RemoveBelow
    <3>5. List(p, lists2)' = Erase(list, name)
      BY <1>2, <1>7, <2>1, <3>3 DEF ListAfter
    <3>6. /\ Len(Erase(added, slot)) = Len(added) - 1
          /\ \A j \in 1..(Len(added) - 1) :
               Erase(added, slot)[j] = added[Moved(i, Len(added), j)]
      <4>1. /\ added \in Seq(Nat) /\ i \in DOMAIN added /\ added[i] = slot
            /\ \A j \in DOMAIN added : added[j] = slot => j = i
        BY <2>2, <2>3, <3>1, <3>2
      <4> QED BY <4>1, EraseEffect, SMTT(20)
    <3>7. /\ Len(Erase(list, name)) = Len(list) - 1
          /\ \A j \in 1..(Len(list) - 1) : Erase(list, name)[j] = list[Moved(i, Len(list), j)]
      <4>1. /\ list \in Seq(Nat) /\ i \in DOMAIN list /\ list[i] = name
            /\ \A j \in DOMAIN list : list[j] = name => j = i
        BY <2>2, <2>3, <3>2
      <4> QED BY <4>1, EraseEffect, SMTT(20)
    <3>8. ASSUME NEW j \in 1..(Len(list) - 1)
          PROVE  /\ Erase(list, name)[j] \in DOMAIN slotOf'[p]
                 /\ Erase(added, slot)[j] = slotOf'[p][Erase(list, name)[j]]
      <4>1. PICK k \in 1..Len(list) : k = Moved(i, Len(list), j) /\ k # i
        BY <2>3, MovedElsewhere
      <4>2. Erase(list, name)[j] = list[k] /\ Erase(added, slot)[j] = added[k]
        BY <2>2, <3>6, <3>7, <4>1
      <4>4. list[k] # name
        BY <3>2, <4>1
      <4> QED BY <2>2, <2>5, <4>2, <4>4
    <3> QED BY <2>2, <3>4, <3>5, <3>6, <3>7, <3>8 DEF Listed
  <2>7. CASE slot \notin Range(added)
    <3>1. \A i \in 1..Len(list) : added[i] # slot
      BY <2>3, <2>7 DEF Range
    <3>2. \A i \in 1..Len(list) : list[i] # name
      BY <2>4, <3>1
    <3>3. name \notin Range(list)
      BY <2>3, <3>2 DEF Range
    <3>4. m_added'[p] = added
      BY <1>1, <2>1, <2>7 DEF RemoveBelow
    <3>5. List(p, lists2)' = list
      BY <1>2, <1>7, <2>1, <3>3 DEF ListAfter
    <3>6. \A i \in 1..Len(list) : /\ list[i] \in DOMAIN slotOf'[p]
                                 /\ added[i] = slotOf'[p][list[i]]
      BY <2>2, <2>5, <3>2
    <3> QED BY <2>2, <3>4, <3>5, <3>6 DEF Listed
  <2> QED BY <2>6, <2>7
<1>9. Located(p, lists2, base2)'
  <2>1. base2[pos'[p] + 1] = base[pos[p] + 1]
    BY <1>4, <1>7
  <2>2. Progress(p, base2)' = Progress(p, base)
    BY <1>1, <2>1 DEF Progress, LastCall
  <2>3. at'[p] = "user" /\ Progress(p, base) = 0
    BY <1>1, <1>4 DEF Located
  <2> QED BY <2>2, <2>3 DEF Located
<1>10. Made(p, lists2, base2)'
  BY <1>1, <1>4, <1>5, MadeStays DEF Grows
<1> QED BY <1>2, <1>4, <1>5, <1>8, <1>9, <1>10, AgendaOf

----------------------------------------------------------------------------
(* Entering a sync *)

\* What sync the process p is in: that of its program, or the last one.
Syncs(p) ==
  \/ /\ ~ aborting'[p] /\ pos[p] + 1 \in 1..Len(history')
     /\ history'[pos[p] + 1].do = "sync" /\ history'[pos[p] + 1].vote \in BOOLEAN
  \/ aborting'[p] /\ pos[p] = MaxCalls /\ Len(history') = MaxCalls

LEMMA Before ==
  ASSUME NEW a \in Int, NEW b \in Int, NEW n \in Int, a - b = n - 1
  PROVE  a + 1 = b + n
OBVIOUS

LEMMA Sum ==
  ASSUME NEW a \in Int, NEW b \in Int, NEW n \in Int, a - b = n
  PROVE  a = b + n
OBVIOUS

\* The agreement on the i-th registration.
LEMMA AgreementEntered ==
  ASSUME IInv, NEW p \in Procs, Program(p) \/ Sync(p),
         NEW lists, NEW base, NEW lists2, NEW base2, Agenda(lists, base),
         Consistent(lists2, base2)', Extended(lists, base, lists2, base2), Grows, Syncs(p),
         NEW i \in 1..Len(List(p, lists)), regGlobal(p, i),
         Progress(p, base) = 2 * i - 2, at[p] \in {"user", "gather"},
         pos' = pos, slotOf' = slotOf, m_added' = m_added
  PROVE  Agenda(lists2, base2)'
<1>1. /\ Listed(p, lists) /\ Located(p, lists, base) /\ Made(p, lists, base)
      /\ List(p, lists) \in Seq(Nat) /\ base[pos[p] + 1] \in Nat /\ LastCall(p) \in Nat
      /\ at \in [Procs -> Places] /\ next \in [Procs -> Nat] /\ pos[p] \in Nat
  BY ListType DEF Agenda, IInv, TypeOK, SyncType
<1>2. PICK c \in CallRecords : Enter(p, c) /\ c.op = "allreduce"
  <2>1. /\ Registered \in CallRecords /\ Registered.op = "allreduce"
        /\ Failed \in CallRecords /\ Failed.op = "allreduce"
    BY DEF Registered, Failed, CallRecords
  <2>2. Enter(p, Registered) \/ Enter(p, Failed)
    BY DEF regGlobal
  <2> QED BY <2>1, <2>2
<1>3. at'[p] \in {"agree", "failing"} /\ next'[p] = i
  BY <1>1 DEF regGlobal
<1>4. LastCall(p) + 1 = base[pos[p] + 1] + (2 * i - 1) /\ 2 * i - 1 \in Int
  <2>1. 2 * i - 1 \in Int /\ 2 * i - 2 = (2 * i - 1) - 1
    OBVIOUS
  <2>2. LastCall(p) \in Int /\ base[pos[p] + 1] \in Int
    BY <1>1
  <2>3. LastCall(p) - base[pos[p] + 1] = (2 * i - 1) - 1
    BY <2>1 DEF Progress
  <2> QED BY <2>1, <2>2, <2>3, Before
<1>5. IsCall(c, lists[pos[p] + 1], 2 * i - 1)
  BY <1>2 DEF IsCall, List
<1>6. Made(p, lists2, base2)' /\ LastCall(p)' = LastCall(p) + 1
  BY <1>1, <1>2, <1>4, <1>5, MadeNext DEF Syncs
<1>7. lists2[pos[p] + 1] = lists[pos[p] + 1] /\ base2[pos[p] + 1] = base[pos[p] + 1]
  BY ExtendedHere
<1>8. List(p, lists2)' = List(p, lists) /\ Progress(p, base2)' = 2 * i - 1
  <2>1. List(p, lists2)' = List(p, lists)
    BY <1>7 DEF List
  <2>2. Progress(p, base2)' = (LastCall(p) + 1) - base[pos[p] + 1]
    BY <1>6, <1>7 DEF Progress
  <2>3. LastCall(p) \in Int /\ base[pos[p] + 1] \in Int
    BY <1>1
  <2>4. Progress(p, base2)' = 2 * i - 1
    BY <1>4, <2>2, <2>3, Shift
  <2> QED BY <2>1, <2>4
<1>9. Listed(p, lists2)'
  BY <1>1, <1>8 DEF Listed
<1>10. Located(p, lists2, base2)'
  BY <1>3, <1>8 DEF Located
<1> QED BY <1>6, <1>9, <1>10, AgendaOf

\* The end of the table's part of sync: the vote, or the end of the call.
LEMMA EngineEntered ==
  ASSUME IInv, NEW p \in Procs, Program(p) \/ Sync(p),
         NEW lists, NEW base, NEW lists2, NEW base2, Agenda(lists, base),
         Consistent(lists2, base2)', Extended(lists, base, lists2, base2), Grows, Syncs(p),
         NEW vote \in BOOLEAN, NEW leaving \in BOOLEAN, SyncEngine(p, vote, leaving),
         aborting'[p] => vote,
         ~ aborting'[p] => vote = history'[pos[p] + 1].vote,
         Progress(p, base) = VotePlace(List(p, lists)) - 1,
         m_added'[p] = <<>>
  PROVE  Agenda(lists2, base2)'
<1>1. /\ Listed(p, lists) /\ Located(p, lists, base) /\ Made(p, lists, base)
      /\ List(p, lists) \in Seq(Nat) /\ base[pos[p] + 1] \in Nat /\ LastCall(p) \in Nat
      /\ at \in [Procs -> Places] /\ next \in [Procs -> Nat] /\ pos[p] \in Nat
      /\ pos \in [Procs -> 0..MaxCalls]
      /\ VotePlace(List(p, lists)) \in Nat
  BY ListType, VotePlaceIs DEF Agenda, IInv, TypeOK, SyncType, ProgramType
<1>2. CASE vote
  <2>0. /\ Enter(p, [op |-> "vote", abort |-> leaving])
        /\ at' = [at EXCEPT ![p] = "vote"] /\ pos' = pos
    BY <1>2 DEF SyncEngine
  <2>1. PICK c \in CallRecords : Enter(p, c) /\ c.op = "vote"
    BY <2>0 DEF CallRecords
  <2>2. at'[p] = "vote" /\ pos' = pos
    BY <1>1, <2>0
  <2>3. LastCall(p) + 1 = base[pos[p] + 1] + VotePlace(List(p, lists))
    <3>1. /\ LastCall(p) \in Int /\ base[pos[p] + 1] \in Int
          /\ VotePlace(List(p, lists)) \in Int
      BY <1>1
    <3>2. LastCall(p) - base[pos[p] + 1] = VotePlace(List(p, lists)) - 1
      BY DEF Progress
    <3> QED BY <3>1, <3>2, Before
  <2>4. IsCall(c, lists[pos[p] + 1], VotePlace(List(p, lists)))
    BY <2>1 DEF IsCall, List
  <2>5. ~ aborting'[p] => history'[pos[p] + 1].vote
    BY <1>2, Zenon
  <2>6. \/ /\ pos[p] + 1 \in 1..Len(history') /\ history'[pos[p] + 1].do = "sync"
           /\ history'[pos[p] + 1].vote \in BOOLEAN
           /\ c.op = "vote" => history'[pos[p] + 1].vote
        \/ pos[p] = MaxCalls /\ Len(history') = MaxCalls
    BY <2>5, Zenon DEF Syncs
  <2>7. Made(p, lists2, base2)' /\ LastCall(p)' = LastCall(p) + 1
    BY <1>1, <2>1, <2>3, <2>4, <2>6, MadeNext
  <2>8. lists2[pos[p] + 1] = lists[pos[p] + 1] /\ base2[pos[p] + 1] = base[pos[p] + 1]
    BY ExtendedHere
  <2>9. List(p, lists2)' = List(p, lists) /\ Progress(p, base2)' = VotePlace(List(p, lists))
    <3>1. List(p, lists2)' = List(p, lists)
      BY <2>2, <2>8 DEF List
    <3>2. Progress(p, base2)' = (LastCall(p) + 1) - base[pos[p] + 1]
      BY <2>2, <2>7, <2>8 DEF Progress
    <3>3. /\ LastCall(p) \in Int /\ base[pos[p] + 1] \in Int
          /\ VotePlace(List(p, lists)) \in Int
      BY <1>1
    <3>4. Progress(p, base2)' = VotePlace(List(p, lists))
      BY <2>3, <3>2, <3>3, Shift
    <3> QED BY <3>1, <3>4
  <2>10. Listed(p, lists2)'
    BY <2>2 DEF Listed
  <2>11. Located(p, lists2, base2)'
    <3>1. VotePlace(List(p, lists2))' = VotePlace(List(p, lists))
      BY <2>9 DEF VotePlace
    <3>2. ~ aborting'[p] => history'[pos'[p] + 1].vote
      BY <2>2, <2>5, Zenon
    <3> QED BY <2>2, <2>9, <3>1, <3>2 DEF Located
  <2> QED BY <2>7, <2>10, <2>11, AgendaOf
<1>3. CASE ~ vote
  <2>0. /\ at' = [at EXCEPT ![p] = "user"] /\ pos' = [pos EXCEPT ![p] = @ + 1] /\ calls' = calls
    BY <1>3 DEF SyncEngine
  <2>1. at'[p] = "user" /\ pos'[p] = pos[p] + 1
    BY <1>1, <2>0
  <2>2. ~ aborting'[p]
    BY <1>3, Zenon
  <2>3. /\ pos[p] + 1 \in 1..Len(history') /\ history'[pos[p] + 1].do = "sync"
        /\ history'[pos[p] + 1].vote \in BOOLEAN /\ ~ history'[pos[p] + 1].vote
    BY <1>3, <2>2, Zenon DEF Syncs
  <2>4. /\ List(p, lists2)' = <<>>
        /\ base2[pos'[p] + 1]
             = base[pos[p] + 1] + SyncCalls(List(p, lists), history'[pos[p] + 1].vote)
    BY <2>1, <2>3, NextPlace DEF ListAfter, CallsOf
  <2>5. SyncCalls(List(p, lists), history'[pos[p] + 1].vote) = VotePlace(List(p, lists)) - 1
    BY <1>1, <2>3, SyncCallsType
  <2>6. LastCall(p) = base2[pos'[p] + 1]
    <3>1. LastCall(p) - base[pos[p] + 1] = VotePlace(List(p, lists)) - 1
      BY DEF Progress
    <3>2. /\ LastCall(p) \in Int /\ base[pos[p] + 1] \in Int
          /\ VotePlace(List(p, lists)) - 1 \in Int
      BY <1>1
    <3>3. LastCall(p) = base[pos[p] + 1] + (VotePlace(List(p, lists)) - 1)
      BY <3>1, <3>2, Sum
    <3> QED BY <2>4, <2>5, <3>3
  <2>7. LastCall(p)' = LastCall(p)
    BY <2>0 DEF LastCall
  <2>8. Progress(p, base2)' = 0
    BY <1>1, <2>6, <2>7 DEF Progress
  <2>9. Listed(p, lists2)'
    BY <2>4 DEF Listed
  <2>10. Located(p, lists2, base2)'
    BY <2>1, <2>8 DEF Located
  <2>11. Made(p, lists2, base2)'
    BY <1>1, <2>0, MadeStays DEF Grows
  <2> QED BY <2>9, <2>10, <2>11, AgendaOf
<1> QED BY <1>2, <1>3

\* sync and abort alike.
LEMMA StartAgenda ==
  ASSUME IInv, NEW p \in Procs, Program(p), at[p] = "user",
         NEW lists, NEW base, NEW lists2, NEW base2, Agenda(lists, base),
         Consistent(lists2, base2)', Extended(lists, base, lists2, base2), Grows, Syncs(p),
         NEW vote \in BOOLEAN, NEW leaving \in BOOLEAN, SyncStart(p, vote, leaving),
         leaving => vote, ~ leaving => vote = history'[pos[p] + 1].vote,
         m_added' = m_added
  PROVE  Agenda(lists2, base2)'
<1>1. /\ aborting'[p] = leaving /\ slotOf' = slotOf
      /\ \/ m_added[p] # <<>> /\ regGlobal(p, 1) /\ pos' = pos
         \/ m_added[p] = <<>> /\ SyncEngine(p, vote, leaving)
  BY DEF SyncStart, IInv, TypeOK, SyncType
<1>2. /\ List(p, lists) \in Seq(Nat) /\ m_added[p] \in Seq(Nat)
      /\ Len(m_added[p]) = Len(List(p, lists)) /\ Progress(p, base) = 0
  BY ListType DEF Agenda, Listed, Located
<1>3. CASE m_added[p] # <<>> /\ regGlobal(p, 1) /\ pos' = pos
  <2>1. 1 \in 1..Len(List(p, lists))
    BY <1>2, <1>3
  <2>2. Progress(p, base) = 2 * 1 - 2
    BY <1>2
  <2> QED BY <1>1, <1>3, <2>1, <2>2, AgreementEntered
<1>4. CASE m_added[p] = <<>> /\ SyncEngine(p, vote, leaving)
  <2>1. List(p, lists) = <<>>
    BY <1>2, <1>4
  <2>2. VotePlace(List(p, lists)) = 1
    BY <1>2, <2>1, VotePlaceIs
  <2>3. Progress(p, base) = VotePlace(List(p, lists)) - 1
    BY <1>2, <2>2
  <2>4. /\ aborting'[p] => vote
        /\ ~ aborting'[p] => vote = history'[pos[p] + 1].vote
    BY <1>1, Zenon
  <2>5. m_added'[p] = <<>>
    BY <1>4
  <2> QED BY <1>4, <2>3, <2>4, <2>5, EngineEntered
<1> QED BY <1>1, <1>3, <1>4

LEMMA SyncAgenda ==
  ASSUME IInv, NEW p \in Procs, sync(p), NEW lists, NEW base, Agenda(lists, base)
  PROVE  \E lists2, base2 : Agenda(lists2, base2)'
<1>1. PICK vote \in BOOLEAN : /\ Collective(p, [do |-> "sync", vote |-> vote])
                              /\ SyncStart(p, vote, FALSE)
  BY DEF sync
<1>2. PICK c : c = [do |-> "sync", vote |-> vote]
  OBVIOUS
<1>3. c \in ProgramCalls /\ c.do = "sync" /\ c.vote = vote /\ Collective(p, c)
  BY <1>1, <1>2 DEF ProgramCalls
<1>4. /\ Program(p) /\ at[p] = "user" /\ Grows /\ m_added' = m_added
      /\ Consistent(lists, base)
  BY <1>1, HistoryGrows DEF Program, Collective, sync, tableVars, Agenda
<1>5. PICK lists2, base2 :
        /\ Consistent(lists2, base2)' /\ Extended(lists, base, lists2, base2)
        /\ pos[p] + 1 \in 1..Len(history') /\ history'[pos[p] + 1] = c
  BY <1>3, <1>4, NewCall
<1>6. ~ aborting'[p]
  BY <1>1 DEF SyncStart, IInv, TypeOK, SyncType
<1>7. Syncs(p) /\ vote = history'[pos[p] + 1].vote
  BY <1>3, <1>5, <1>6 DEF Syncs
<1> QED BY <1>1, <1>4, <1>5, <1>7, StartAgenda

\* Nobody returns from the spmd function before the end of the program.
LEMMA AbortAgenda ==
  ASSUME Quitters = {}, IInv, NEW p \in Procs, abort(p),
         NEW lists, NEW base, Agenda(lists, base)
  PROVE  Agenda(lists, base)'
<1>1. /\ at[p] = "user" /\ pos[p] = MaxCalls /\ SyncStart(p, TRUE, TRUE)
      /\ history' = history /\ m_added' = m_added /\ Program(p)
  BY DEF abort, tableVars, Program
<1>2. /\ Consistent(lists, base)' /\ Extended(lists, base, lists, base) /\ Grows
  BY <1>1, SameAgenda, HistoryGrows DEF Agenda
<1>3. Len(history') = MaxCalls
  BY <1>1, BoundsAssumption DEF IInv, TypeOK, ProgramType, InStep
<1>4. aborting'[p]
  BY <1>1 DEF SyncStart, IInv, TypeOK, SyncType
<1>5. Syncs(p)
  BY <1>1, <1>3, <1>4 DEF Syncs
<1> QED BY <1>1, <1>2, <1>5, StartAgenda

----------------------------------------------------------------------------
(* Inside a sync *)

LEMMA SyncNow ==
  ASSUME IInv, NEW p \in Procs, Leaving(p), history' = history, aborting' = aborting,
         at[p] \in {"agree", "gather", "barrier", "vote"}
  PROVE  Syncs(p)
<1>1. /\ history \in Seq(ProgramCalls) /\ Len(history) <= MaxCalls /\ Len(history) \in Nat
      /\ pos[p] \in Nat /\ pos[p] <= Len(history) /\ aborting[p] \in BOOLEAN
  BY DEF IInv, TypeOK, ProgramType, SyncType, InStep
<1>2. CASE aborting[p]
  <2>1. pos[p] = MaxCalls
    BY <1>2 DEF Leaving
  <2>2. Len(history) = MaxCalls
    BY <1>1, <2>1, BoundsAssumption
  <2> QED BY <1>2, <2>1, <2>2 DEF Syncs
<1>3. CASE ~ aborting[p]
  <2>1. pos[p] < Len(history) /\ history[pos[p] + 1].do = "sync"
    BY <1>3 DEF IInv, InStep
  <2>2. pos[p] + 1 \in 1..Len(history)
    BY <1>1, <2>1
  <2>3. history[pos[p] + 1] \in ProgramCalls
    BY <1>1, <2>2, ElementOfSeq
  <2>4. history[pos[p] + 1].vote \in BOOLEAN
    BY <2>1, <2>3 DEF ProgramCalls
  <2> QED BY <1>3, <2>1, <2>2, <2>4 DEF Syncs
<1> QED BY <1>2, <1>3

\* The registration that p has reached is that of the agenda.
LEMMA CurrentIs ==
  ASSUME IInv, NEW p \in Procs, NEW lists, NEW base, Agenda(lists, base),
         at[p] \in {"agree", "gather"}
  PROVE  /\ next[p] \in 1..Len(List(p, lists)) /\ List(p, lists)[next[p]] \in Nat
         /\ List(p, lists)[next[p]] \in DOMAIN slotOf[p]
         /\ m_added[p][next[p]] = slotOf[p][List(p, lists)[next[p]]]
         /\ Current(p) = List(p, lists)[next[p]]
<1>1. /\ List(p, lists) \in Seq(Nat) /\ m_added[p] \in Seq(Nat)
      /\ Len(m_added[p]) = Len(List(p, lists)) /\ next[p] \in DOMAIN m_added[p]
      /\ \A i \in 1..Len(List(p, lists)) :
           /\ List(p, lists)[i] \in DOMAIN slotOf[p]
           /\ m_added[p][i] = slotOf[p][List(p, lists)[i]]
  BY ListType DEF Agenda, Listed, IInv, AddedKept
<1>2. next[p] \in 1..Len(List(p, lists)) /\ List(p, lists)[next[p]] \in Nat
  BY <1>1
<1>3. record[p][slotOf[p][List(p, lists)[next[p]]]].name = List(p, lists)[next[p]]
  BY <1>1, <1>2 DEF IInv, TableKept
<1> QED BY <1>1, <1>2, <1>3 DEF Current

LEMMA AgreedAgenda ==
  ASSUME IInv, NEW p \in Procs, Agreed(p), Leaving(p), NEW lists, NEW base, Agenda(lists, base)
  PROVE  Agenda(lists, base)'
<1>1. /\ at[p] = "agree" /\ Sync(p) /\ at \in [Procs -> Places]
      /\ UNCHANGED <<history, pos, slotOf, m_added, next, aborting>>
      /\ \/ at' = [at EXCEPT ![p] = "threw"] /\ calls' = calls
         \/ /\ Enter(p, [op |-> "allgather", key |-> Current(p)])
            /\ at' = [at EXCEPT ![p] = "gather"]
  BY DEF Agreed, Sync, programVars, tableVars, IInv, TypeOK, SyncType
<1>2. CASE at' = [at EXCEPT ![p] = "threw"] /\ calls' = calls
  <2>1. at'[p] = "threw"
    BY <1>1, <1>2
  <2> QED BY <1>1, <1>2, <2>1, StaysInPlace
<1>3. CASE /\ Enter(p, [op |-> "allgather", key |-> Current(p)])
           /\ at' = [at EXCEPT ![p] = "gather"]
  <2>1. PICK i : i = next[p]
    OBVIOUS
  <2>2. /\ i \in 1..Len(List(p, lists)) /\ List(p, lists)[i] \in Nat
        /\ Current(p) = List(p, lists)[i]
    BY <1>1, <2>1, CurrentIs
  <2>3. PICK c \in CallRecords :
          Enter(p, c) /\ c.op = "allgather" /\ c.key = List(p, lists)[i]
    <3>1. PICK k : k = Current(p)
      OBVIOUS
    <3>2. k \in Int /\ k = List(p, lists)[i]
      BY <2>2, <3>1
    <3>3. [op |-> "allgather", key |-> k] \in CallRecords
      BY <3>2 DEF CallRecords
    <3> QED BY <1>3, <3>1, <3>2, <3>3
  <2>4. /\ Consistent(lists, base)' /\ Extended(lists, base, lists, base) /\ Grows
        /\ Consistent(lists, base) /\ Located(p, lists, base) /\ Made(p, lists, base)
        /\ Listed(p, lists)
    BY <1>1, SameAgenda, HistoryGrows DEF Agenda
  <2>5. /\ List(p, lists) \in Seq(Nat) /\ base[pos[p] + 1] \in Nat /\ LastCall(p) \in Nat
        /\ i \in Nat
    BY <2>2, <2>4, ListType
  <2>6. LastCall(p) + 1 = base[pos[p] + 1] + 2 * i
    <3>1. LastCall(p) - base[pos[p] + 1] = 2 * i - 1
      BY <1>1, <2>1, <2>4 DEF Located, Progress
    <3> QED BY <2>5, <3>1, Before
  <2>7. IsCall(c, lists[pos[p] + 1], 2 * i)
    BY <2>2, <2>3 DEF IsCall, List
  <2>8. Syncs(p)
    BY <1>1, SyncNow
  <2>9. Made(p, lists, base)' /\ LastCall(p)' = LastCall(p) + 1
    <3>1. 2 * i \in Int
      BY <2>5
    <3> QED BY <2>3, <2>4, <2>6, <2>7, <2>8, <3>1, MadeNext DEF Syncs
  <2>10. List(p, lists)' = List(p, lists)
    BY <1>1 DEF List
  <2>11. Progress(p, base)' = 2 * i
    <3>1. Progress(p, base)' = (LastCall(p) + 1) - base[pos[p] + 1]
      BY <1>1, <2>9 DEF Progress
    <3> QED BY <2>5, <2>6, <3>1, Shift
  <2>12. at'[p] = "gather"
    BY <1>1, <1>3
  <2>13. Listed(p, lists)'
    BY <1>1, <2>4, <2>10 DEF Listed
  <2>14. Located(p, lists, base)'
    BY <1>1, <2>1, <2>11, <2>12 DEF Located
  <2> QED BY <1>1, <2>4, <2>9, <2>13, <2>14, AgendaOf
<1> QED BY <1>1, <1>2, <1>3

LEMMA GatheredAgenda ==
  ASSUME IInv, NEW p \in Procs, Gathered(p), Leaving(p),
         NEW lists, NEW base, Agenda(lists, base)
  PROVE  Agenda(lists, base)'
<1>1. /\ at[p] = "gather" /\ Sync(p) /\ at \in [Procs -> Places]
      /\ UNCHANGED <<history, pos, slotOf, m_added, aborting>>
      /\ \/ next[p] < Len(m_added[p]) /\ regGlobal(p, next[p] + 1)
         \/ /\ next[p] = Len(m_added[p]) /\ Enter(p, [op |-> "barrier"])
            /\ at' = [at EXCEPT ![p] = "barrier"]
  BY DEF Gathered, Sync, programVars, IInv, TypeOK, SyncType
<1>2. /\ Consistent(lists, base)' /\ Extended(lists, base, lists, base) /\ Grows
      /\ Consistent(lists, base) /\ Located(p, lists, base) /\ Made(p, lists, base)
      /\ Listed(p, lists)
  BY <1>1, SameAgenda, HistoryGrows DEF Agenda
<1>3. /\ List(p, lists) \in Seq(Nat) /\ base[pos[p] + 1] \in Nat /\ LastCall(p) \in Nat
      /\ next[p] \in 1..Len(List(p, lists)) /\ Len(List(p, lists)) \in Nat
      /\ Len(m_added[p]) = Len(List(p, lists))
  BY <1>1, <1>2, ListType, CurrentIs DEF Listed
<1>4. Syncs(p)
  BY <1>1, SyncNow
<1>5. Progress(p, base) = 2 * next[p]
  BY <1>1, <1>2 DEF Located
<1>6. CASE next[p] < Len(m_added[p]) /\ regGlobal(p, next[p] + 1)
  <2>1. PICK i, n, m : i = next[p] + 1 /\ n = next[p] /\ m = Len(List(p, lists))
    OBVIOUS
  <2>2. n \in 1..m /\ m \in Nat /\ n < m /\ i = n + 1
    BY <1>3, <1>6, <2>1
  <2>3. i \in 1..m /\ 2 * n = 2 * i - 2
    BY <2>2
  <2>4. i \in 1..Len(List(p, lists)) /\ Progress(p, base) = 2 * i - 2 /\ regGlobal(p, i)
    BY <1>5, <1>6, <2>1, <2>3
  <2> QED BY <1>1, <1>2, <1>4, <2>4, AgreementEntered
<1>7. CASE /\ next[p] = Len(m_added[p]) /\ Enter(p, [op |-> "barrier"])
           /\ at' = [at EXCEPT ![p] = "barrier"]
  <2>1. PICK c \in CallRecords : Enter(p, c) /\ c.op = "barrier"
    BY <1>7 DEF CallRecords
  <2>2. PICK n : n = 2 * Len(List(p, lists)) + 1
    OBVIOUS
  <2>3. n \in Int /\ List(p, lists) # <<>> /\ 2 * next[p] = n - 1
    BY <1>3, <1>7, <2>2
  <2>4. IsCall(c, lists[pos[p] + 1], n)
    BY <2>1, <2>2, <2>3 DEF IsCall, List
  <2>5. LastCall(p) + 1 = base[pos[p] + 1] + n
    <3>1. LastCall(p) - base[pos[p] + 1] = n - 1
      BY <1>5, <2>3 DEF Progress
    <3>2. LastCall(p) \in Int /\ base[pos[p] + 1] \in Int
      BY <1>3
    <3> QED BY <2>3, <3>1, <3>2, Before
  <2>6. Made(p, lists, base)' /\ LastCall(p)' = LastCall(p) + 1
    BY <1>2, <1>4, <2>1, <2>3, <2>4, <2>5, MadeNext DEF Syncs
  <2>7. List(p, lists)' = List(p, lists)
    BY <1>1 DEF List
  <2>8. Progress(p, base)' = n
    <3>1. Progress(p, base)' = (LastCall(p) + 1) - base[pos[p] + 1]
      BY <1>1, <2>6 DEF Progress
    <3> QED BY <1>3, <2>3, <2>5, <3>1, Shift
  <2>9. at'[p] = "barrier"
    BY <1>1, <1>7
  <2>10. Listed(p, lists)'
    BY <1>1, <1>2, <2>7 DEF Listed
  <2>11. Located(p, lists, base)'
    BY <2>2, <2>3, <2>7, <2>8, <2>9 DEF Located
  <2> QED BY <1>1, <1>2, <2>6, <2>10, <2>11, AgendaOf
<1> QED BY <1>1, <1>6, <1>7

LEMMA FencedAgenda ==
  ASSUME IInv, NEW p \in Procs, Fenced(p), Leaving(p), NEW lists, NEW base, Agenda(lists, base)
  PROVE  Agenda(lists, base)'
<1>1. /\ at[p] = "barrier" /\ Sync(p) /\ SyncEngine(p, Votes(p), aborting[p])
      /\ UNCHANGED <<history, aborting>> /\ m_added'[p] = <<>> /\ aborting[p] \in BOOLEAN
  BY DEF Fenced, Sync, ClearAdded, IInv, TypeOK, SyncType, TableType
<1>2. /\ Consistent(lists, base)' /\ Extended(lists, base, lists, base) /\ Grows
      /\ Consistent(lists, base) /\ Located(p, lists, base)
  BY <1>1, SameAgenda, HistoryGrows DEF Agenda
<1>3. List(p, lists) \in Seq(Nat)
  BY <1>2, ListType
<1>4. Syncs(p)
  BY <1>1, SyncNow
<1>5. Progress(p, base) = VotePlace(List(p, lists)) - 1
  <2>1. Progress(p, base) = 2 * Len(List(p, lists)) + 1 /\ List(p, lists) # <<>>
    BY <1>1, <1>2 DEF Located
  <2>2. VotePlace(List(p, lists)) = 2 * Len(List(p, lists)) + 2 /\ Len(List(p, lists)) \in Nat
    BY <1>3, <2>1, VotePlaceIs
  <2> QED BY <2>1, <2>2
<1>6. /\ aborting[p] => Votes(p) = TRUE
      /\ ~ aborting[p] => Votes(p) = history[pos[p] + 1].vote
  BY Zenon DEF Votes
<1>7. Votes(p) \in BOOLEAN
  BY <1>1, <1>4, <1>6, Zenon DEF Syncs
<1>8. /\ aborting'[p] => Votes(p)
      /\ ~ aborting'[p] => Votes(p) = history'[pos[p] + 1].vote
  BY <1>1, <1>6, Zenon
<1> QED BY <1>1, <1>2, <1>4, <1>5, <1>7, <1>8, EngineEntered

LEMMA VotedAgenda ==
  ASSUME IInv, NEW p \in Procs, Voted(p), NEW lists, NEW base, Agenda(lists, base)
  PROVE  Agenda(lists, base)'
<1>1. /\ at[p] = "vote" /\ Sync(p) /\ at \in [Procs -> Places]
      /\ pos \in [Procs -> 0..MaxCalls] /\ m_added[p] = <<>>
      /\ UNCHANGED <<calls, history, slotOf, m_added, aborting>>
      /\ \/ at' = [at EXCEPT ![p] = "left"] /\ pos' = pos
         \/ /\ ~ aborting[p] /\ at' = [at EXCEPT ![p] = "user"]
            /\ pos' = [pos EXCEPT ![p] = @ + 1]
  BY DEF Voted, Sync, tableVars, IInv, TypeOK, SyncType, ProgramType, AddedKept
<1>2. /\ Consistent(lists, base)' /\ Extended(lists, base, lists, base) /\ Grows
      /\ Consistent(lists, base) /\ Located(p, lists, base) /\ Made(p, lists, base)
  BY <1>1, SameAgenda, HistoryGrows DEF Agenda
<1>3. Made(p, lists, base)'
  BY <1>1, <1>2, MadeStays DEF Grows
<1>4. CASE at' = [at EXCEPT ![p] = "left"] /\ pos' = pos
  <2>1. at'[p] = "left"
    BY <1>1, <1>4
  <2>2. Listed(p, lists)' /\ Located(p, lists, base)'
    BY <2>1 DEF Listed, Located
  <2> QED BY <1>1, <1>2, <1>3, <2>2, AgendaOf
<1>5. CASE /\ ~ aborting[p] /\ at' = [at EXCEPT ![p] = "user"]
           /\ pos' = [pos EXCEPT ![p] = @ + 1]
  <2>1. at'[p] = "user" /\ pos'[p] = pos[p] + 1
    BY <1>1, <1>5
  <2>2. /\ List(p, lists) \in Seq(Nat) /\ base[pos[p] + 1] \in Nat /\ LastCall(p) \in Nat
        /\ VotePlace(List(p, lists)) \in Nat
    BY <1>2, ListType, VotePlaceIs
  <2>3. Leaving(p)
    BY <1>5 DEF Leaving
  <2>4. /\ pos[p] + 1 \in 1..Len(history') /\ history'[pos[p] + 1].do = "sync"
        /\ history'[pos[p] + 1].vote \in BOOLEAN
    BY <1>1, <1>5, <2>3, SyncNow DEF Syncs
  <2>5. history'[pos[p] + 1].vote
    BY <1>1, <1>2, <1>5 DEF Located
  <2>6. /\ List(p, lists)' = <<>>
        /\ base[pos'[p] + 1]
             = base[pos[p] + 1] + SyncCalls(List(p, lists), history'[pos[p] + 1].vote)
    BY <1>2, <2>1, <2>4, NextPlace DEF ListAfter, CallsOf
  <2>7. SyncCalls(List(p, lists), history'[pos[p] + 1].vote) = VotePlace(List(p, lists))
    BY <2>2, <2>4, <2>5, SyncCallsType
  <2>8. LastCall(p) = base[pos'[p] + 1]
    <3>1. LastCall(p) - base[pos[p] + 1] = VotePlace(List(p, lists))
      BY <1>1, <1>2 DEF Located, Progress
    <3>2. LastCall(p) = base[pos[p] + 1] + VotePlace(List(p, lists))
      BY <2>2, <3>1, Sum
    <3> QED BY <2>6, <2>7, <3>2
  <2>9. LastCall(p)' = LastCall(p)
    BY <1>1 DEF LastCall
  <2>10. Progress(p, base)' = 0
    BY <2>2, <2>8, <2>9 DEF Progress
  <2>11. Listed(p, lists)'
    BY <1>1, <2>6 DEF Listed
  <2>12. Located(p, lists, base)'
    BY <2>1, <2>10 DEF Located
  <2> QED BY <1>1, <1>2, <1>3, <2>11, <2>12, AgendaOf
<1> QED BY <1>1, <1>4, <1>5

----------------------------------------------------------------------------
(* The agenda is kept *)

LEMMA EngineEnds ==
  ASSUME NEW p \in Procs, NEW vote \in BOOLEAN, NEW leaving \in BOOLEAN,
         SyncEngine(p, vote, leaving), vote
  PROVE  pos' = pos
BY DEF SyncEngine

LEMMA LeavingStep ==
  ASSUME Quitters = {}, IInv, NEW p \in Procs, Leaving(p), Program(p) \/ Sync(p)
  PROVE  Leaving(p)'
<1>1. /\ pos[p] \in Nat /\ pos[p] <= Len(history) /\ Len(history) <= MaxCalls
      /\ Len(history) \in Nat /\ MaxCalls \in Nat /\ pos \in [Procs -> 0..MaxCalls]
      /\ aborting \in [Procs -> BOOLEAN]
  BY BoundsAssumption DEF IInv, TypeOK, ProgramType, SyncType, InStep
<1>2. ASSUME NEW c, Collective(p, c) PROVE pos[p] # MaxCalls
  BY <1>1, <1>2 DEF Collective
<1>3. CASE addGlobal(p) \/ removeGlobal(p)
  <2>1. pos[p] # MaxCalls
    BY <1>2, <1>3 DEF addGlobal, removeGlobal
  <2>2. aborting' = aborting
    BY <1>3 DEF addGlobal, removeGlobal, remove, syncVars
  <2> QED BY <2>1, <2>2 DEF Leaving
<1>4. CASE addLocal(p) \/ removeLocal(p) \/ resizeMemreg(p) \/ Agreed(p) \/ Failing(p) \/ Gathered(p)
  <2>1. aborting' = aborting /\ pos' = pos
    BY <1>4 DEF addLocal, removeLocal, remove, resizeMemreg, Agreed, Failing, Gathered,
       programVars, syncVars
  <2> QED BY <2>1 DEF Leaving
<1>5. CASE sync(p)
  <2>1. ~ aborting'[p]
    BY <1>1, <1>5 DEF sync, SyncStart
  <2> QED BY <2>1 DEF Leaving
<1>6. CASE abort(p)
  <2>1. pos[p] = MaxCalls /\ SyncStart(p, TRUE, TRUE)
    BY <1>6 DEF abort
  <2>2. pos' = pos
    BY <2>1, EngineEnds DEF SyncStart
  <2> QED BY <2>1, <2>2 DEF Leaving
<1>7. CASE Fenced(p)
  <2>1. SyncEngine(p, Votes(p), aborting[p]) /\ aborting' = aborting
    BY <1>7 DEF Fenced
  <2>2. ASSUME aborting[p] PROVE pos' = pos
    <3>1. Votes(p) = TRUE
      BY <2>2, Zenon DEF Votes
    <3>2. SyncEngine(p, TRUE, aborting[p])
      BY <2>1, <3>1
    <3> QED BY <3>2 DEF SyncEngine
  <2> QED BY <2>1, <2>2 DEF Leaving
<1>8. CASE Voted(p)
  <2>1. aborting' = aborting /\ (aborting[p] => pos' = pos)
    BY <1>8 DEF Voted
  <2> QED BY <2>1 DEF Leaving
<1> QED BY <1>3, <1>4, <1>5, <1>6, <1>7, <1>8 DEF Program, Sync

LEMMA AgendaInit == Init => AgendaInv
<1> SUFFICES ASSUME Init PROVE AgendaInv
  OBVIOUS
<1>1. /\ calls = [p \in Procs |-> <<>>] /\ history = <<>> /\ pos = [p \in Procs |-> 0]
      /\ m_added = [p \in Procs |-> <<>>] /\ at = [p \in Procs |-> "user"]
      /\ aborting = [p \in Procs |-> FALSE]
  BY DEF Init
<1>2. PICK lists, base : lists = <<<<>>>> /\ base = <<0>>
  OBVIOUS
<1>3. /\ lists \in Seq(Seq(Nat)) /\ Len(lists) = 1 /\ lists[1] = <<>>
      /\ base \in Seq(Nat) /\ Len(base) = 1 /\ base[1] = 0
  BY <1>2
<1>4. Consistent(lists, base)
  BY <1>1, <1>3 DEF Consistent
<1>5. ASSUME NEW p \in Procs
      PROVE  /\ Listed(p, lists) /\ Located(p, lists, base) /\ Made(p, lists, base)
             /\ Leaving(p)
  <2>1. /\ pos[p] = 0 /\ m_added[p] = <<>> /\ calls[p] = <<>> /\ at[p] = "user"
        /\ ~ aborting[p]
    BY <1>1
  <2>2. List(p, lists) = <<>> /\ LastCall(p) = 0 /\ Progress(p, base) = 0
    BY <1>3, <2>1 DEF List, LastCall, Progress
  <2> QED BY <2>1, <2>2 DEF Listed, Located, Made, Leaving
<1> QED BY <1>4, <1>5 DEF AgendaInv, Agenda

LEMMA AgendaStep ==
  ASSUME Quitters = {}, IInv, AgendaInv, [Next]_vars
  PROVE  AgendaInv'
<1>1. PICK lists, base : Agenda(lists, base)
  BY DEF AgendaInv
<1>2. CASE UNCHANGED vars
  <2>1. /\ history' = history /\ calls' = calls /\ pos' = pos /\ slotOf' = slotOf
        /\ m_added' = m_added /\ at' = at /\ next' = next /\ aborting' = aborting
    BY <1>2 DEF vars, programVars, tableVars, syncVars
  <2>2. Consistent(lists, base)'
    BY <1>1, <2>1, SameAgenda DEF Agenda
  <2>3. ASSUME NEW p \in Procs
        PROVE  /\ Listed(p, lists)' /\ Located(p, lists, base)' /\ Made(p, lists, base)'
               /\ Leaving(p)'
    <3>1. /\ Listed(p, lists) /\ Located(p, lists, base) /\ Made(p, lists, base)
          /\ Leaving(p)
      BY <1>1 DEF Agenda, AgendaInv
    <3>2. /\ List(p, lists)' = List(p, lists) /\ Progress(p, base)' = Progress(p, base)
          /\ LastCall(p)' = LastCall(p)
      BY <2>1 DEF List, Progress, LastCall
    <3>3. Listed(p, lists)'
      BY <2>1, <3>1, <3>2 DEF Listed
    <3>4. Located(p, lists, base)'
      BY <2>1, <3>1, <3>2 DEF Located
    <3>5. Made(p, lists, base)'
      BY <2>1, <3>1, <3>2 DEF Made, Falls
    <3>6. Leaving(p)'
      BY <2>1, <3>1 DEF Leaving
    <3> QED BY <3>3, <3>4, <3>5, <3>6
  <2> QED BY <2>2, <2>3 DEF AgendaInv, Agenda
<1>3. ASSUME NEW p \in Procs, Program(p) \/ Sync(p) PROVE AgendaInv'
  <2>1. \E lists2, base2 : Agenda(lists2, base2)'
    <3>0. Leaving(p)
      BY DEF AgendaInv
    <3>1. CASE addGlobal(p)
      BY <1>1, <3>1, AddGlobalAgenda
    <3>2. CASE removeGlobal(p)
      BY <1>1, <3>2, RemoveGlobalAgenda
    <3>3. CASE addLocal(p) \/ removeLocal(p) \/ resizeMemreg(p) \/ Failing(p)
      BY <1>1, <3>3, LocalAgenda
    <3>4. CASE sync(p)
      BY <1>1, <3>4, SyncAgenda
    <3>5. CASE abort(p)
      BY <1>1, <3>5, AbortAgenda
    <3>6. CASE Agreed(p)
      BY <1>1, <3>0, <3>6, AgreedAgenda
    <3>7. CASE Gathered(p)
      BY <1>1, <3>0, <3>7, GatheredAgenda
    <3>8. CASE Fenced(p)
      BY <1>1, <3>0, <3>8, FencedAgenda
    <3>9. CASE Voted(p)
      BY <1>1, <3>9, VotedAgenda
    <3> QED BY <1>3, <3>1, <3>2, <3>3, <3>4, <3>5, <3>6, <3>7, <3>8, <3>9 DEF Program, Sync
  <2>2. ASSUME NEW q \in Procs PROVE Leaving(q)'
    <3>1. Leaving(q)
      BY DEF AgendaInv
    <3>2. CASE q = p
      BY <1>3, <3>1, <3>2, LeavingStep
    <3>3. CASE q # p
      <4>1. Undisturbed(q)
        BY <1>3, <3>3, OthersUndisturbed
      <4> QED BY <3>1, <4>1 DEF Undisturbed, Leaving
    <3> QED BY <3>2, <3>3
  <2> QED BY <2>1, <2>2 DEF AgendaInv
<1> QED BY <1>2, <1>3 DEF Next

\* As long as nobody returns early from the spmd function, all processes work off
\* the same list of registrations in each sync, however each of them reserves and
\* registers local memory in between.
THEOREM ListsAgree ==
  ASSUME Quitters = {}
  PROVE  Spec => []AgendaInv
<1>1. IInv /\ AgendaInv /\ [Next]_vars => AgendaInv'
  BY AgendaStep
<1> QED BY <1>1, AgendaInit, RegistrationInvariant, PTL DEF Spec

\* A collective belongs to one call of the program.
LEMMA OneCall ==
  ASSUME IInv, NEW lists, NEW base, Consistent(lists, base),
         NEW j \in Nat, NEW k, NEW l, Falls(j, k, base), Falls(j, l, base)
  PROVE  k = l /\ lists[k] \in Seq(Nat) /\ base[k] \in Nat
<1>1. /\ base \in Seq(Nat) /\ Len(base) = Len(history) + 1 /\ Len(history) \in Nat
      /\ lists \in Seq(Seq(Nat)) /\ Len(lists) = Len(history) + 1
      /\ k \in 1..(Len(history) + 1) /\ l \in 1..(Len(history) + 1)
  BY DEF Consistent, Falls, IInv, TypeOK, ProgramType
<1>2. ASSUME NEW a, NEW b, Falls(j, a, base), Falls(j, b, base), a < b PROVE FALSE
  <2>1. /\ a \in 1..(Len(history) + 1) /\ b \in 1..(Len(history) + 1) /\ a <= Len(history)
        /\ a + 1 \in 1..(Len(history) + 1) /\ a + 1 <= b
    BY <1>1, <1>2 DEF Falls
  <2>2. j <= base[a + 1] /\ base[b] < j
    BY <1>2, <2>1 DEF Falls
  <2>3. base[a + 1] <= base[b]
    BY <2>1 DEF Consistent
  <2>4. base[a + 1] \in Nat /\ base[b] \in Nat
    BY <1>1, <2>1, ElementOfSeq
  <2> QED BY <2>2, <2>3, <2>4
<1>3. k = l
  <2>1. ~ k < l
    BY <1>2
  <2>2. ~ l < k
    BY <1>2
  <2> QED BY <1>1, <2>1, <2>2
<1> QED BY <1>1, <1>3, ElementOfSeq

LEMMA SameCall ==
  ASSUME IInv, AgendaInv, NEW p \in Procs, NEW q \in Procs,
         NEW j \in 1..LastCall(p), j \in 1..LastCall(q)
  PROVE  /\ calls[p][j].op = calls[q][j].op
         /\ calls[p][j].op = "allgather" => calls[p][j].key = calls[q][j].key
<1>1. PICK lists, base : Agenda(lists, base)
  BY DEF AgendaInv
<1>2. Consistent(lists, base) /\ Made(p, lists, base) /\ Made(q, lists, base)
  BY <1>1 DEF Agenda
<1>3. PICK k : Falls(j, k, base) /\ IsCall(calls[p][j], lists[k], j - base[k])
  BY <1>2 DEF Made
<1>4. PICK l : Falls(j, l, base) /\ IsCall(calls[q][j], lists[l], j - base[l])
  BY <1>2 DEF Made
<1>0. j \in Nat
  OBVIOUS
<1>5. k = l /\ lists[k] \in Seq(Nat) /\ base[k] \in Nat
  BY <1>0, <1>2, <1>3, <1>4, OneCall
<1>6. j - base[k] \in Int
  BY <1>5
<1> QED BY <1>3, <1>4, <1>5, <1>6, PlaceSaysWhat

\* All processes enter the same collectives in the same order: the number of
\* registrations that a process brings into a sync does not depend on how it got
\* there.
THEOREM CollectivesMatch == Spec => []MatchingCollectives
<1>1. CASE Quitters = {}
  <2>1. IInv /\ AgendaInv => MatchingCollectives
    <3> SUFFICES ASSUME IInv, AgendaInv, NEW p \in Procs, NEW q \in Procs,
                        NEW k \in DOMAIN calls[p] \cap DOMAIN calls[q]
                 PROVE  calls[p][k].op = calls[q][k].op
      BY DEF MatchingCollectives
    <3>1. k \in 1..LastCall(p) /\ k \in 1..LastCall(q)
      BY DEF IInv, TypeOK, CallsType, LastCall
    <3> QED BY <3>1, SameCall
  <2> QED BY <1>1, <2>1, ListsAgree, RegistrationInvariant, PTL
<1>2. CASE Quitters # {}
  <2>1. MatchingCollectives
    BY <1>2 DEF MatchingCollectives
  <2> QED BY <2>1, PTL
<1> QED BY <1>1, <1>2

----------------------------------------------------------------------------
(* Keys *)

\* The slot of the engine for the registration that p has under this name.
Verb(p, n) == record[p][slotOf[p][n]].verb

\* What put looks up is the key of the registration itself, and what is being
\* gathered is the key of the registration that p has reached.
Gathering(p) ==
  at[p] = "gather" => /\ id[p] \in DOMAIN glob[p] /\ calls[p] # <<>>
                      /\ calls[p][LastCall(p)].op  = "allgather"
                      /\ calls[p][LastCall(p)].key = Current(p)
KeysKept(p) ==
  \A n \in DOMAIN slotOf[p] :
    n > 0 /\ Verb(p, n) # NoSlot =>
      Verb(p, n) \in DOMAIN glob[p] /\ glob[p][Verb(p, n)] = [q \in Procs |-> n]
KeysInv == \A p \in Procs : Gathering(p) /\ KeysKept(p)

LEMMA FreshSlots ==
  ASSUME IInv, NEW p \in Procs
  PROVE  /\ toGlobal(NewSlot(m_memreg[p].global)) \notin InUse(p)
         /\ toLocal(NewSlot(m_memreg[p].local)) \notin InUse(p)
         /\ toGlobal(NewSlot(verbs[p].global)) \notin Verbs(p)
         /\ toLocal(NewSlot(verbs[p].local)) \notin Verbs(p)
<1>1. /\ m_memreg[p] \in CombinedRegisters /\ BothWellFormed(m_memreg[p])
      /\ verbs[p] \in CombinedRegisters /\ BothWellFormed(verbs[p])
      /\ SlotsInHand(m_memreg[p]) = InUse(p) /\ Verbs(p) \subseteq SlotsInHand(verbs[p])
  BY DEF IInv, TypeOK, TableType, VerbsType, TableKept, EngineKept
<1>2. /\ toGlobal(NewSlot(m_memreg[p].global)) \notin SlotsInHand(m_memreg[p])
      /\ toGlobal(NewSlot(verbs[p].global)) \notin SlotsInHand(verbs[p])
  BY <1>1, AddGlobalDeals
<1>3. /\ toLocal(NewSlot(m_memreg[p].local)) \notin SlotsInHand(m_memreg[p])
      /\ toLocal(NewSlot(verbs[p].local)) \notin SlotsInHand(verbs[p])
  BY <1>1, AddLocalDeals
<1> QED BY <1>1, <1>2, <1>3

LEMMA VerbKnown ==
  ASSUME IInv, NEW p \in Procs, NEW n \in DOMAIN slotOf[p]
  PROVE  /\ slotOf[p][n] \in InUse(p) /\ slotOf[p][n] \in DOMAIN record[p]
         /\ Verb(p, n) # NoSlot => Verb(p, n) \in Verbs(p)
BY DEF IInv, TableKept, InUse, Verb, Verbs

\* What a step has to leave alone for the keys to stay.
LEMMA KeysStay ==
  ASSUME NEW p \in Procs, KeysKept(p),
         \A n \in DOMAIN slotOf'[p] :
           n > 0 /\ Verb(p, n)' # NoSlot =>
             n \in DOMAIN slotOf[p] /\ Verb(p, n)' = Verb(p, n),
         \A n \in DOMAIN slotOf[p] :
           Verb(p, n) # NoSlot /\ Verb(p, n) \in DOMAIN glob[p] =>
             Verb(p, n) \in DOMAIN glob'[p] /\ glob'[p][Verb(p, n)] = glob[p][Verb(p, n)]
  PROVE  KeysKept(p)'
<1> SUFFICES ASSUME NEW n \in DOMAIN slotOf'[p], n > 0, Verb(p, n)' # NoSlot
             PROVE  /\ Verb(p, n)' \in DOMAIN glob'[p]
                    /\ glob'[p][Verb(p, n)'] = [q \in Procs |-> n]
  BY DEF KeysKept
<1>1. n \in DOMAIN slotOf[p] /\ Verb(p, n)' = Verb(p, n)
  OBVIOUS
<1>2. Verb(p, n) \in DOMAIN glob[p] /\ glob[p][Verb(p, n)] = [q \in Procs |-> n]
  BY <1>1 DEF KeysKept
<1> QED BY <1>1, <1>2

LEMMA AddGlobalKeys ==
  ASSUME IInv, NEW p \in Procs, KeysKept(p), addGlobal(p)
  PROVE  KeysKept(p)'
<1>1. PICK s, m : /\ s = toGlobal(NewSlot(m_memreg[p].global)) /\ m = pos[p] + 1
                  /\ record' = [record EXCEPT ![p] = Bind(@, s, [name |-> m, verb |-> NoSlot])]
                  /\ slotOf' = [slotOf EXCEPT ![p] = Bind(@, m, s)]
                  /\ glob' = glob
  BY DEF addGlobal, verbsVars
<1>2. s \notin InUse(p) /\ DOMAIN slotOf = Procs /\ DOMAIN record = Procs
  BY <1>1, FreshSlots DEF IInv, TypeOK, ProgramType, TableType
<1>3. /\ slotOf'[p] = Bind(slotOf[p], m, s)
      /\ record'[p] = Bind(record[p], s, [name |-> m, verb |-> NoSlot])
  BY <1>1, <1>2
<1>4. /\ DOMAIN slotOf'[p] = DOMAIN slotOf[p] \cup {m} /\ slotOf'[p][m] = s
      /\ \A n \in DOMAIN slotOf[p] : n # m => slotOf'[p][n] = slotOf[p][n]
      /\ record'[p][s].verb = NoSlot
      /\ \A t \in DOMAIN record[p] : t # s => record'[p][t] = record[p][t]
  BY <1>3 DEF Bind
<1>5. ASSUME NEW n \in DOMAIN slotOf'[p], Verb(p, n)' # NoSlot
      PROVE  n \in DOMAIN slotOf[p] /\ Verb(p, n)' = Verb(p, n)
  <2>1. n # m
    BY <1>4, <1>5 DEF Verb
  <2>2. n \in DOMAIN slotOf[p] /\ slotOf'[p][n] = slotOf[p][n]
    BY <1>4, <2>1
  <2>3. slotOf[p][n] # s /\ slotOf[p][n] \in DOMAIN record[p]
    BY <1>2, <2>2, VerbKnown
  <2> QED BY <1>4, <2>2, <2>3 DEF Verb
<1> QED BY <1>1, <1>5, KeysStay

LEMMA AddLocalKeys ==
  ASSUME IInv, NEW p \in Procs, KeysKept(p), addLocal(p)
  PROVE  KeysKept(p)'
<1>1. PICK s, v, m, keys :
        /\ s = toLocal(NewSlot(m_memreg[p].local)) /\ v = toLocal(NewSlot(verbs[p].local))
        /\ m = 0 - locals[p] - 1
        /\ record' = [record EXCEPT ![p] = Bind(@, s, [name |-> m, verb |-> v])]
        /\ slotOf' = [slotOf EXCEPT ![p] = Bind(@, m, s)]
        /\ glob' = [glob EXCEPT ![p] = Bind(@, v, keys)]
  BY DEF addLocal
<1>2. /\ s \notin InUse(p) /\ v \notin Verbs(p) /\ DOMAIN slotOf = Procs
      /\ DOMAIN record = Procs /\ DOMAIN glob = Procs /\ locals[p] \in Nat
  BY <1>1, FreshSlots DEF IInv, TypeOK, ProgramType, TableType, VerbsType
<1>3. /\ slotOf'[p] = Bind(slotOf[p], m, s)
      /\ record'[p] = Bind(record[p], s, [name |-> m, verb |-> v])
      /\ glob'[p] = Bind(glob[p], v, keys)
  BY <1>1, <1>2
<1>4. ~ m > 0
  BY <1>1, <1>2
<1>5. /\ DOMAIN slotOf'[p] = DOMAIN slotOf[p] \cup {m}
      /\ \A n \in DOMAIN slotOf[p] : n # m => slotOf'[p][n] = slotOf[p][n]
      /\ \A t \in DOMAIN record[p] : t # s => record'[p][t] = record[p][t]
      /\ \A w \in DOMAIN glob[p] : w # v => w \in DOMAIN glob'[p] /\ glob'[p][w] = glob[p][w]
  BY <1>3 DEF Bind
<1>6. ASSUME NEW n \in DOMAIN slotOf'[p], n > 0
      PROVE  n \in DOMAIN slotOf[p] /\ Verb(p, n)' = Verb(p, n)
  <2>1. n \in DOMAIN slotOf[p] /\ slotOf'[p][n] = slotOf[p][n]
    BY <1>4, <1>5, <1>6
  <2>2. slotOf[p][n] # s /\ slotOf[p][n] \in DOMAIN record[p]
    BY <1>2, <2>1, VerbKnown
  <2> QED BY <1>5, <2>1, <2>2 DEF Verb
<1>7. ASSUME NEW n \in DOMAIN slotOf[p], Verb(p, n) # NoSlot, Verb(p, n) \in DOMAIN glob[p]
      PROVE  Verb(p, n) \in DOMAIN glob'[p] /\ glob'[p][Verb(p, n)] = glob[p][Verb(p, n)]
  BY <1>2, <1>5, <1>7, VerbKnown
<1> QED BY <1>6, <1>7, KeysStay

LEMMA RemovalKeys ==
  ASSUME IInv, NEW p \in Procs, KeysKept(p), removeGlobal(p) \/ removeLocal(p)
  PROVE  KeysKept(p)'
<1>1. PICK m \in DOMAIN slotOf[p] : remove(p, m)
  BY DEF removeGlobal, removeLocal
<1>2. slotOf' = [slotOf EXCEPT ![p] = Unbind(@, m)] /\ UNCHANGED <<record, glob>>
  BY <1>1 DEF remove
<1>3. slotOf'[p] = Unbind(slotOf[p], m)
  BY <1>2 DEF IInv, TypeOK, ProgramType
<1>4. \A n \in DOMAIN slotOf'[p] : n \in DOMAIN slotOf[p] /\ slotOf'[p][n] = slotOf[p][n]
  BY <1>3 DEF Unbind, Restrict
<1>5. \A n \in DOMAIN slotOf'[p] : n \in DOMAIN slotOf[p] /\ Verb(p, n)' = Verb(p, n)
  BY <1>2, <1>4 DEF Verb
<1> QED BY <1>2, <1>5, KeysStay

LEMMA AgreedKeys ==
  ASSUME IInv, NEW p \in Procs, KeysKept(p), Agreed(p)
  PROVE  KeysKept(p)' /\ Gathering(p)'
<1>1. /\ UNCHANGED <<slotOf, record, next, m_added>> /\ at \in [Procs -> Places]
      /\ id \in [Procs -> Nat \cup {NoSlot}] /\ calls \in [Procs -> Seq(CallRecords)]
      /\ DOMAIN glob = Procs
  BY DEF Agreed, programVars, tableVars, IInv, TypeOK, CallsType, SyncType, VerbsType
<1>2. \A n \in DOMAIN slotOf'[p] : n \in DOMAIN slotOf[p] /\ Verb(p, n)' = Verb(p, n)
  BY <1>1 DEF Verb
<1>5. at[p] = "agree"
  BY DEF Agreed
<1>3. CASE at' = [at EXCEPT ![p] = "threw"] /\ glob' = glob
  <2>1. Gathering(p)'
    BY <1>1, <1>3 DEF Gathering
  <2> QED BY <1>2, <1>3, <2>1, KeysStay
<1>4. CASE /\ id' = [id EXCEPT ![p] = toGlobal(NewSlot(verbs[p].global))]
           /\ glob' = [glob EXCEPT ![p] = Bind(@, id'[p], [q \in Procs |-> NoKey])]
           /\ Enter(p, [op |-> "allgather", key |-> Current(p)])
  <2>1. PICK v, keys : v = id'[p] /\ keys = [q \in Procs |-> NoKey]
    OBVIOUS
  <2>2. v = toGlobal(NewSlot(verbs[p].global)) /\ glob'[p] = Bind(glob[p], v, keys)
    BY <1>1, <1>4, <2>1
  <2>3. v \notin Verbs(p)
    BY <2>2, FreshSlots
  <2>4. /\ v \in DOMAIN glob'[p]
        /\ \A w \in DOMAIN glob[p] : w # v => w \in DOMAIN glob'[p] /\ glob'[p][w] = glob[p][w]
    BY <2>2 DEF Bind
  <2>5. ASSUME NEW n \in DOMAIN slotOf[p], Verb(p, n) # NoSlot, Verb(p, n) \in DOMAIN glob[p]
        PROVE  Verb(p, n) \in DOMAIN glob'[p] /\ glob'[p][Verb(p, n)] = glob[p][Verb(p, n)]
    BY <2>3, <2>4, <2>5, VerbKnown
  <2>6. KeysKept(p)'
    BY <1>2, <2>5, KeysStay
  <2>7. PICK c : c = [op |-> "allgather", key |-> Current(p)]
    OBVIOUS
  <2>8. calls'[p] = Append(calls[p], c) /\ c.op = "allgather" /\ c.key = Current(p)
    BY <1>1, <1>4, <2>7 DEF Enter
  <2>9. calls'[p] # <<>> /\ calls'[p][LastCall(p)'] = c
    <3>1. m_added[p][next[p]] \in InUse(p)
      BY <1>5 DEF IInv, AddedKept
    <3>2. \A s \in InUse(p) : s \in DOMAIN record[p] /\ record[p][s].name \in Int
      BY DEF IInv, TypeOK, TableKept, InUse, TableType, Records
    <3>3. c \in CallRecords
      BY <2>7, <3>1, <3>2 DEF Current, CallRecords
    <3>4. calls[p] \in Seq(CallRecords) /\ calls'[p] = Append(calls[p], c)
      BY <1>1, <2>8
    <3>5. /\ Len(calls[p]) \in Nat /\ Len(calls'[p]) = Len(calls[p]) + 1
          /\ calls'[p][Len(calls[p]) + 1] = c
      BY <3>3, <3>4
    <3>6. LastCall(p)' = Len(calls[p]) + 1
      BY <3>5 DEF LastCall
    <3>7. calls'[p] # <<>>
      BY <3>5
    <3> QED BY <3>5, <3>6, <3>7
  <2>10. Current(p)' = Current(p)
    BY <1>1 DEF Current
  <2>11. Gathering(p)'
    BY <2>1, <2>4, <2>8, <2>9, <2>10 DEF Gathering
  <2> QED BY <2>6, <2>11
<1> QED BY <1>3, <1>4 DEF Agreed, verbsVars

\* The keys that p gathers are those of the registration it has reached.
LEMMA KeysGathered ==
  ASSUME IInv, AgendaInv, NEW p \in Procs, Gathering(p), Gathered(p)
  PROVE  [q \in Procs |-> Contributions(p)[q].key] = [q \in Procs |-> Current(p)]
<1> SUFFICES ASSUME NEW q \in Procs PROVE Contributions(p)[q].key = Current(p)
  OBVIOUS
<1>1. /\ calls[p] # <<>> /\ calls[p][LastCall(p)].op = "allgather"
      /\ calls[p][LastCall(p)].key = Current(p) /\ Completed(p)
  BY DEF Gathering, Gathered
<1>2. calls[p] \in Seq(CallRecords) /\ calls[q] \in Seq(CallRecords)
  BY DEF IInv, TypeOK, CallsType
<1>3. PICK j : j = LastCall(p)
  OBVIOUS
<1>4. j \in 1..LastCall(p) /\ j \in 1..LastCall(q)
  <2>1. j \in Nat /\ j # 0
    BY <1>1, <1>2, <1>3 DEF LastCall
  <2>2. j <= Len(calls[q]) /\ Len(calls[q]) \in Nat
    BY <1>1, <1>2, <1>3 DEF Completed
  <2> QED BY <1>3, <2>1, <2>2 DEF LastCall
<1>5. calls[p][j].key = calls[q][j].key
  BY <1>1, <1>3, <1>4, SameCall
<1>6. Contributions(p)[q] = calls[q][j]
  BY <1>3 DEF Contributions
<1> QED BY <1>1, <1>3, <1>5, <1>6

LEMMA GatheredKeys ==
  ASSUME IInv, AgendaInv, NEW p \in Procs, Gathering(p), KeysKept(p), Gathered(p)
  PROVE  KeysKept(p)' /\ Gathering(p)'
<1>1. PICK s, v, keys :
        /\ s = m_added[p][next[p]] /\ v = id[p] /\ keys = [q \in Procs |-> Current(p)]
  OBVIOUS
<1>2. /\ glob'   = [glob EXCEPT ![p][v] = keys]
      /\ record' = [record EXCEPT ![p][s].verb = v]
      /\ UNCHANGED slotOf /\ at[p] = "gather"
  BY <1>1, KeysGathered DEF Gathered, programVars
<1>3. /\ DOMAIN glob = Procs /\ DOMAIN record = Procs /\ at \in [Procs -> Places]
      /\ v \in DOMAIN glob[p] /\ v \notin Verbs(p)
  BY <1>1, <1>2 DEF IInv, TypeOK, TableType, VerbsType, SyncType, EngineKept, Gathering
<1>4. s \in InUse(p) /\ s \in DOMAIN record[p] /\ record[p][s] \in Records
  <2>1. s \in InUse(p)
    BY <1>1, <1>2 DEF IInv, AddedKept
  <2>2. s \in DOMAIN record[p]
    BY <2>1 DEF IInv, TableKept, InUse
  <2> QED BY <2>1, <2>2 DEF IInv, TypeOK, TableType
<1>5. /\ glob'[p] = [glob[p] EXCEPT ![v] = keys]
      /\ record'[p] = [record[p] EXCEPT ![s].verb = v]
  BY <1>2, <1>3
<1>6. /\ v \in DOMAIN glob'[p] /\ glob'[p][v] = keys
      /\ \A w \in DOMAIN glob[p] : w # v => w \in DOMAIN glob'[p] /\ glob'[p][w] = glob[p][w]
  BY <1>3, <1>5
<1>7. /\ record'[p][s].verb = v
      /\ \A t \in DOMAIN record[p] : t # s => record'[p][t] = record[p][t]
  BY <1>4, <1>5 DEF Records
<1>8. ASSUME NEW n \in DOMAIN slotOf'[p], n > 0, Verb(p, n)' # NoSlot
      PROVE  /\ Verb(p, n)' \in DOMAIN glob'[p]
             /\ glob'[p][Verb(p, n)'] = [q \in Procs |-> n]
  <2>1. n \in DOMAIN slotOf[p] /\ slotOf'[p][n] = slotOf[p][n]
    BY <1>2
  <2>2. slotOf[p][n] \in DOMAIN record[p] /\ record[p][slotOf[p][n]].name = n
    BY <2>1 DEF IInv, TableKept
  <2>3. CASE slotOf[p][n] = s
    <3>1. Current(p) = n
      BY <1>1, <2>2, <2>3 DEF Current
    <3>2. Verb(p, n)' = v
      BY <1>7, <2>1, <2>3 DEF Verb
    <3> QED BY <1>1, <1>6, <3>1, <3>2
  <2>4. CASE slotOf[p][n] # s
    <3>1. Verb(p, n)' = Verb(p, n)
      BY <1>7, <2>1, <2>2, <2>4 DEF Verb
    <3>2. Verb(p, n) \in Verbs(p)
      BY <1>8, <2>1, <3>1, VerbKnown
    <3>3. Verb(p, n) \in DOMAIN glob[p] /\ glob[p][Verb(p, n)] = [q \in Procs |-> n]
      BY <1>8, <2>1, <3>1 DEF KeysKept
    <3> QED BY <1>3, <1>6, <3>1, <3>2, <3>3
  <2> QED BY <2>3, <2>4
<1>9. KeysKept(p)'
  BY <1>8 DEF KeysKept
<1>10. at'[p] # "gather"
  BY <1>3 DEF Gathered, regGlobal
<1> QED BY <1>9, <1>10 DEF Gathering

\* The steps that neither add nor exchange a registration.
LEMMA OtherKeys ==
  ASSUME IInv, NEW p \in Procs, KeysKept(p),
         \/ resizeMemreg(p) \/ sync(p) \/ abort(p)
         \/ Failing(p) \/ Fenced(p) \/ Voted(p)
  PROVE  KeysKept(p)'
<1>1. UNCHANGED <<slotOf, record, glob>>
  BY DEF resizeMemreg, sync, abort, SyncStart, Failing, Fenced, Voted, programVars,
     tableVars, verbsVars
<1>2. \A n \in DOMAIN slotOf'[p] : n \in DOMAIN slotOf[p] /\ Verb(p, n)' = Verb(p, n)
  BY <1>1 DEF Verb
<1> QED BY <1>1, <1>2, KeysStay

LEMMA NotGathering ==
  ASSUME IInv, NEW p \in Procs, Program(p) \/ Failing(p) \/ Fenced(p) \/ Voted(p)
  PROVE  Gathering(p)'
<1>1. at \in [Procs -> Places]
  BY DEF IInv, TypeOK, SyncType
<1>2. CASE addGlobal(p) \/ removeGlobal(p) \/ addLocal(p) \/ removeLocal(p) \/ resizeMemreg(p)
  BY <1>2 DEF addGlobal, removeGlobal, addLocal, removeLocal, resizeMemreg, remove,
     Collective, syncVars, Gathering
<1>3. CASE sync(p) \/ abort(p)
  BY <1>1, <1>3 DEF sync, abort, SyncStart, regGlobal, SyncEngine, Gathering
<1>4. CASE Failing(p) \/ Voted(p)
  BY <1>1, <1>4 DEF Failing, Voted, Gathering
<1>5. CASE Fenced(p)
  BY <1>1, <1>5 DEF Fenced, SyncEngine, Gathering
<1> QED BY <1>2, <1>3, <1>4, <1>5 DEF Program

LEMMA KeysStep ==
  ASSUME IInv, AgendaInv, KeysInv, [Next]_vars
  PROVE  KeysInv'
<1>1. CASE UNCHANGED vars
  BY <1>1 DEF KeysInv, Gathering, KeysKept, Verb, Current, LastCall, vars, programVars,
     tableVars, verbsVars, syncVars
<1>2. ASSUME NEW p \in Procs, Program(p) \/ Sync(p), NEW q \in Procs
      PROVE  Gathering(q)' /\ KeysKept(q)'
  <2>1. Gathering(q) /\ KeysKept(q)
    BY DEF KeysInv
  <2>2. CASE q # p
    <3>1. Undisturbed(q)
      BY <1>2, <2>2, OthersUndisturbed
    <3>2. Current(q)' = Current(q) /\ LastCall(q)' = LastCall(q)
      BY <3>1 DEF Undisturbed, Current, LastCall
    <3>3. Gathering(q)'
      BY <2>1, <3>1, <3>2 DEF Undisturbed, Gathering
    <3>4. KeysKept(q)'
      <4>1. slotOf'[q] = slotOf[q] /\ record'[q] = record[q] /\ glob'[q] = glob[q]
        BY <3>1 DEF Undisturbed
      <4>2. \A n \in DOMAIN slotOf'[q] : n \in DOMAIN slotOf[q] /\ Verb(q, n)' = Verb(q, n)
        BY <4>1 DEF Verb
      <4> QED BY <2>1, <4>1, <4>2, KeysStay
    <3> QED BY <3>3, <3>4
  <2>3. CASE q = p
    <3>1. CASE Program(p)
      <4>1. Gathering(p)'
        BY <3>1, NotGathering
      <4>2. CASE addGlobal(p)
        BY <2>1, <2>3, <4>1, <4>2, AddGlobalKeys
      <4>3. CASE removeGlobal(p) \/ removeLocal(p)
        BY <2>1, <2>3, <4>1, <4>3, RemovalKeys
      <4>4. CASE addLocal(p)
        BY <2>1, <2>3, <4>1, <4>4, AddLocalKeys
      <4>5. CASE resizeMemreg(p) \/ sync(p) \/ abort(p)
        BY <2>1, <2>3, <4>1, <4>5, OtherKeys
      <4> QED BY <3>1, <4>2, <4>3, <4>4, <4>5 DEF Program
    <3>2. CASE Agreed(p)
      BY <2>1, <2>3, <3>2, AgreedKeys
    <3>3. CASE Gathered(p)
      BY <2>1, <2>3, <3>3, GatheredKeys
    <3>4. CASE Failing(p) \/ Fenced(p) \/ Voted(p)
      BY <2>1, <2>3, <3>4, NotGathering, OtherKeys
    <3> QED BY <1>2, <3>1, <3>2, <3>3, <3>4 DEF Sync
  <2> QED BY <2>2, <2>3
<1> QED BY <1>1, <1>2 DEF Next, KeysInv

\* As long as nobody returns early, what a process finds under its slot of the
\* engine for a global registration are the keys of that registration, whichever
\* slots the other processes have for it.
THEOREM KeysBelongTogether ==
  ASSUME Quitters = {}
  PROVE  Spec => []KeysOfTheSameRegistration
<1>1. Init => KeysInv
  BY DEF Init, KeysInv, Gathering, KeysKept
<1>2. IInv /\ AgendaInv /\ KeysInv /\ [Next]_vars => KeysInv'
  BY KeysStep
<1>3. KeysInv => KeysOfTheSameRegistration
  BY DEF KeysInv, KeysKept, Verb, KeysOfTheSameRegistration
<1> QED BY <1>1, <1>2, <1>3, ListsAgree, RegistrationInvariant, PTL DEF Spec

----------------------------------------------------------------------------
(* Room.  The program registers no more than was granted to every process,  *)
(* a process that replays the registration later has the same slots in hand *)
(* as the first that made it, and the engine has at most one slot for each  *)
(* slot of the table.                                                       *)

\* The program still holds what p has a slot for.
StillHeld(p) ==
  \A n \in DOMAIN slotOf[p] : n > 0 =>
    /\ n \in 1..pos[p] /\ history[n].do = "register"
    /\ \A j \in 1..pos[p] : ~ (history[j].do = "deregister" /\ history[j].name = n)

\* The engine registers under a global slot what is global in the table.
Sided(p) ==
  /\ \A i \in DOMAIN m_added[p] : ~ isLocalSlot(m_added[p][i])
  /\ at[p] = "gather" => ~ isLocalSlot(id[p])
  /\ \A s \in InUse(p) :
       record[p][s].verb # NoSlot => (isLocalSlot(record[p][s].verb) <=> isLocalSlot(s))

\* The registers of p are as large as its capacity, of which one slot is free.
Sized(p) ==
  /\ Holds(m_memreg[p].global, m_capacity[p]) /\ Holds(m_memreg[p].local, m_capacity[p])
  /\ Covers(verbs[p].global, m_capacity[p]) /\ Covers(verbs[p].local, m_capacity[p])

\* At each registration of the program, every process has been granted more than
\* is in hand.
Ample ==
  \A k \in DOMAIN history : history[k].do = "register" =>
    \A q \in Procs : Cardinality(InHand(trace[k])) < Granted(q)

RoomInv == Ample /\ \A p \in Procs : StillHeld(p) /\ Sided(p) /\ Sized(p)

\* A set whose elements all come from those of a finite set is no larger.
LEMMA NoMore ==
  ASSUME NEW S, IsFiniteSet(S), NEW T, NEW f, \A t \in T : \E s \in S : f[s] = t
  PROVE  IsFiniteSet(T) /\ Cardinality(T) <= Cardinality(S)
<1>1. PICK S2 : S2 = {s \in S : f[s] \in T}
  OBVIOUS
<1>2. IsFiniteSet(S2) /\ Cardinality(S2) <= Cardinality(S)
  BY <1>1, FS_Subset
<1>3. PICK g : g = [s \in S2 |-> f[s]]
  OBVIOUS
<1>4. g \in Surjection(S2, T)
  BY <1>1, <1>3 DEF Surjection
<1>5. IsFiniteSet(T) /\ Cardinality(T) <= Cardinality(S2)
  BY <1>2, <1>4, FS_Surjection
<1>6. /\ Cardinality(T) \in Nat /\ Cardinality(S2) \in Nat /\ Cardinality(S) \in Nat
  BY <1>2, <1>5, FS_CardinalityType
<1> QED BY <1>2, <1>5, <1>6

LEMMA RegisterTypes ==
  ASSUME IInv, NEW p \in Procs
  PROVE  /\ m_memreg[p] \in CombinedRegisters /\ verbs[p] \in CombinedRegisters
         /\ m_memreg[p].global \in Registers /\ m_memreg[p].local \in Registers
         /\ verbs[p].global \in Registers /\ verbs[p].local \in Registers
         /\ WellFormed(m_memreg[p].global) /\ WellFormed(m_memreg[p].local)
         /\ WellFormed(verbs[p].global) /\ WellFormed(verbs[p].local)
         /\ m_capacity[p] \in Nat /\ Granted(p) = m_capacity[p] - 1
         /\ InHand(m_memreg[p].global) \subseteq Nat /\ InHand(m_memreg[p].local) \subseteq Nat
         /\ InHand(verbs[p].global) \subseteq Nat /\ InHand(verbs[p].local) \subseteq Nat
<1>1. m_memreg[p] \in CombinedRegisters /\ verbs[p] \in CombinedRegisters /\ m_capacity[p] \in Nat
  BY DEF IInv, TypeOK, TableType, VerbsType
<1>2. /\ m_memreg[p].global \in Registers /\ m_memreg[p].local \in Registers
      /\ verbs[p].global \in Registers /\ verbs[p].local \in Registers
  BY <1>1 DEF CombinedRegisters
<1>3. BothWellFormed(m_memreg[p]) /\ BothWellFormed(verbs[p])
  BY DEF IInv, TableKept, EngineKept
<1>4. Granted(p) = m_capacity[p] - 1
  BY DEF Granted
<1>5. /\ InHand(m_memreg[p].global) \subseteq Nat /\ InHand(m_memreg[p].local) \subseteq Nat
      /\ InHand(verbs[p].global) \subseteq Nat /\ InHand(verbs[p].local) \subseteq Nat
  BY <1>2, InHandType
<1> QED BY <1>1, <1>2, <1>3, <1>4, <1>5 DEF BothWellFormed

\* A slot in hand is that of a registration of its kind.
LEMMA NamesInHand ==
  ASSUME IInv, NEW p \in Procs
  PROVE  /\ \A t \in InHand(m_memreg[p].global) :
              \E n \in DOMAIN slotOf[p] : n \in 1..pos[p] /\ slotOf[p][n] = toGlobal(t)
         /\ \A t \in InHand(m_memreg[p].local) :
              \E n \in DOMAIN slotOf[p] : n < 0 /\ slotOf[p][n] = toLocal(t)
<1>1. SlotsInHand(m_memreg[p]) = InUse(p) /\ NamesKept(p)
  BY DEF IInv, TableKept
<1>2. ASSUME NEW t \in InHand(m_memreg[p].global)
      PROVE  \E n \in DOMAIN slotOf[p] : n \in 1..pos[p] /\ slotOf[p][n] = toGlobal(t)
  <2>1. toGlobal(t) \in InUse(p) /\ ~ isLocalSlot(toGlobal(t))
    BY <1>1, RegisterTypes, Parity DEF SlotsInHand
  <2>2. PICK n \in DOMAIN slotOf[p] : slotOf[p][n] = toGlobal(t)
    BY <2>1 DEF InUse
  <2> QED BY <1>1, <2>1, <2>2 DEF NamesKept
<1>3. ASSUME NEW t \in InHand(m_memreg[p].local)
      PROVE  \E n \in DOMAIN slotOf[p] : n < 0 /\ slotOf[p][n] = toLocal(t)
  <2>1. toLocal(t) \in InUse(p) /\ isLocalSlot(toLocal(t))
    BY <1>1, RegisterTypes, Parity DEF SlotsInHand
  <2>2. PICK n \in DOMAIN slotOf[p] : slotOf[p][n] = toLocal(t)
    BY <2>1 DEF InUse
  <2>3. ~ n \in 1..pos[p]
    <3> SUFFICES ASSUME n \in 1..pos[p], slotOf[p][n] = toGlobal(NewSlot(trace[n])) PROVE FALSE
      BY <1>1 DEF NamesKept
    <3>1. ~ isLocalSlot(slotOf[p][n])
      <4>1. n \in 1..Len(trace)
        BY DEF IInv, TypeOK, ProgramType, InStep, TraceKept
      <4>2. trace \in Seq([free : Seq(Nat), min : Nat])
        BY DEF IInv, TypeOK, ProgramType
      <4>4. trace[n] \in [free : Seq(Nat), min : Nat]
        BY <4>1, <4>2, ElementOfSeq
      <4>3. NewSlot(trace[n]) \in Nat
        BY <4>4 DEF NewSlot
      <4> QED BY <4>3, Parity
    <3> QED BY <2>1, <2>2, <3>1
  <2> QED BY <1>1, <2>2, <2>3 DEF NamesKept
<1> QED BY <1>2, <1>3

\* The engine has no more slots in hand than the table.
LEMMA EngineRoom ==
  ASSUME IInv, NEW p \in Procs, Sided(p)
  PROVE  /\ at[p] # "gather" =>
              Cardinality(InHand(verbs[p].global)) <= Cardinality(InHand(m_memreg[p].global))
         /\ Cardinality(InHand(verbs[p].local)) <= Cardinality(InHand(m_memreg[p].local))
<1>1. /\ SlotsInHand(m_memreg[p]) = InUse(p)
      /\ SlotsInHand(verbs[p]) = Verbs(p) \cup Pending(p)
  BY DEF IInv, TableKept, EngineKept
<1>2. ASSUME NEW v \in Verbs(p)
      PROVE  \E s \in InUse(p) : record[p][s].verb = v /\ (isLocalSlot(v) <=> isLocalSlot(s))
  BY DEF Verbs, Sided
<1>3. ASSUME NEW s \in InUse(p)
      PROVE  /\ isLocalSlot(s)   => \E t \in InHand(m_memreg[p].local) : s = toLocal(t)
             /\ ~ isLocalSlot(s) => \E t \in InHand(m_memreg[p].global) : s = toGlobal(t)
  BY <1>1, RegisterTypes, Parity DEF SlotsInHand
<1>4. ASSUME at[p] # "gather"
      PROVE  Cardinality(InHand(verbs[p].global)) <= Cardinality(InHand(m_memreg[p].global))
  <2>1. PICK f : f = [t \in InHand(m_memreg[p].global) |-> record[p][toGlobal(t)].verb \div 2]
    OBVIOUS
  <2>2. ASSUME NEW v \in InHand(verbs[p].global)
        PROVE  \E t \in InHand(m_memreg[p].global) : f[t] = v
    <3>1. /\ toGlobal(v) \in Verbs(p) /\ ~ isLocalSlot(toGlobal(v)) /\ toGlobal(v) \div 2 = v
      BY <1>1, <1>4, RegisterTypes, Parity DEF SlotsInHand, Pending
    <3>2. PICK s \in InUse(p) : record[p][s].verb = toGlobal(v) /\ ~ isLocalSlot(s)
      BY <1>2, <3>1
    <3>3. PICK t \in InHand(m_memreg[p].global) : s = toGlobal(t)
      BY <1>3, <3>2
    <3>4. f[t] = v
      BY <2>1, <3>1, <3>2, <3>3
    <3> QED BY <3>4
  <2>3. IsFiniteSet(InHand(m_memreg[p].global))
    BY RegisterTypes, InHandFinite DEF Registers
  <2> QED BY <2>2, <2>3, NoMore
<1>5. Cardinality(InHand(verbs[p].local)) <= Cardinality(InHand(m_memreg[p].local))
  <2>1. PICK f : f = [t \in InHand(m_memreg[p].local) |-> (record[p][toLocal(t)].verb - 1) \div 2]
    OBVIOUS
  <2>2. ASSUME NEW v \in InHand(verbs[p].local)
        PROVE  \E t \in InHand(m_memreg[p].local) : f[t] = v
    <3>0. /\ toLocal(v) \in SlotsInHand(verbs[p]) /\ isLocalSlot(toLocal(v))
          /\ (toLocal(v) - 1) \div 2 = v
      BY RegisterTypes, Parity DEF SlotsInHand
    <3>1. toLocal(v) \in Verbs(p)
      BY <1>1, <3>0 DEF Pending, Sided
    <3>2. PICK s \in InUse(p) : record[p][s].verb = toLocal(v) /\ isLocalSlot(s)
      BY <1>2, <3>0, <3>1
    <3>3. PICK t \in InHand(m_memreg[p].local) : s = toLocal(t)
      BY <1>3, <3>2
    <3>4. f[t] = v
      BY <2>1, <3>0, <3>2, <3>3
    <3> QED BY <3>4
  <2>3. IsFiniteSet(InHand(m_memreg[p].local))
    BY RegisterTypes, InHandFinite DEF Registers
  <2> QED BY <2>2, <2>3, NoMore
<1> QED BY <1>4, <1>5

LEMMA InHandDealt ==
  ASSUME NEW reg
  PROVE  InHand(Dealt(reg)) = InHand(reg)
BY DEF InHand, Dealt

\* What add() of a global registration may rely on.
LEMMA RoomToRegister ==
  ASSUME IInv, Ample, NEW p \in Procs, StillHeld(p), addGlobal(p)
  PROVE  /\ Cardinality(InHand(m_memreg[p].global)) < Granted(p)
         /\ pos[p] = Len(history) =>
              \A q \in Procs : Cardinality(InHand(m_memreg[p].global)) < Granted(q)
<1>1. /\ history \in Seq(ProgramCalls) /\ Len(history) \in Nat /\ pos[p] \in Nat
      /\ pos[p] <= Len(history) /\ Dealt(m_memreg[p].global) = trace[pos[p] + 1]
  BY DEF IInv, TypeOK, ProgramType, InStep
<1>2. Cardinality(InHand(m_memreg[p].global)) \in Nat
  BY RegisterTypes, InHandFinite DEF Registers
<1>3. ASSUME pos[p] = Len(history), NEW q \in Procs
      PROVE  Cardinality(InHand(m_memreg[p].global)) < Granted(q)
  <2>1. Cardinality(Held) < Granted(q)
    BY <1>3 DEF addGlobal
  <2>2. Held \in SUBSET (1..Len(history))
    BY <1>1 DEF Held
  <2>3. IsFiniteSet(1..Len(history))
    <3>1. 1 \in Int /\ Len(history) \in Int
      BY <1>1
    <3> QED BY <3>1, FS_Interval
  <2>4. IsFiniteSet(Held) /\ Cardinality(Held) \in Nat
    BY <2>2, <2>3, FS_Subset, FS_CardinalityType
  <2>5. PICK f : f = [n \in Held |-> slotOf[p][n] \div 2]
    OBVIOUS
  <2>6. ASSUME NEW t \in InHand(m_memreg[p].global)
        PROVE  \E n \in Held : f[n] = t
    <3>1. PICK n \in DOMAIN slotOf[p] : n \in 1..pos[p] /\ slotOf[p][n] = toGlobal(t)
      BY NamesInHand
    <3>2. n > 0
      BY <3>1
    <3>3. /\ history[n].do = "register"
          /\ \A j \in 1..pos[p] : ~ (history[j].do = "deregister" /\ history[j].name = n)
      BY <3>2 DEF StillHeld
    <3>4. DOMAIN history = 1..pos[p]
      BY <1>1, <1>3
    <3>5. n \in Held
      BY <3>1, <3>3, <3>4 DEF Held
    <3>6. toGlobal(t) \div 2 = t
      BY RegisterTypes, Parity
    <3> QED BY <2>5, <3>1, <3>5, <3>6
  <2>7. Cardinality(InHand(m_memreg[p].global)) <= Cardinality(Held)
    BY <2>4, <2>6, NoMore
  <2> QED BY <1>2, <2>1, <2>4, <2>7, RegisterTypes
<1>4. ASSUME pos[p] # Len(history)
      PROVE  Cardinality(InHand(m_memreg[p].global)) < Granted(p)
  <2>1. pos[p] + 1 \in DOMAIN history
    BY <1>1, <1>4
  <2>2. history[pos[p] + 1].do = "register"
    BY <1>4 DEF addGlobal, Collective
  <2>3. Cardinality(InHand(trace[pos[p] + 1])) < Granted(p)
    BY <2>1, <2>2 DEF Ample
  <2> QED BY <1>1, <2>3, InHandDealt
<1> QED BY <1>3, <1>4

LEMMA RoomForLocal ==
  ASSUME IInv, NEW p \in Procs, addLocal(p)
  PROVE  Cardinality(InHand(m_memreg[p].local)) < Granted(p)
<1>1. PICK S : S = {n \in DOMAIN slotOf[p] : n < 0}
  OBVIOUS
<1>2. Cardinality(S) < Granted(p)
  BY <1>1 DEF addLocal
<1>3. IsFiniteSet(S) /\ Cardinality(S) \in Nat
  <2>1. PICK a \in Int : a = 0 - locals[p]
    BY DEF IInv, TypeOK, ProgramType
  <2>2. DOMAIN slotOf[p] \subseteq Int /\ NamesKept(p) /\ pos[p] \in Nat
    BY DEF IInv, TypeOK, ProgramType
  <2>3. S \in SUBSET (a..0)
    BY <1>1, <2>1, <2>2 DEF NamesKept
  <2>4. IsFiniteSet(a..0)
    BY FS_Interval
  <2> QED BY <2>3, <2>4, FS_Subset, FS_CardinalityType
<1>4. PICK f : f = [n \in S |-> (slotOf[p][n] - 1) \div 2]
  OBVIOUS
<1>5. ASSUME NEW t \in InHand(m_memreg[p].local)
      PROVE  \E n \in S : f[n] = t
  <2>1. PICK n \in DOMAIN slotOf[p] : n < 0 /\ slotOf[p][n] = toLocal(t)
    BY NamesInHand
  <2>2. (toLocal(t) - 1) \div 2 = t
    BY RegisterTypes, Parity
  <2> QED BY <1>1, <1>4, <2>1, <2>2
<1>6. Cardinality(InHand(m_memreg[p].local)) <= Cardinality(S)
  BY <1>3, <1>5, NoMore
<1>7. Cardinality(InHand(m_memreg[p].local)) \in Nat
  BY RegisterTypes, InHandFinite DEF Registers
<1> QED BY <1>2, <1>3, <1>6, <1>7, RegisterTypes

----------------------------------------------------------------------------
(* The registers of the process that takes a step *)

LEMMA SizedSame ==
  ASSUME NEW p \in Procs, Sized(p),
         m_memreg'[p] = m_memreg[p], verbs'[p] = verbs[p], m_capacity'[p] = m_capacity[p]
  PROVE  Sized(p)'
BY DEF Sized

LEMMA AddGlobalSized ==
  ASSUME IInv, Ample, NEW p \in Procs, StillHeld(p), Sized(p), addGlobal(p)
  PROVE  Sized(p)'
<1>1. /\ m_memreg' = [m_memreg EXCEPT ![p].global = Add(@)]
      /\ UNCHANGED <<m_capacity, verbs>>
  BY DEF addGlobal, verbsVars
<1>2. m_memreg'[p].global = Add(m_memreg[p].global) /\ m_memreg'[p].local = m_memreg[p].local
  BY <1>1 DEF IInv, TypeOK, TableType, CombinedRegisters
<1>3. Holds(Add(m_memreg[p].global), m_capacity[p])
  <2>1. Cardinality(InHand(m_memreg[p].global)) < m_capacity[p] - 1
    BY RoomToRegister, RegisterTypes
  <2>2. Covers(m_memreg[p].global, m_capacity[p])
    BY DEF Sized, Holds
  <2> QED BY <2>1, <2>2, RegisterTypes, AddHolds
<1> QED BY <1>1, <1>2, <1>3 DEF Sized

LEMMA AddLocalSized ==
  ASSUME IInv, NEW p \in Procs, Sided(p), Sized(p), addLocal(p)
  PROVE  Sized(p)'
<1>1. /\ m_memreg' = [m_memreg EXCEPT ![p].local = Add(@)]
      /\ verbs' = [verbs EXCEPT ![p].local = Add(@)] /\ UNCHANGED m_capacity
  BY DEF addLocal
<1>2. /\ m_memreg'[p].local = Add(m_memreg[p].local) /\ m_memreg'[p].global = m_memreg[p].global
      /\ verbs'[p].local = Add(verbs[p].local) /\ verbs'[p].global = verbs[p].global
  BY <1>1 DEF IInv, TypeOK, TableType, VerbsType, CombinedRegisters
<1>3. Cardinality(InHand(m_memreg[p].local)) < m_capacity[p] - 1
  BY RoomForLocal, RegisterTypes
<1>4. Holds(Add(m_memreg[p].local), m_capacity[p])
  <2>1. Covers(m_memreg[p].local, m_capacity[p])
    BY DEF Sized, Holds
  <2> QED BY <1>3, <2>1, RegisterTypes, AddHolds
<1>5. Covers(Add(verbs[p].local), m_capacity[p])
  <2>1. Cardinality(InHand(verbs[p].local)) <= Cardinality(InHand(m_memreg[p].local))
    BY EngineRoom
  <2>2. /\ Cardinality(InHand(verbs[p].local)) \in Nat
        /\ Cardinality(InHand(m_memreg[p].local)) \in Nat
    BY RegisterTypes, InHandFinite DEF Registers
  <2>3. Cardinality(InHand(verbs[p].local)) < m_capacity[p]
    BY <1>3, <2>1, <2>2, RegisterTypes
  <2>4. Covers(verbs[p].local, m_capacity[p])
    BY DEF Sized
  <2> QED BY <2>3, <2>4, RegisterTypes, AddCovers
<1> QED BY <1>1, <1>2, <1>4, <1>5 DEF Sized

LEMMA AgreedSized ==
  ASSUME IInv, NEW p \in Procs, Sided(p), Sized(p), Agreed(p)
  PROVE  Sized(p)'
<1>1. /\ UNCHANGED <<m_memreg, m_capacity>> /\ at[p] = "agree"
      /\ verbs' = verbs \/ verbs' = [verbs EXCEPT ![p].global = Add(@)]
  BY DEF Agreed, AddVerb, verbsVars, tableVars
<1>2. CASE verbs' = verbs
  BY <1>1, <1>2 DEF Sized
<1>3. CASE verbs' = [verbs EXCEPT ![p].global = Add(@)]
  <2>1. verbs'[p].global = Add(verbs[p].global) /\ verbs'[p].local = verbs[p].local
    BY <1>3 DEF IInv, TypeOK, VerbsType, CombinedRegisters
  <2>2. Cardinality(InHand(verbs[p].global)) <= Cardinality(InHand(m_memreg[p].global))
    BY <1>1, EngineRoom
  <2>3. Cardinality(InHand(m_memreg[p].global)) < m_capacity[p]
    BY DEF Sized, Holds
  <2>4. /\ Cardinality(InHand(verbs[p].global)) \in Nat
        /\ Cardinality(InHand(m_memreg[p].global)) \in Nat
    BY RegisterTypes, InHandFinite DEF Registers
  <2>5. Cardinality(InHand(verbs[p].global)) < m_capacity[p]
    BY <2>2, <2>3, <2>4, RegisterTypes
  <2>6. Covers(verbs[p].global, m_capacity[p])
    BY DEF Sized
  <2>7. Covers(Add(verbs[p].global), m_capacity[p])
    BY <2>5, <2>6, RegisterTypes, AddCovers
  <2> QED BY <1>1, <2>1, <2>7 DEF Sized
<1> QED BY <1>1, <1>2, <1>3

\* reserve() may run out of memory between any two of its registers.
LEMMA ResizeSized ==
  ASSUME IInv, NEW p \in Procs, Sized(p), resizeMemreg(p)
  PROVE  Sized(p)' /\ \A q \in Procs : Granted(q) <= Granted(q)'
<1>1. PICK n \in Sizes, done \in 0..4 : m_capacity[p] < n + 1 /\ reserve(p, n + 1, done)
  BY DEF resizeMemreg
<1>2. PICK size \in Nat : size = n + 1 /\ m_capacity[p] <= size
  BY <1>1, RegisterTypes, BoundsAssumption
<1>3. /\ m_memreg' = [m_memreg EXCEPT
                       ![p].global = IF done >= 1 THEN Reserve(@, size) ELSE @,
                       ![p].local  = IF done >= 2 THEN Reserve(@, size) ELSE @]
      /\ verbs' = [verbs EXCEPT
                    ![p].global = IF done >= 3 THEN Reserve(@, size) ELSE @,
                    ![p].local  = IF done >= 4 THEN Reserve(@, size) ELSE @]
      /\ m_capacity' = [m_capacity EXCEPT ![p] = IF done = 4 THEN size ELSE @]
  BY <1>1, <1>2 DEF reserve, AllReserved
<1>4. PICK cap, g, l, v, w :
        /\ cap = m_capacity[p] /\ g = m_memreg[p].global /\ l = m_memreg[p].local
        /\ v = verbs[p].global /\ w = verbs[p].local
  OBVIOUS
<1>5. /\ m_memreg'[p].global = IF done >= 1 THEN Reserve(g, size) ELSE g
      /\ m_memreg'[p].local  = IF done >= 2 THEN Reserve(l, size) ELSE l
      /\ verbs'[p].global = IF done >= 3 THEN Reserve(v, size) ELSE v
      /\ verbs'[p].local  = IF done >= 4 THEN Reserve(w, size) ELSE w
  BY <1>3, <1>4 DEF IInv, TypeOK, TableType, VerbsType, CombinedRegisters
<1>6. /\ m_capacity \in [Procs -> Nat] /\ m_capacity'[p] = IF done = 4 THEN size ELSE cap
      /\ \A q \in Procs : q # p => m_capacity'[q] = m_capacity[q]
  BY <1>3, <1>4 DEF IInv, TypeOK, TableType
<1>7. /\ Holds(g, cap) /\ Holds(l, cap) /\ Covers(v, cap) /\ Covers(w, cap)
      /\ g \in Registers /\ l \in Registers /\ v \in Registers /\ w \in Registers
      /\ cap \in Nat /\ cap <= size
  BY <1>2, <1>4, RegisterTypes DEF Sized
<1>8. /\ Holds(Reserve(g, size), cap) /\ Holds(Reserve(g, size), size)
      /\ Holds(Reserve(l, size), cap) /\ Holds(Reserve(l, size), size)
      /\ Covers(Reserve(v, size), cap) /\ Covers(Reserve(v, size), size)
      /\ Covers(Reserve(w, size), cap) /\ Covers(Reserve(w, size), size)
  BY <1>7, ReserveHolds, ReserveCovers
<1>9. Sized(p)'
  <2>1. CASE done = 4
    BY <1>5, <1>6, <1>8, <2>1 DEF Sized
  <2>2. CASE done # 4
    BY <1>5, <1>6, <1>7, <1>8, <2>2 DEF Sized
  <2> QED BY <2>1, <2>2
<1>10. ASSUME NEW q \in Procs PROVE Granted(q) <= Granted(q)'
  <2>1. m_capacity[q] \in Nat /\ m_capacity'[q] \in Nat /\ m_capacity[q] <= m_capacity'[q]
    <3>1. CASE q = p
      BY <1>4, <1>6, <1>7, <3>1
    <3>2. CASE q # p
      BY <1>6, <3>2
    <3> QED BY <3>1, <3>2
  <2> QED BY <2>1 DEF Granted
<1> QED BY <1>9, <1>10

LEMMA RemovalSized ==
  ASSUME IInv, NEW p \in Procs, Sized(p), removeGlobal(p) \/ removeLocal(p)
  PROVE  Sized(p)'
<1>1. at[p] = "user"
  BY DEF removeGlobal, removeLocal, Collective
<1>2. PICK name \in DOMAIN slotOf[p] : remove(p, name)
  BY DEF removeGlobal, removeLocal
<1>3. PICK slot : slot = slotOf[p][name]
  OBVIOUS
<1>4. m_memreg'[p] = removeReg(m_memreg[p], slot) /\ slot \in SlotsInHand(m_memreg[p])
  BY <1>1, <1>2, <1>3, Removal
<1>5. RemoveBelow(p, slot) /\ m_capacity' = m_capacity
  BY <1>2, <1>3 DEF remove
<1>6. BothWellFormed(m_memreg[p]) /\ BothWellFormed(verbs[p])
  BY DEF IInv, TableKept, EngineKept
<1>7. Holds(m_memreg'[p].global, m_capacity[p]) /\ Holds(m_memreg'[p].local, m_capacity[p])
  <2>1. /\ m_memreg[p] \in CombinedRegisters /\ m_capacity[p] \in Nat
        /\ Holds(m_memreg[p].global, m_capacity[p]) /\ Holds(m_memreg[p].local, m_capacity[p])
    BY RegisterTypes DEF Sized
  <2> QED BY <1>4, <1>6, <2>1, RemoveRegHolds
<1>8. Covers(verbs'[p].global, m_capacity[p]) /\ Covers(verbs'[p].local, m_capacity[p])
  <2>1. /\ verbs[p] \in CombinedRegisters /\ m_capacity[p] \in Nat
        /\ Covers(verbs[p].global, m_capacity[p]) /\ Covers(verbs[p].local, m_capacity[p])
    BY RegisterTypes DEF Sized
  <2>2. CASE slot \in Range(m_added[p])
    <3>1. verbs' = verbs
      BY <1>5, <2>2 DEF RemoveBelow
    <3> QED BY <2>1, <3>1
  <2>3. CASE slot \notin Range(m_added[p])
    <3>1. PICK verb : verb = record[p][slot].verb
      OBVIOUS
    <3>2. verbs'[p] = removeReg(verbs[p], verb)
      BY <1>5, <2>3, <3>1 DEF RemoveBelow, IInv, TypeOK, VerbsType
    <3>3. slot \in InUse(p) /\ slot \notin Waiting(p)
      BY <1>3, <2>3 DEF InUse, Waiting, Range
    <3>4. verb # NoSlot
      BY <3>1, <3>3 DEF IInv, EngineKept
    <3>5. verb \in SlotsInHand(verbs[p])
      BY <3>1, <3>3, <3>4 DEF IInv, EngineKept, Verbs
    <3> QED BY <1>6, <2>1, <3>2, <3>5, RemoveRegHolds
  <2> QED BY <2>2, <2>3
<1> QED BY <1>5, <1>7, <1>8 DEF Sized

LEMMA StepSized ==
  ASSUME IInv, Ample, NEW p \in Procs, StillHeld(p), Sided(p), Sized(p), Program(p) \/ Sync(p)
  PROVE  Sized(p)'
<1>1. CASE addGlobal(p)
  BY <1>1, AddGlobalSized
<1>2. CASE removeGlobal(p) \/ removeLocal(p)
  BY <1>2, RemovalSized
<1>3. CASE addLocal(p)
  BY <1>3, AddLocalSized
<1>4. CASE resizeMemreg(p)
  BY <1>4, ResizeSized
<1>5. CASE Agreed(p)
  BY <1>5, AgreedSized
<1>6. CASE sync(p) \/ abort(p) \/ Failing(p) \/ Gathered(p) \/ Fenced(p) \/ Voted(p)
  <2>1. UNCHANGED <<m_memreg, verbs, m_capacity>>
    BY <1>6 DEF sync, abort, SyncStart, Failing, Gathered, Fenced, Voted, tableVars, verbsVars
  <2> QED BY <2>1, SizedSame
<1> QED BY <1>1, <1>2, <1>3, <1>4, <1>5, <1>6 DEF Program, Sync

----------------------------------------------------------------------------
(* What the program still holds *)

\* The names of what p holds stay, or are those of the call it makes.
LEMMA HeldStays ==
  ASSUME IInv, TraceKept', NEW p \in Procs, StillHeld(p), Grows,
         pos'[p] \in {pos[p], pos[p] + 1}, pos'[p] <= Len(history'),
         \A n \in DOMAIN slotOf'[p] : n > 0 =>
           \/ n \in DOMAIN slotOf[p]
           \/ n = pos[p] + 1 /\ pos'[p] = n /\ history'[n].do = "register",
         pos'[p] = pos[p] + 1 /\ history'[pos[p] + 1].do = "deregister"
           => history'[pos[p] + 1].name \notin DOMAIN slotOf'[p]
  PROVE  StillHeld(p)'
<1>1. /\ pos[p] \in Nat /\ Len(history) \in Nat /\ Len(history') \in Nat
      /\ pos[p] <= Len(history) /\ Len(history) <= Len(history')
      /\ \A k \in 1..Len(history) : history'[k] = history[k]
  BY DEF IInv, TypeOK, ProgramType, InStep, Grows
<1>2. ASSUME NEW n \in DOMAIN slotOf'[p], n > 0, n \in DOMAIN slotOf[p]
      PROVE  /\ n \in 1..pos'[p] /\ history'[n].do = "register"
             /\ \A j \in 1..pos'[p] : ~ (history'[j].do = "deregister" /\ history'[j].name = n)
  <2>1. /\ n \in 1..pos[p] /\ history[n].do = "register"
        /\ \A j \in 1..pos[p] : ~ (history[j].do = "deregister" /\ history[j].name = n)
    BY <1>2 DEF StillHeld
  <2>2. n \in 1..pos'[p] /\ n \in 1..Len(history)
    BY <1>1, <2>1
  <2>3. ASSUME NEW j \in 1..pos'[p]
        PROVE  ~ (history'[j].do = "deregister" /\ history'[j].name = n)
    <3>1. CASE j \in 1..pos[p]
      <4>1. j \in 1..Len(history)
        BY <1>1, <3>1
      <4> QED BY <1>1, <2>1, <3>1, <4>1
    <3>2. CASE j \notin 1..pos[p]
      <4>1. j = pos[p] + 1 /\ pos'[p] = pos[p] + 1
        BY <1>1, <3>2
      <4> QED BY <4>1
    <3> QED BY <3>1, <3>2
  <2> QED BY <1>1, <2>1, <2>2, <2>3
<1>3. ASSUME NEW n \in DOMAIN slotOf'[p], n = pos[p] + 1, pos'[p] = n, history'[n].do = "register"
      PROVE  /\ n \in 1..pos'[p] /\ history'[n].do = "register"
             /\ \A j \in 1..pos'[p] : ~ (history'[j].do = "deregister" /\ history'[j].name = n)
  <2>1. n \in 1..pos'[p] /\ n \in Nat
    BY <1>1, <1>3
  <2>2. ASSUME NEW j \in 1..n, history'[j].do = "deregister", history'[j].name = n
        PROVE  FALSE
    <3>1. j \in DOMAIN history'
      <4>1. j \in 1..Len(history')
        BY <1>1, <1>3, <2>1
      <4>2. Len(history) \in Nat /\ Len(trace') = Len(history') + 1
        BY <1>1 DEF TraceKept
      <4> QED BY <4>1
    <3>2. n \in 1..j
      BY <2>2, <3>1 DEF TraceKept
    <3>3. j = n
      BY <2>1, <3>2
    <3> QED BY <1>3, <2>2, <3>3
  <2> QED BY <1>3, <2>1, <2>2
<1> QED BY <1>2, <1>3 DEF StillHeld

LEMMA NextInvariant ==
  ASSUME IInv, NEW p \in Procs, Program(p) \/ Sync(p)
  PROVE  /\ IInv' /\ TraceKept' /\ Grows
         /\ \A q \in Procs : pos'[q] <= Len(history')
<1>1. IInv' /\ Grows
  BY StepInvariant, HistoryGrows DEF Next
<1> QED BY <1>1 DEF IInv, InStep

LEMMA AddGlobalHeld ==
  ASSUME IInv, NEW p \in Procs, StillHeld(p), addGlobal(p)
  PROVE  StillHeld(p)'
<1>1. IInv' /\ TraceKept' /\ Grows /\ pos'[p] <= Len(history')
  BY NextInvariant DEF Program
<1>2. PICK m, s, c : /\ m = pos[p] + 1 /\ c = [do |-> "register"] /\ Collective(p, c)
                     /\ slotOf' = [slotOf EXCEPT ![p] = Bind(@, m, s)]
                     /\ pos' = [pos EXCEPT ![p] = m]
  BY DEF addGlobal
<1>3. pos'[p] = m /\ slotOf'[p] = Bind(slotOf[p], m, s)
  BY <1>2 DEF IInv, TypeOK, ProgramType
<1>4. history'[m] = c /\ c.do = "register"
  BY <1>2, CollectiveAt DEF IInv
<1>5. \A n \in DOMAIN slotOf'[p] : n \in DOMAIN slotOf[p] \/ n = m
  BY <1>3 DEF Bind
<1> QED BY <1>1, <1>2, <1>3, <1>4, <1>5, HeldStays

LEMMA RemoveGlobalHeld ==
  ASSUME IInv, NEW p \in Procs, StillHeld(p), removeGlobal(p)
  PROVE  StillHeld(p)'
<1>1. IInv' /\ TraceKept' /\ Grows /\ pos'[p] <= Len(history')
  BY NextInvariant DEF Program
<1>2. PICK m \in DOMAIN slotOf[p] :
        /\ remove(p, m) /\ Collective(p, [do |-> "deregister", name |-> m])
        /\ pos' = [pos EXCEPT ![p] = @ + 1]
  BY DEF removeGlobal
<1>3. pos'[p] = pos[p] + 1 /\ slotOf'[p] = Unbind(slotOf[p], m)
  BY <1>2 DEF remove, IInv, TypeOK, ProgramType
<1>4. history'[pos[p] + 1].name = m
  <2>1. PICK c : c = [do |-> "deregister", name |-> m]
    OBVIOUS
  <2>2. history'[pos[p] + 1] = c
    BY <1>2, <2>1, CollectiveAt DEF IInv
  <2> QED BY <2>1, <2>2
<1>5. DOMAIN slotOf'[p] = DOMAIN slotOf[p] \ {m}
  BY <1>3 DEF Unbind, Restrict
<1> QED BY <1>1, <1>3, <1>4, <1>5, HeldStays

\* The other steps keep the global registrations, and complete a sync if anything.
LEMMA OtherHeld ==
  ASSUME IInv, NEW p \in Procs, StillHeld(p),
         \/ addLocal(p) \/ removeLocal(p) \/ resizeMemreg(p) \/ sync(p) \/ abort(p) \/ Sync(p)
  PROVE  StillHeld(p)'
<1>1. IInv' /\ TraceKept' /\ Grows /\ pos'[p] <= Len(history')
  BY NextInvariant DEF Program
<1>2. /\ DOMAIN slotOf = Procs /\ pos \in [Procs -> 0..MaxCalls] /\ locals[p] \in Nat
      /\ pos[p] \in Nat
  BY DEF IInv, TypeOK, ProgramType
<1>3. \A n \in DOMAIN slotOf'[p] : n > 0 => n \in DOMAIN slotOf[p]
  <2>1. CASE addLocal(p)
    <3>1. PICK m, s : m = 0 - locals[p] - 1 /\ slotOf' = [slotOf EXCEPT ![p] = Bind(@, m, s)]
      BY <2>1 DEF addLocal
    <3>2. DOMAIN slotOf'[p] = DOMAIN slotOf[p] \cup {m} /\ ~ m > 0
      BY <1>2, <3>1 DEF Bind
    <3> QED BY <3>2
  <2>2. CASE removeLocal(p)
    <3>1. PICK m : remove(p, m)
      BY <2>2 DEF removeLocal
    <3>2. slotOf'[p] = Unbind(slotOf[p], m)
      BY <1>2, <3>1 DEF remove
    <3> QED BY <3>2 DEF Unbind, Restrict
  <2>3. CASE resizeMemreg(p) \/ sync(p) \/ abort(p) \/ Sync(p)
    <3>1. slotOf' = slotOf
      BY <2>3 DEF resizeMemreg, sync, abort, SyncStart, Sync, Agreed, Failing, Gathered,
         Fenced, Voted, programVars
    <3> QED BY <3>1
  <2> QED BY <2>1, <2>2, <2>3
<1>4. \/ pos'[p] = pos[p]
      \/ pos'[p] = pos[p] + 1 /\ history'[pos[p] + 1].do = "sync"
  <2>1. CASE addLocal(p) \/ removeLocal(p) \/ resizeMemreg(p) \/ Agreed(p) \/ Failing(p) \/ Gathered(p)
    BY <2>1 DEF addLocal, removeLocal, resizeMemreg, Agreed, Failing, Gathered, programVars
  <2>2. CASE sync(p)
    <3>1. PICK vote \in BOOLEAN : /\ Collective(p, [do |-> "sync", vote |-> vote])
                                  /\ SyncStart(p, vote, FALSE)
      BY <2>2 DEF sync
    <3>2. PICK c : c = [do |-> "sync", vote |-> vote]
      OBVIOUS
    <3>3. history'[pos[p] + 1] = c
      BY <3>1, <3>2, CollectiveAt DEF IInv
    <3>4. pos' = pos \/ pos' = [pos EXCEPT ![p] = @ + 1]
      BY <3>1 DEF SyncStart, SyncEngine
    <3> QED BY <1>2, <3>2, <3>3, <3>4
  <2>3. CASE abort(p)
    BY <2>3 DEF abort, SyncStart, SyncEngine
  <2>4. CASE Fenced(p) \/ Voted(p)
    <3>1. CASE aborting[p]
      BY <2>4, <3>1 DEF Fenced, Voted, SyncEngine, Votes
    <3>2. CASE ~ aborting[p]
      <4>1. at[p] \in {"barrier", "vote"} /\ history' = history
        BY <2>4 DEF Fenced, Voted
      <4>2. history[pos[p] + 1].do = "sync"
        BY <3>2, <4>1 DEF IInv, InStep
      <4>3. pos' = pos \/ pos' = [pos EXCEPT ![p] = @ + 1]
        BY <2>4 DEF Fenced, Voted, SyncEngine
      <4> QED BY <1>2, <4>1, <4>2, <4>3
    <3> QED BY <3>1, <3>2
  <2> QED BY <2>1, <2>2, <2>3, <2>4 DEF Sync
<1>5. /\ pos'[p] \in {pos[p], pos[p] + 1}
      /\ pos'[p] = pos[p] + 1 => history'[pos[p] + 1].do # "deregister"
  <2>1. pos[p] # pos[p] + 1
    BY <1>2
  <2> QED BY <1>4, <2>1
<1> QED BY <1>1, <1>3, <1>5, HeldStays

LEMMA StepHeld ==
  ASSUME IInv, NEW p \in Procs, StillHeld(p), Program(p) \/ Sync(p)
  PROVE  StillHeld(p)'
BY AddGlobalHeld, RemoveGlobalHeld, OtherHeld DEF Program

----------------------------------------------------------------------------
(* On which side the engine registers *)

LEMMA SidedStays ==
  ASSUME NEW p \in Procs, Sided(p),
         \A i \in DOMAIN m_added'[p] :
           \/ ~ isLocalSlot(m_added'[p][i])
           \/ \E j \in DOMAIN m_added[p] : m_added'[p][i] = m_added[p][j],
         at'[p] = "gather" => ~ isLocalSlot(id'[p]),
         \A s \in InUse(p)' : record'[p][s].verb # NoSlot =>
           \/ s \in InUse(p) /\ record'[p][s].verb = record[p][s].verb
           \/ isLocalSlot(record'[p][s].verb) <=> isLocalSlot(s)
  PROVE  Sided(p)'
<1>1. \A i \in DOMAIN m_added'[p] : ~ isLocalSlot(m_added'[p][i])
  BY DEF Sided
<1>2. ASSUME NEW s \in InUse(p)', record'[p][s].verb # NoSlot
      PROVE  isLocalSlot(record'[p][s].verb) <=> isLocalSlot(s)
  BY <1>2 DEF Sided
<1>3. (at[p] = "gather" => ~ isLocalSlot(id[p]))'
  OBVIOUS
<1> QED BY <1>1, <1>2, <1>3 DEF Sided

\* A slot that has been dealt out for a new registration.
LEMMA Bound ==
  ASSUME IInv, NEW p \in Procs, NEW s, s \notin InUse(p), NEW m, NEW r,
         slotOf' = [slotOf EXCEPT ![p] = Bind(@, m, s)],
         record' = [record EXCEPT ![p] = Bind(@, s, r)]
  PROVE  \A t \in InUse(p)' :
           \/ t = s /\ record'[p][t] = r
           \/ t \in InUse(p) /\ record'[p][t] = record[p][t]
<1>1. DOMAIN slotOf = Procs /\ DOMAIN record = Procs
  BY DEF IInv, TypeOK, ProgramType, TableType
<1>2. slotOf'[p] = Bind(slotOf[p], m, s) /\ record'[p] = Bind(record[p], s, r)
  BY <1>1
<1>3. \A t \in InUse(p) : t \in DOMAIN record[p]
  BY DEF IInv, TableKept, InUse
<1>4. /\ \A n \in DOMAIN slotOf'[p] :
           slotOf'[p][n] = s \/ (n \in DOMAIN slotOf[p] /\ slotOf'[p][n] = slotOf[p][n])
      /\ record'[p][s] = r
      /\ \A t \in DOMAIN record[p] : t # s => record'[p][t] = record[p][t]
  BY <1>2 DEF Bind
<1>5. ASSUME NEW t \in InUse(p)', t # s
      PROVE  t \in InUse(p)
  <2>1. PICK n \in DOMAIN slotOf'[p] : t = slotOf'[p][n]
    BY DEF InUse
  <2> QED BY <1>4, <1>5, <2>1 DEF InUse
<1> QED BY <1>3, <1>4, <1>5

LEMMA AddGlobalSided ==
  ASSUME IInv, NEW p \in Procs, Sided(p), addGlobal(p)
  PROVE  Sided(p)'
<1>1. PICK s, m, r :
        /\ s = toGlobal(NewSlot(m_memreg[p].global)) /\ m = pos[p] + 1
        /\ r = [name |-> m, verb |-> NoSlot]
        /\ record' = [record EXCEPT ![p] = Bind(@, s, r)]
        /\ slotOf' = [slotOf EXCEPT ![p] = Bind(@, m, s)]
        /\ m_added' = [m_added EXCEPT ![p] = Append(@, s)]
        /\ at[p] = "user" /\ at' = at
  BY DEF addGlobal, Collective, syncVars
<1>2. s \in Nat /\ ~ isLocalSlot(s) /\ s \notin InUse(p)
  <2>1. NewSlot(m_memreg[p].global) \in Nat
    BY RegisterTypes, AddDeals
  <2> QED BY <1>1, <2>1, FreshSlots, Parity
<1>3. \A i \in DOMAIN m_added'[p] :
        \/ ~ isLocalSlot(m_added'[p][i])
        \/ \E j \in DOMAIN m_added[p] : m_added'[p][i] = m_added[p][j]
  <2>1. m_added[p] \in Seq(Nat) /\ m_added'[p] = Append(m_added[p], s)
    BY <1>1 DEF IInv, TypeOK, TableType
  <2>2. \A i \in DOMAIN m_added'[p] :
          m_added'[p][i] = s \/ (i \in DOMAIN m_added[p] /\ m_added'[p][i] = m_added[p][i])
    BY <1>2, <2>1
  <2> QED BY <1>2, <2>2
<1>4. \A t \in InUse(p)' : record'[p][t].verb # NoSlot =>
        t \in InUse(p) /\ record'[p][t].verb = record[p][t].verb
  <2>1. \A t \in InUse(p)' :
          \/ t = s /\ record'[p][t] = r
          \/ t \in InUse(p) /\ record'[p][t] = record[p][t]
    <3>1. /\ s \notin InUse(p)
          /\ slotOf' = [slotOf EXCEPT ![p] = Bind(@, m, s)]
          /\ record' = [record EXCEPT ![p] = Bind(@, s, r)]
      BY <1>1, <1>2
    <3> QED BY <3>1, Bound
  <2> QED BY <1>1, <2>1
<1> QED BY <1>1, <1>3, <1>4, SidedStays

LEMMA AddLocalSided ==
  ASSUME IInv, NEW p \in Procs, Sided(p), addLocal(p)
  PROVE  Sided(p)'
<1>1. PICK s, v, m, r :
        /\ s = toLocal(NewSlot(m_memreg[p].local)) /\ v = toLocal(NewSlot(verbs[p].local))
        /\ m = 0 - locals[p] - 1 /\ r = [name |-> m, verb |-> v]
        /\ record' = [record EXCEPT ![p] = Bind(@, s, r)]
        /\ slotOf' = [slotOf EXCEPT ![p] = Bind(@, m, s)]
        /\ at[p] = "user" /\ at' = at /\ m_added' = m_added
  BY DEF addLocal, syncVars
<1>2. isLocalSlot(s) /\ isLocalSlot(v) /\ s \notin InUse(p)
  <2>1. NewSlot(m_memreg[p].local) \in Nat /\ NewSlot(verbs[p].local) \in Nat
    BY RegisterTypes, AddDeals
  <2> QED BY <1>1, <2>1, FreshSlots, Parity
<1>3. \A t \in InUse(p)' :
        \/ t \in InUse(p) /\ record'[p][t].verb = record[p][t].verb
        \/ isLocalSlot(record'[p][t].verb) <=> isLocalSlot(t)
  <2>1. \A t \in InUse(p)' :
          \/ t = s /\ record'[p][t] = r
          \/ t \in InUse(p) /\ record'[p][t] = record[p][t]
    <3>1. /\ s \notin InUse(p)
          /\ slotOf' = [slotOf EXCEPT ![p] = Bind(@, m, s)]
          /\ record' = [record EXCEPT ![p] = Bind(@, s, r)]
      BY <1>1, <1>2
    <3> QED BY <3>1, Bound
  <2>2. r.verb = v
    BY <1>1
  <2> QED BY <1>2, <2>1, <2>2
<1> QED BY <1>1, <1>3, SidedStays

LEMMA RemovalSided ==
  ASSUME IInv, NEW p \in Procs, Sided(p), removeGlobal(p) \/ removeLocal(p)
  PROVE  Sided(p)'
<1>1. PICK m \in DOMAIN slotOf[p] : remove(p, m)
  BY DEF removeGlobal, removeLocal
<1>2. PICK s : s = slotOf[p][m]
  OBVIOUS
<1>3. /\ at[p] = "user" /\ at' = at /\ record' = record
      /\ slotOf'[p] = Unbind(slotOf[p], m) /\ RemoveBelow(p, s)
  BY <1>1, <1>2 DEF removeGlobal, removeLocal, Collective, remove, syncVars,
     IInv, TypeOK, ProgramType
<1>4. InUse(p)' \subseteq InUse(p)
  BY <1>3 DEF Unbind, Restrict, InUse
<1>5. \A i \in DOMAIN m_added'[p] : \E j \in DOMAIN m_added[p] : m_added'[p][i] = m_added[p][j]
  <2>1. CASE m_added' = m_added
    BY <2>1
  <2>2. CASE s \in Range(m_added[p]) /\ m_added' = [m_added EXCEPT ![p] = Erase(@, s)]
    <3>1. m_added[p] \in Seq(Nat) /\ m_added'[p] = Erase(m_added[p], s)
      BY <2>2 DEF IInv, TypeOK, TableType
    <3>2. \A i, j \in DOMAIN m_added[p] : m_added[p][i] = m_added[p][j] => i = j
      BY DEF IInv, AddedKept
    <3>3. {Erase(m_added[p], s)[i] : i \in DOMAIN Erase(m_added[p], s)}
            = {m_added[p][i] : i \in DOMAIN m_added[p]} \ {s}
      BY <2>2, <3>1, <3>2, EraseRemoves
    <3> QED BY <3>1, <3>3
  <2> QED BY <1>3, <2>1, <2>2 DEF RemoveBelow
<1> QED BY <1>3, <1>4, <1>5, SidedStays

LEMMA AgreedSided ==
  ASSUME IInv, NEW p \in Procs, Sided(p), Agreed(p)
  PROVE  Sided(p)'
<1>1. UNCHANGED <<slotOf, record, m_added>>
  BY DEF Agreed, programVars, tableVars
<1>2. InUse(p)' = InUse(p)
  BY <1>1 DEF InUse
<1>3. at'[p] = "gather" => ~ isLocalSlot(id'[p])
  <2>1. at \in [Procs -> Places] /\ id \in [Procs -> Nat \cup {NoSlot}]
    BY DEF IInv, TypeOK, SyncType
  <2>2. CASE at' = [at EXCEPT ![p] = "threw"]
    BY <2>1, <2>2
  <2>3. CASE id' = [id EXCEPT ![p] = toGlobal(NewSlot(verbs[p].global))]
    <3>1. id'[p] = toGlobal(NewSlot(verbs[p].global))
      BY <2>1, <2>3
    <3>2. NewSlot(verbs[p].global) \in Nat
      BY RegisterTypes, AddDeals
    <3> QED BY <3>1, <3>2, Parity
  <2> QED BY <2>2, <2>3 DEF Agreed
<1> QED BY <1>1, <1>2, <1>3, SidedStays

LEMMA GatheredSided ==
  ASSUME IInv, NEW p \in Procs, Sided(p), Gathered(p)
  PROVE  Sided(p)'
<1>1. PICK s, v : s = m_added[p][next[p]] /\ v = id[p]
  OBVIOUS
<1>2. /\ at[p] = "gather" /\ record' = [record EXCEPT ![p][s].verb = v]
      /\ UNCHANGED <<slotOf, m_added>>
  BY <1>1 DEF Gathered, programVars
<1>3. ~ isLocalSlot(s) /\ ~ isLocalSlot(v) /\ s \in InUse(p)
  <2>1. next[p] \in DOMAIN m_added[p] /\ m_added[p][next[p]] \in InUse(p)
    BY <1>2 DEF IInv, AddedKept
  <2> QED BY <1>1, <1>2, <2>1 DEF Sided
<1>4. InUse(p)' = InUse(p)
  BY <1>2 DEF InUse
<1>5. /\ DOMAIN record = Procs
      /\ \A t \in InUse(p) : t \in DOMAIN record[p] /\ record[p][t] \in Records
  BY DEF IInv, TypeOK, TableType, TableKept, InUse
<1>6. record'[p] = [record[p] EXCEPT ![s].verb = v]
  BY <1>2, <1>5
<1>7. record'[p][s].verb = v /\ \A t \in InUse(p) : t # s => record'[p][t] = record[p][t]
  BY <1>3, <1>5, <1>6 DEF Records
<1>8. at'[p] # "gather"
  BY DEF Gathered, regGlobal, IInv, TypeOK, SyncType
<1> QED BY <1>2, <1>3, <1>4, <1>7, <1>8, SidedStays

LEMMA OtherSided ==
  ASSUME IInv, NEW p \in Procs, Sided(p),
         \/ resizeMemreg(p) \/ sync(p) \/ abort(p) \/ Failing(p) \/ Fenced(p) \/ Voted(p)
  PROVE  Sided(p)'
<1>1. UNCHANGED <<slotOf, record>>
  BY DEF resizeMemreg, sync, abort, SyncStart, Failing, Fenced, Voted, programVars, tableVars
<1>2. InUse(p)' = InUse(p)
  BY <1>1 DEF InUse
<1>3. at'[p] # "gather"
  <2>1. at \in [Procs -> Places]
    BY DEF IInv, TypeOK, SyncType
  <2>2. CASE resizeMemreg(p)
    BY <2>2 DEF resizeMemreg, syncVars
  <2>3. CASE sync(p) \/ abort(p)
    BY <2>1, <2>3 DEF sync, abort, SyncStart, regGlobal, SyncEngine
  <2>4. CASE Failing(p) \/ Voted(p)
    BY <2>1, <2>4 DEF Failing, Voted
  <2>5. CASE Fenced(p)
    BY <2>1, <2>5 DEF Fenced, SyncEngine
  <2> QED BY <2>2, <2>3, <2>4, <2>5
<1>4. m_added'[p] = m_added[p] \/ m_added'[p] = <<>>
  <2>1. m_added \in [Procs -> Seq(Nat)]
    BY DEF IInv, TypeOK, TableType
  <2>2. CASE Fenced(p)
    BY <2>1, <2>2 DEF Fenced, ClearAdded
  <2>3. CASE resizeMemreg(p)
    BY <2>3 DEF resizeMemreg, reserve, ResizeAdded
  <2>4. CASE sync(p) \/ abort(p) \/ Failing(p) \/ Voted(p)
    BY <2>4 DEF sync, abort, Failing, Voted, tableVars
  <2> QED BY <2>2, <2>3, <2>4
<1>5. \A i \in DOMAIN m_added'[p] : \E j \in DOMAIN m_added[p] : m_added'[p][i] = m_added[p][j]
  <2>1. DOMAIN <<>> = {}
    OBVIOUS
  <2> QED BY <1>4, <2>1
<1> QED BY <1>1, <1>2, <1>3, <1>5, SidedStays

LEMMA StepSided ==
  ASSUME IInv, NEW p \in Procs, Sided(p), Program(p) \/ Sync(p)
  PROVE  Sided(p)'
BY AddGlobalSided, AddLocalSided, RemovalSided, AgreedSided, GatheredSided, OtherSided
   DEF Program, Sync

----------------------------------------------------------------------------
(* All together *)

\* Nobody is ever granted less.
LEMMA GrantedGrows ==
  ASSUME IInv, NEW p \in Procs, Sized(p), Program(p) \/ Sync(p), NEW q \in Procs
  PROVE  Granted(q) \in Int /\ Granted(q)' \in Int /\ Granted(q) <= Granted(q)'
<1>1. m_capacity[q] \in Nat /\ m_capacity'[q] \in Nat
  BY NextInvariant DEF IInv, TypeOK, TableType
<1>2. Granted(q) \in Int /\ Granted(q)' \in Int
  BY <1>1 DEF Granted
<1>3. CASE resizeMemreg(p)
  BY <1>2, <1>3, ResizeSized
<1>4. CASE ~ resizeMemreg(p)
  <2>1. m_capacity' = m_capacity
    BY <1>4 DEF Program, Sync, addGlobal, addLocal, removeGlobal, removeLocal, remove,
       sync, abort, Agreed, Failing, Gathered, Fenced, Voted, tableVars
  <2> QED BY <1>2, <2>1 DEF Granted
<1> QED BY <1>3, <1>4

\* A new call of the history that registers is made by addGlobal.
LEMMA OnlyAddRegisters ==
  ASSUME IInv, NEW p \in Procs, Program(p) \/ Sync(p),
         NEW k \in 1..Len(history'), ~ k \in 1..Len(history), history'[k].do = "register"
  PROVE  addGlobal(p) /\ pos[p] = Len(history) /\ k = Len(history) + 1
<1>1. history \in Seq(ProgramCalls) /\ Len(history) \in Nat
  BY DEF IInv, TypeOK, ProgramType
<1>2. ASSUME NEW c, Collective(p, c)
      PROVE  pos[p] = Len(history) /\ k = Len(history) + 1 /\ history'[k] = c
  <2>1. history' # history
    OBVIOUS
  <2>2. pos[p] = Len(history) /\ history' = Append(history, c)
    BY <1>2, <2>1 DEF Collective
  <2>3. Len(history') = Len(history) + 1 /\ history'[Len(history) + 1] = c
    BY <1>1, <2>2
  <2>4. k = Len(history) + 1
    BY <1>1, <2>3
  <2> QED BY <2>2, <2>3, <2>4
<1>3. CASE addGlobal(p)
  BY <1>2, <1>3 DEF addGlobal
<1>4. ~ removeGlobal(p)
  <2> SUFFICES ASSUME removeGlobal(p) PROVE FALSE
    OBVIOUS
  <2>1. PICK name : Collective(p, [do |-> "deregister", name |-> name])
    BY DEF removeGlobal
  <2>2. PICK c : c = [do |-> "deregister", name |-> name]
    OBVIOUS
  <2>3. history'[k] = c
    BY <1>2, <2>1, <2>2
  <2> QED BY <2>2, <2>3
<1>5. ~ sync(p)
  <2> SUFFICES ASSUME sync(p) PROVE FALSE
    OBVIOUS
  <2>1. PICK vote : Collective(p, [do |-> "sync", vote |-> vote])
    BY DEF sync
  <2>2. PICK c : c = [do |-> "sync", vote |-> vote]
    OBVIOUS
  <2>3. history'[k] = c
    BY <1>2, <2>1, <2>2
  <2> QED BY <2>2, <2>3
<1>6. history' # history
  OBVIOUS
<1>7. ~ (addLocal(p) \/ removeLocal(p) \/ resizeMemreg(p) \/ abort(p) \/ Sync(p))
  BY <1>6 DEF addLocal, removeLocal, resizeMemreg, abort, Sync, Agreed, Failing, Gathered,
     Fenced, Voted, programVars
<1> QED BY <1>3, <1>4, <1>5, <1>7 DEF Program

LEMMA AmpleStep ==
  ASSUME IInv, Ample, NEW p \in Procs, StillHeld(p), Sized(p), Program(p) \/ Sync(p)
  PROVE  Ample'
<1>1. /\ Len(history) \in Nat /\ Len(trace) = Len(history) + 1
      /\ trace \in Seq([free : Seq(Nat), min : Nat]) /\ history' \in Seq(ProgramCalls)
      /\ Dealt(m_memreg[p].global) = trace[pos[p] + 1] /\ Grows
  BY NextInvariant DEF IInv, TypeOK, ProgramType, TraceKept, InStep
<1> SUFFICES ASSUME NEW k \in DOMAIN history', history'[k].do = "register", NEW q \in Procs
             PROVE  Cardinality(InHand(trace'[k])) < Granted(q)'
  BY DEF Ample
<1>2. Granted(q) \in Int /\ Granted(q)' \in Int /\ Granted(q) <= Granted(q)'
  BY GrantedGrows
<1>3. k \in 1..Len(history')
  BY <1>1
<1>4. k \in 1..Len(history) + 1 /\ Cardinality(InHand(trace[k])) < Granted(q)
  <2>1. CASE k \in 1..Len(history)
    <3>1. history'[k] = history[k]
      BY <1>1, <2>1 DEF Grows
    <3>2. k \in DOMAIN history
      BY <2>1 DEF IInv, TypeOK, ProgramType
    <3>3. Cardinality(InHand(trace[k])) < Granted(q)
      BY <3>1, <3>2 DEF Ample
    <3>4. k \in 1..Len(history) + 1
      BY <1>1, <2>1
    <3> QED BY <3>3, <3>4
  <2>2. CASE ~ k \in 1..Len(history)
    <3>1. addGlobal(p) /\ pos[p] = Len(history) /\ k = Len(history) + 1
      BY <1>3, <2>2, OnlyAddRegisters
    <3>2. Cardinality(InHand(m_memreg[p].global)) < Granted(q)
      BY <3>1, RoomToRegister
    <3>3. InHand(trace[k]) = InHand(m_memreg[p].global)
      BY <1>1, <3>1, InHandDealt
    <3> QED BY <1>1, <3>1, <3>2, <3>3
  <2> QED BY <2>1, <2>2
<1>5. trace'[k] = trace[k]
  BY <1>1, <1>4 DEF Grows
<1>6. Cardinality(InHand(trace[k])) \in Nat
  <2>1. k \in 1..Len(trace)
    BY <1>1, <1>4
  <2>2. trace[k] \in [free : Seq(Nat), min : Nat]
    BY <1>1, <2>1, ElementOfSeq
  <2> QED BY <2>2, InHandFinite
<1> QED BY <1>2, <1>4, <1>5, <1>6

LEMMA RoomStep ==
  ASSUME IInv, RoomInv, [Next]_vars
  PROVE  RoomInv'
<1>1. CASE UNCHANGED vars
  BY <1>1 DEF RoomInv, Ample, StillHeld, Sided, Sized, Granted, InUse,
     vars, programVars, tableVars, verbsVars, syncVars
<1>2. ASSUME NEW p \in Procs, Program(p) \/ Sync(p) PROVE RoomInv'
  <2>1. Ample /\ StillHeld(p) /\ Sided(p) /\ Sized(p)
    BY DEF RoomInv
  <2>2. Ample'
    BY <1>2, <2>1, AmpleStep
  <2>3. ASSUME NEW q \in Procs PROVE StillHeld(q)' /\ Sided(q)' /\ Sized(q)'
    <3>1. StillHeld(q) /\ Sided(q) /\ Sized(q)
      BY DEF RoomInv
    <3>2. CASE q = p
      BY <1>2, <2>1, <3>2, StepHeld, StepSided, StepSized
    <3>3. CASE q # p
      <4>1. Undisturbed(q)
        BY <1>2, <3>3, OthersUndisturbed
      <4>2. StillHeld(q)'
        <5>1. /\ TraceKept' /\ Grows /\ pos'[q] <= Len(history') /\ pos[q] \in Nat
              /\ pos'[q] = pos[q] /\ slotOf'[q] = slotOf[q]
          BY <1>2, <4>1, NextInvariant DEF Undisturbed, IInv, TypeOK, ProgramType
        <5>2. pos'[q] # pos[q] + 1
          BY <5>1
        <5> QED BY <3>1, <5>1, <5>2, HeldStays
      <4>3. InUse(q)' = InUse(q)
        BY <4>1 DEF Undisturbed, InUse
      <4>4. Sided(q)'
        BY <3>1, <4>1, <4>3 DEF Undisturbed, Sided
      <4>5. Sized(q)'
        BY <3>1, <4>1, SizedSame DEF Undisturbed
      <4> QED BY <4>2, <4>4, <4>5
    <3> QED BY <3>2, <3>3
  <2> QED BY <2>2, <2>3 DEF RoomInv
<1> QED BY <1>1, <1>2 DEF Next

LEMMA RoomInit ==
  ASSUME Init
  PROVE  RoomInv
<1>1. Ample
  BY DEF Init, Ample
<1>2. ASSUME NEW p \in Procs PROVE StillHeld(p) /\ Sided(p)
  <2>1. DOMAIN slotOf[p] = {} /\ DOMAIN m_added[p] = {} /\ at[p] = "user"
    BY DEF Init
  <2> QED BY <2>1 DEF StillHeld, Sided, InUse
<1>3. ASSUME NEW p \in Procs PROVE Sized(p)
  <2>1. PICK reg : reg = Reserve(EmptyRegister, 1)
    OBVIOUS
  <2>2. reg = [size |-> 1, free |-> <<>>, min |-> 0]
    BY <2>1 DEF Reserve, EmptyRegister
  <2>3. reg.size = 1 /\ reg.min = 0 /\ reg.free = <<>>
    BY <2>2
  <2>4. Cardinality(InHand(reg)) = 0
    BY <2>3, InHandFinite
  <2>5. Holds(reg, 1) /\ Covers(reg, 1)
    BY <2>3, <2>4 DEF Holds, Covers
  <2>6. /\ m_memreg[p].global = reg /\ m_memreg[p].local = reg /\ m_capacity[p] = 1
        /\ verbs[p].global = reg /\ verbs[p].local = reg
    BY <2>1 DEF Init
  <2> QED BY <2>5, <2>6 DEF Sized
<1> QED BY <1>1, <1>2, <1>3 DEF RoomInv

\* A slot in hand is within what its register covers.
LEMMA WithinReserved ==
  ASSUME NEW c \in CombinedRegisters, NEW capacity,
         Covers(c.global, capacity), Covers(c.local, capacity), NEW s \in SlotsInHand(c)
  PROVE  s \div 2 < SlotLimit(c, s)
<1>1. /\ c.global \in Registers /\ c.local \in Registers
      /\ InHand(c.global) \subseteq Nat /\ InHand(c.local) \subseteq Nat
  BY InHandType DEF CombinedRegisters
<1>2. CASE \E t \in InHand(c.global) : s = toGlobal(t)
  <2>1. PICK t \in InHand(c.global) : s = toGlobal(t)
    BY <1>2
  <2>2. ~ isLocalSlot(s) /\ s \div 2 = t
    BY <1>1, <2>1, Parity
  <2>3. t < c.global.size
    BY <1>1, <2>1 DEF InHand, Covers, Registers
  <2> QED BY <2>2, <2>3 DEF SlotLimit
<1>3. CASE \E t \in InHand(c.local) : s = toLocal(t)
  <2>1. PICK t \in InHand(c.local) : s = toLocal(t)
    BY <1>3
  <2>2. t \in Nat /\ isLocalSlot(s) /\ s \div 2 = t
    <3>1. t \in Nat /\ isLocalSlot(s)
      BY <1>1, <2>1, Parity
    <3>2. s = 2 * t + 1
      BY <2>1 DEF toLocal
    <3> QED BY <3>1, <3>2
  <2>3. t < c.local.size
    BY <1>1, <2>1 DEF InHand, Covers, Registers
  <2> QED BY <2>2, <2>3 DEF SlotLimit
<1> QED BY <1>2, <1>3 DEF SlotsInHand

\* The slots in use are within what has been reserved, in the table and in the engine,
\* whatever each process reserves, even if it runs out of memory half way, if it
\* returns early or if its device fails: ASSERT( slot < m_slots.size() ) holds.
THEOREM RoomForAll == Spec => []SlotsReserved
<1>1. Init => RoomInv
  BY RoomInit
<1>2. IInv /\ RoomInv /\ [Next]_vars => RoomInv'
  BY RoomStep
<1>3. IInv /\ RoomInv => SlotsReserved
  <2> SUFFICES ASSUME IInv, RoomInv, NEW p \in Procs
               PROVE  /\ \A s \in InUse(p) : s \div 2 < SlotLimit(m_memreg[p], s)
                      /\ \A s \in Verbs(p) : s \div 2 < SlotLimit(verbs[p], s)
    BY DEF SlotsReserved
  <2>1. /\ Covers(m_memreg[p].global, m_capacity[p]) /\ Covers(m_memreg[p].local, m_capacity[p])
        /\ Covers(verbs[p].global, m_capacity[p]) /\ Covers(verbs[p].local, m_capacity[p])
    BY DEF RoomInv, Sized, Holds
  <2>2. /\ InUse(p) \subseteq SlotsInHand(m_memreg[p]) /\ Verbs(p) \subseteq SlotsInHand(verbs[p])
    BY DEF IInv, TableKept, EngineKept
  <2>3. m_memreg[p] \in CombinedRegisters /\ verbs[p] \in CombinedRegisters
    BY RegisterTypes
  <2>4. ASSUME NEW s \in InUse(p) PROVE s \div 2 < SlotLimit(m_memreg[p], s)
    BY <2>1, <2>2, <2>3, WithinReserved
  <2>5. ASSUME NEW s \in Verbs(p) PROVE s \div 2 < SlotLimit(verbs[p], s)
    BY <2>1, <2>2, <2>3, WithinReserved
  <2> QED BY <2>4, <2>5
<1> QED BY <1>1, <1>2, <1>3, RegistrationInvariant, PTL DEF Spec
=============================================================================
