---------------------------- MODULE Registration ----------------------------
(***************************************************************************)
(* Memory registration: MemoryTable of src/src/MPI/memorytable.cpp, the    *)
(* registers of IBVerbs, and what MessageQueue::sync does with them.       *)
(*                                                                         *)
(* A global registration is a collective call without communication: every *)
(* process deals out a slot on its own.  Keys are exchanged in the next    *)
(* sync, one registration at a time, under slots of a second register, that*)
(* of the engine.  All processes make the same collective calls of the     *)
(* library in the same order, each at its own pace, and mix them with local*)
(* registrations and with reservations as they like.                       *)
(***************************************************************************)
EXTENDS Collectives, Functions, MemoryRegister

CONSTANTS
  MaxCalls,   \* bound on the collective calls of the program
  MaxLocal,   \* bound on the local registrations of a process
  Sizes,      \* what a program asks lpf_resize_memory_register for
  Quitters,   \* processes that may return from the spmd function early
  Faulty      \* processes that may run out of memory, or whose device may fail

ASSUME BoundsAssumption ==
  /\ MaxCalls \in Nat /\ MaxLocal \in Nat /\ Sizes \subseteq Nat \ {0}
  /\ Quitters \subseteq Procs /\ Faulty \subseteq Procs

VARIABLES
  history,    \* the collective calls of the program so far
  trace,      \* trace[k]: the global slots dealt out before the k-th of them
  pos,        \* per process: how many of them it has completed
  slotOf,     \* per process: the slots of the registrations it holds, by name
  locals,     \* per process: local registrations made
  m_memreg,   \* MemoryTable::m_memreg, the slot numbers
  record,     \* MemoryTable::m_memreg, the records; one removed stays in its slot
  m_added,    \* MemoryTable::m_added, in the order of its iterator
  m_capacity, \* MemoryTable::m_capacity
  verbs,      \* IBVerbs::m_memreg, the slot numbers
  glob,       \* IBVerbs::m_memreg, the keys of all processes by slot
  at,         \* where the process is inside sync
  next,       \* how far the iterator over m_added has got
  id,         \* the slot of the engine for the registration in progress
  aborting    \* has the process left the spmd function?

programVars == <<history, trace, pos, slotOf, locals>>
tableVars   == <<m_memreg, record, m_added, m_capacity>>
verbsVars   == <<verbs, glob>>
syncVars    == <<at, next, id, aborting>>
vars == <<calls, programVars, tableVars, verbsVars, syncVars>>

\* A registration is named by its place in the history, or by a negative number
\* if it is local.  NoKey is the key of memory that has not been registered.
NoSlot == -1
NoKey  == 0

Init ==
  /\ calls      = [p \in Procs |-> <<>>]
  /\ history    = <<>>
  /\ trace      = <<[free |-> <<>>, min |-> 0]>>
  /\ pos        = [p \in Procs |-> 0]
  /\ slotOf     = [p \in Procs |-> <<>>]
  /\ locals     = [p \in Procs |-> 0]
  /\ m_memreg   = [p \in Procs |-> [local  |-> Reserve(EmptyRegister, 1),
                                    global |-> Reserve(EmptyRegister, 1)]]
  /\ record     = [p \in Procs |-> <<>>]
  /\ m_added    = [p \in Procs |-> <<>>]
  /\ m_capacity = [p \in Procs |-> 1]
  /\ verbs      = m_memreg
  /\ glob       = [p \in Procs |-> <<>>]
  /\ at         = [p \in Procs |-> "user"]
  /\ next       = [p \in Procs |-> 0]
  /\ id         = [p \in Procs |-> NoSlot]
  /\ aborting   = [p \in Procs |-> FALSE]

----------------------------------------------------------------------------
(* The program *)

\* What a process has been granted: MessageQueue reserves one slot for itself.
Granted(p) == m_capacity[p] - 1

\* Global registrations that the program holds at the end of its history.
Held == {k \in DOMAIN history :
           /\ history[k].do = "register"
           /\ \A j \in DOMAIN history :
                ~ (history[j].do = "deregister" /\ history[j].name = k)}

\* Writing an array element or a variable of the program, and giving it up.
Bind(f, x, v) == [y \in DOMAIN f \cup {x} |-> IF y = x THEN v ELSE f[y]]
Unbind(f, x)  == Restrict(f, DOMAIN f \ {x})

Dealt(reg) == [free |-> reg.free, min |-> reg.min]

\* p makes the collective call c, as the first of all processes or after others.
Collective(p, c) ==
  /\ at[p] = "user"
  /\ \/ /\ pos[p] < Len(history)
        /\ history[pos[p] + 1] = c
        /\ UNCHANGED <<history, trace>>
     \/ /\ pos[p] = Len(history)
        /\ Len(history) < MaxCalls
        /\ history' = Append(history, c)
        /\ trace'   = Append(trace, Dealt(m_memreg'[p].global))

\* lpf_register_global.  The program registers no more than was granted to every
\* process.
addGlobal(p) ==
  LET name == pos[p] + 1
      slot == toGlobal(NewSlot(m_memreg[p].global)) IN
  /\ pos[p] = Len(history) =>
       \A q \in Procs : Cardinality(Held) < Granted(q)
  /\ m_memreg' = [m_memreg EXCEPT ![p].global = Add(@)]
  /\ Collective(p, [do |-> "register"])
  /\ record'   = [record EXCEPT ![p] = Bind(@, slot, [name |-> name, verb |-> NoSlot])]
  /\ m_added'  = [m_added EXCEPT ![p] = Append(@, slot)]
  /\ slotOf'   = [slotOf EXCEPT ![p] = Bind(@, name, slot)]
  /\ pos'      = [pos EXCEPT ![p] = name]
  /\ UNCHANGED <<calls, locals, m_capacity, verbsVars, syncVars>>

\* lpf_register_local: immediate, in both registers.
addLocal(p) ==
  LET name == 0 - locals[p] - 1
      slot == toLocal(NewSlot(m_memreg[p].local))
      verb == toLocal(NewSlot(verbs[p].local)) IN
  /\ at[p] = "user"
  /\ locals[p] < MaxLocal
  /\ Cardinality({n \in DOMAIN slotOf[p] : n < 0}) < Granted(p)
  /\ verbs'    = [verbs EXCEPT ![p].local = Add(@)]
  /\ glob'     = [glob EXCEPT ![p] =
                    Bind(@, verb, [q \in Procs |-> IF q = p THEN name ELSE NoKey])]
  /\ m_memreg' = [m_memreg EXCEPT ![p].local = Add(@)]
  /\ record'   = [record EXCEPT ![p] = Bind(@, slot, [name |-> name, verb |-> verb])]
  /\ slotOf'   = [slotOf EXCEPT ![p] = Bind(@, name, slot)]
  /\ locals'   = [locals EXCEPT ![p] = @ + 1]
  /\ UNCHANGED <<calls, history, trace, pos, m_added, m_capacity, syncVars>>

\* Variant: the last element is dropped without taking the place of slot.
EraseLast(set, slot) == SubSeq(set, 1, Len(set) - 1)
\* SparseSet::erase: the last element of the set takes the place of slot.
Erase(set, slot) ==
  LET i == CHOOSE j \in DOMAIN set : set[j] = slot IN
  SubSeq([set EXCEPT ![i] = set[Len(set)]], 1, Len(set) - 1)

\* Variant: a registration that has not been synchronised stays in m_added.
RemoveKeepAdded(p, slot) ==
  /\ UNCHANGED m_added
  /\ verbs' = IF record[p][slot].verb = NoSlot THEN verbs
              ELSE [verbs EXCEPT ![p] = removeReg(@, record[p][slot].verb)]
\* Only what a sync has registered is known to the engine.
RemoveBelow(p, slot) ==
  IF slot \in Range(m_added[p])
  THEN /\ m_added' = [m_added EXCEPT ![p] = Erase(@, slot)]
       /\ UNCHANGED verbs
  ELSE /\ verbs' = [verbs EXCEPT ![p] = removeReg(@, record[p][slot].verb)]
       /\ UNCHANGED m_added

\* MemoryTable::remove of the slot that the program has under this name.
remove(p, name) ==
  LET slot == slotOf[p][name] IN
  /\ RemoveBelow(p, slot)
  /\ m_memreg' = [m_memreg EXCEPT ![p] = removeReg(@, slot)]
  /\ slotOf'   = [slotOf EXCEPT ![p] = Unbind(@, name)]
  /\ UNCHANGED <<calls, locals, record, m_capacity, glob, syncVars>>

removeGlobal(p) ==
  \E name \in DOMAIN slotOf[p] :
    /\ name > 0
    /\ remove(p, name)
    /\ Collective(p, [do |-> "deregister", name |-> name])
    /\ pos' = [pos EXCEPT ![p] = @ + 1]

removeLocal(p) ==
  \E name \in DOMAIN slotOf[p] :
    /\ at[p] = "user"
    /\ name < 0
    /\ remove(p, name)
    /\ UNCHANGED <<history, trace, pos>>

\* Variant: SparseSet::reset instead of resize, which empties the set.
ResetAdded(p) == m_added' = [m_added EXCEPT ![p] = <<>>]
ResizeAdded(p) == UNCHANGED m_added

\* Variant: the capacity is granted before the engine's registers have grown.
GrantEarly(done) == done >= 2
\* How many of the four registers have to have grown.
AllReserved(done) == done = 4

\* MemoryTable::reserve, which runs out of memory after `done` of its four
\* registers have been resized, or succeeds.
reserve(p, size, done) ==
  /\ m_memreg' = [m_memreg EXCEPT
       ![p].global = IF done >= 1 THEN Reserve(@, size) ELSE @,
       ![p].local  = IF done >= 2 THEN Reserve(@, size) ELSE @]
  /\ IF done >= 2 THEN ResizeAdded(p) ELSE UNCHANGED m_added
  /\ verbs' = [verbs EXCEPT
       ![p].global = IF done >= 3 THEN Reserve(@, size) ELSE @,
       ![p].local  = IF done >= 4 THEN Reserve(@, size) ELSE @]
  /\ m_capacity' = [m_capacity EXCEPT ![p] = IF AllReserved(done) THEN size ELSE @]

\* lpf_resize_memory_register, of which MessageQueue::resizeMemreg passes on
\* what asks for more than there is.
resizeMemreg(p) ==
  /\ at[p] = "user"
  /\ \E n \in Sizes, done \in 0..4 :
       /\ m_capacity[p] < n + 1
       /\ done < 4 => p \in Faulty
       /\ reserve(p, n + 1, done)
  /\ UNCHANGED <<calls, programVars, record, glob, syncVars>>

----------------------------------------------------------------------------
(* MemoryTable::sync, and the vote that follows it in IBVerbs::sync *)

\* Where allreduceOr(false) of those who have registered their memory meets
\* allreduceAnd(true) of those who have not, MPI defines no result.
Registered == [op |-> "allreduce", how |-> "or",  value |-> FALSE]
Failed     == [op |-> "allreduce", how |-> "and", value |-> TRUE]
Outcomes(p) ==
  LET c == Contributions(p) IN
  IF \A q \in Procs : c[q].how = "or" THEN {\E q \in Procs : c[q].value} ELSE BOOLEAN

\* The name of the registration that the iterator has reached.
Current(p) == record[p][m_added[p][next[p]]].name

\* regGlobal, up to its agreement, for the i-th element of m_added.
regGlobal(p, i) ==
  /\ next' = [next EXCEPT ![p] = i]
  /\ \/ /\ Enter(p, Registered)
        /\ at' = [at EXCEPT ![p] = "agree"]
     \/ /\ p \in Faulty
        /\ Enter(p, Failed)
        /\ at' = [at EXCEPT ![p] = "failing"]

\* What follows the table's part: the vote if there is one, else the program.
SyncEngine(p, vote, abort) ==
  /\ next' = [next EXCEPT ![p] = 0]
  /\ \/ /\ vote
        /\ Enter(p, [op |-> "vote", abort |-> abort])
        /\ at' = [at EXCEPT ![p] = "vote"]
        /\ UNCHANGED pos
     \/ /\ ~ vote
        /\ at'  = [at EXCEPT ![p] = "user"]
        /\ pos' = [pos EXCEPT ![p] = @ + 1]
        /\ UNCHANGED calls

\* MessageQueue::sync(abort, attr).
SyncStart(p, vote, abort) ==
  /\ aborting' = [aborting EXCEPT ![p] = abort]
  /\ \/ m_added[p] # <<>> /\ regGlobal(p, 1) /\ UNCHANGED pos
     \/ m_added[p] = <<>> /\ SyncEngine(p, vote, abort)
  /\ UNCHANGED <<slotOf, locals, verbsVars, id>>

\* talpf_sync.
sync(p) ==
  /\ UNCHANGED tableVars
  /\ \E vote \in BOOLEAN :
       /\ Collective(p, [do |-> "sync", vote |-> vote])
       /\ SyncStart(p, vote, FALSE)

\* The spmd function returns: Interface::abort synchronises once more.
abort(p) ==
  /\ at[p] = "user"
  /\ pos[p] = MaxCalls \/ p \in Quitters
  /\ SyncStart(p, TRUE, TRUE)
  /\ UNCHANGED <<history, trace, tableVars>>

\* Variant: the slot is used without being taken.
NoAdd(p) == UNCHANGED verbs
AddVerb(p) == verbs' = [verbs EXCEPT ![p].global = Add(@)]

\* Another process could not register its memory: regGlobal throws.  Else it
\* takes a slot of the engine and gathers the keys.
Agreed(p) ==
  /\ at[p] = "agree"
  /\ Completed(p)
  /\ \E failure \in Outcomes(p) :
       \/ /\ failure
          /\ at' = [at EXCEPT ![p] = "threw"]
          /\ UNCHANGED <<calls, verbsVars, id>>
       \/ /\ ~ failure
          /\ id' = [id EXCEPT ![p] = toGlobal(NewSlot(verbs[p].global))]
          /\ AddVerb(p)
          /\ glob' = [glob EXCEPT ![p] = Bind(@, id'[p], [q \in Procs |-> NoKey])]
          /\ Enter(p, [op |-> "allgather", key |-> Current(p)])
          /\ at' = [at EXCEPT ![p] = "gather"]
  /\ UNCHANGED <<programVars, tableVars, next, aborting>>

\* Its own memory could not be registered: it throws in any case.
Failing(p) ==
  /\ at[p] = "failing"
  /\ Completed(p)
  /\ at' = [at EXCEPT ![p] = "threw"]
  /\ UNCHANGED <<calls, programVars, tableVars, verbsVars, next, id, aborting>>

\* The keys have been gathered; on to the next registration, or to the barrier.
Gathered(p) ==
  /\ at[p] = "gather"
  /\ Completed(p)
  /\ glob'   = [glob EXCEPT ![p][id[p]] = [q \in Procs |-> Contributions(p)[q].key]]
  /\ record' = [record EXCEPT ![p][m_added[p][next[p]]].verb = id[p]]
  /\ id'     = [id EXCEPT ![p] = NoSlot]
  /\ \/ next[p] < Len(m_added[p]) /\ regGlobal(p, next[p] + 1)
     \/ /\ next[p] = Len(m_added[p])
        /\ Enter(p, [op |-> "barrier"])
        /\ at' = [at EXCEPT ![p] = "barrier"]
        /\ UNCHANGED next
  /\ UNCHANGED <<programVars, m_memreg, m_added, m_capacity, verbs, aborting>>

\* Variant: the list of what is to be registered is not cleared.
KeepAdded(p)  == UNCHANGED m_added
ClearAdded(p) == m_added' = [m_added EXCEPT ![p] = <<>>]

\* The mode of the sync that p is in: only the default mode votes.
Votes(p) == IF aborting[p] THEN TRUE ELSE history[pos[p] + 1].vote

Fenced(p) ==
  /\ at[p] = "barrier"
  /\ Completed(p)
  /\ ClearAdded(p)
  /\ SyncEngine(p, Votes(p), aborting[p])
  /\ UNCHANGED <<history, trace, slotOf, locals, m_memreg, record, m_capacity,
                 verbsVars, id, aborting>>

\* A process that aborts leaves; one that learns that another does is told
\* LPF_ERR_FATAL, after which its calls do nothing.
Voted(p) ==
  /\ at[p] = "vote"
  /\ Completed(p)
  /\ IF aborting[p] \/ \E q \in Procs : Contributions(p)[q].abort
     THEN /\ at' = [at EXCEPT ![p] = "left"]
          /\ UNCHANGED pos
     ELSE /\ at'  = [at EXCEPT ![p] = "user"]
          /\ pos' = [pos EXCEPT ![p] = @ + 1]
  /\ UNCHANGED <<calls, history, trace, slotOf, locals, tableVars, verbsVars,
                 next, id, aborting>>

Program(p) ==
  \/ addGlobal(p) \/ removeGlobal(p) \/ addLocal(p) \/ removeLocal(p)
  \/ resizeMemreg(p) \/ sync(p) \/ abort(p)
Sync(p) == Agreed(p) \/ Failing(p) \/ Gathered(p) \/ Fenced(p) \/ Voted(p)

Next == \E p \in Procs : Program(p) \/ Sync(p)
Spec == Init /\ [][Next]_vars

\* A process goes on calling until it returns from the spmd function, and a
\* collective that everybody has entered completes.
FairSpec == Spec /\ \A p \in Procs : WF_vars(Program(p)) /\ WF_vars(Sync(p))
----------------------------------------------------------------------------
(* Properties *)

\* The slots that p has in use, in the table and in the engine.
InUse(p)     == {slotOf[p][n] : n \in DOMAIN slotOf[p]}
Verbs(p)     == {record[p][s].verb : s \in InUse(p)} \ {NoSlot}
SlotLimit(c, s) == IF isLocalSlot(s) THEN c.local.size ELSE c.global.size

ProgramCalls == [do : {"register"}] \cup [do : {"deregister"}, name : Nat]
                  \cup [do : {"sync"}, vote : BOOLEAN]
CallRecords  == [op : {"allreduce"}, how : {"or", "and"}, value : BOOLEAN]
                  \cup [op : {"allgather"}, key : Int] \cup [op : {"barrier"}]
                  \cup [op : {"vote"}, abort : BOOLEAN]
Records      == [name : Int, verb : Nat \cup {NoSlot}]
Places       == {"user", "agree", "failing", "gather", "barrier", "vote", "left", "threw"}

CallsType == calls \in [Procs -> Seq(CallRecords)]
ProgramType ==
  /\ history \in Seq(ProgramCalls) /\ Len(history) <= MaxCalls
  /\ trace \in Seq([free : Seq(Nat), min : Nat])
  /\ pos \in [Procs -> 0..MaxCalls] /\ locals \in [Procs -> 0..MaxLocal]
  /\ DOMAIN slotOf = Procs
  /\ \A p \in Procs : DOMAIN slotOf[p] \subseteq Int /\ InUse(p) \subseteq Nat
TableType ==
  /\ m_memreg \in [Procs -> CombinedRegisters]
  /\ m_added \in [Procs -> Seq(Nat)] /\ m_capacity \in [Procs -> Nat]
  /\ DOMAIN record = Procs
  /\ \A p \in Procs : \A s \in DOMAIN record[p] : record[p][s] \in Records
VerbsType ==
  /\ verbs \in [Procs -> CombinedRegisters]
  /\ DOMAIN glob = Procs
SyncType ==
  /\ at \in [Procs -> Places]
  /\ next \in [Procs -> Nat] /\ id \in [Procs -> Nat \cup {NoSlot}]
  /\ aborting \in [Procs -> BOOLEAN]

TypeOK == CallsType /\ ProgramType /\ TableType /\ VerbsType /\ SyncType

\* "As long as all processes perform calls to add() and remove() in the same
\* order, the returned slot numbers will be globally consistent, regardless of
\* any calls to reserve()": a global registration has the same slot everywhere.
SlotsAgree ==
  \A p, q \in Procs : \A n \in DOMAIN slotOf[p] \cap DOMAIN slotOf[q] :
    n > 0 => slotOf[p][n] = slotOf[q][n]

\* A slot is dealt out once at a time, and what the table keeps under it is the
\* registration that the program thinks it has; two registrations never share a
\* slot of the engine.
SlotsDiffer ==
  \A p \in Procs :
    /\ \A n \in DOMAIN slotOf[p] : record[p][slotOf[p][n]].name = n
    /\ \A s, t \in InUse(p) :
         s # t /\ record[p][s].verb # NoSlot => record[p][s].verb # record[p][t].verb

\* No slot is lost: those in hand belong to a registration that the program
\* holds or, in the engine, to the one that is being exchanged.
Pending(p) == IF at[p] = "gather" THEN {id[p]} ELSE {}
NothingLeaks ==
  \A p \in Procs : /\ SlotsInHand(m_memreg[p]) = InUse(p)
                  /\ SlotsInHand(verbs[p]) = Verbs(p) \cup Pending(p)

\* ASSERT( slot < m_slots.size() ) of add, remove, lookup and update: the slots in
\* use are within what has been reserved, even when a reservation ran out of
\* memory half way.
SlotsReserved ==
  \A p \in Procs : /\ \A s \in InUse(p) : s \div 2 < SlotLimit(m_memreg[p], s)
                  /\ \A s \in Verbs(p) : s \div 2 < SlotLimit(verbs[p], s)

\* After the sync that follows a global registration, each process knows, under
\* its own slot of the engine, the key of that same registration on each other
\* process: this is what put takes its remote address from.
KeysOfTheSameRegistration ==
  \A p \in Procs : \A n \in DOMAIN slotOf[p] :
    LET r == record[p][slotOf[p][n]] IN
    n > 0 /\ r.verb # NoSlot => glob[p][r.verb] = [q \in Procs |-> n]

\* ... and a registration that a sync has passed has a slot of the engine.
RegisteredBySync ==
  \A p \in Procs : \A n \in DOMAIN slotOf[p] :
    (\E k \in n..pos[p] : k > 0 /\ history[k].do = "sync")
      => record[p][slotOf[p][n]].verb # NoSlot

\* All processes enter the same collectives in the same order as long as nobody
\* returns early.
MatchingCollectives ==
  Quitters = {} =>
    \A p, q \in Procs : \A k \in DOMAIN calls[p] \cap DOMAIN calls[q] :
      calls[p][k].op = calls[q][k].op

\* The inductive invariant.  First, the trace is what the history makes of the
\* global register, every process has replayed as much of it as it has called,
\* and the name of a registration is the call that made it.
Replayed(k) ==
  LET c == history[k] IN
  trace[k + 1] = IF c.do = "register" THEN Add(trace[k])
                 ELSE IF c.do = "deregister" THEN Remove(trace[k], NewSlot(trace[c.name]))
                 ELSE trace[k]
TraceKept ==
  /\ Len(trace) = Len(history) + 1
  /\ \A k \in DOMAIN history :
       /\ Replayed(k)
       /\ history[k].do = "deregister" => history[k].name \in 1..k
NamesKept(p) ==
  \A n \in DOMAIN slotOf[p] :
    \/ n \in 1..pos[p] /\ slotOf[p][n] = toGlobal(NewSlot(trace[n]))
    \/ n < 0 /\ 0 - locals[p] <= n /\ isLocalSlot(slotOf[p][n])
InStep(p) ==
  /\ pos[p] <= Len(history)
  /\ Dealt(m_memreg[p].global) = trace[pos[p] + 1]
  /\ at[p] \in {"agree", "gather", "barrier", "vote"} /\ ~ aborting[p]
       => pos[p] < Len(history) /\ history[pos[p] + 1].do = "sync"

\* Second, the slots in hand are those of the registrations held.
TableKept(p) ==
  /\ BothWellFormed(m_memreg[p])
  /\ SlotsInHand(m_memreg[p]) = InUse(p)
  /\ \A n \in DOMAIN slotOf[p] : /\ slotOf[p][n] \in DOMAIN record[p]
                                /\ record[p][slotOf[p][n]].name = n

\* Third, the list of what is to be registered, and how far sync has got with it.
Waiting(p) ==
  {m_added[p][i] : i \in {j \in DOMAIN m_added[p] : at[p] # "barrier" /\ next[p] <= j}}
AddedKept(p) ==
  /\ \A i, j \in DOMAIN m_added[p] : m_added[p][i] = m_added[p][j] => i = j
  /\ \A i \in DOMAIN m_added[p] : m_added[p][i] \in InUse(p)
  /\ at[p] \in {"user", "vote"} => next[p] = 0
  /\ at[p] \in {"agree", "gather"} => next[p] \in DOMAIN m_added[p]
  /\ at[p] \in {"vote", "left"} => m_added[p] = <<>>

\* Fourth, the engine has a slot for each registration that is not waiting.
EngineKept(p) ==
  /\ BothWellFormed(verbs[p])
  /\ SlotsInHand(verbs[p]) = Verbs(p) \cup Pending(p)
  /\ at[p] = "gather" => id[p] \in Nat \ Verbs(p)
  /\ \A s \in InUse(p) : record[p][s].verb = NoSlot <=> s \in Waiting(p)
  /\ \A s, t \in InUse(p) :
       s # t /\ record[p][s].verb # NoSlot => record[p][s].verb # record[p][t].verb

IInv ==
  /\ TypeOK
  /\ TraceKept
  /\ \A p \in Procs : /\ NamesKept(p) /\ InStep(p)
                    /\ TableKept(p) /\ AddedKept(p) /\ EngineKept(p)

\* "Another process could not register memory area": when the device fails one
\* process, nobody gets past the agreement on that registration.
FailureIsShared ==
  \A p, q \in Procs :
    ~ (at[p] = "failing" /\ at[q] = "gather" /\ Current(p) = Current(q))

\* "It is guaranteed however that lpf_sync() calls will not deadlock": talpf_sync in
\* the mode that votes returns, with LPF_SUCCESS or LPF_ERR_FATAL.
InSync(p) == at[p] \notin {"user", "left"} /\ Votes(p) /\ ~ aborting[p]
SyncReturns == \A p \in Procs : InSync(p) ~> ~ InSync(p)
=============================================================================
