---------------------------- MODULE MessageSort ----------------------------
(***************************************************************************)
(* src/src/MPI/messagesort.cpp: which write to a piece of memory wins.     *)
(* Registered slots that overlap or touch form one region; a region keeps  *)
(* for every whole block of its memory the highest priority of the writes  *)
(* pushed to it.  The message queue registers its slots here.              *)
(*                                                                         *)
(* Slots are registered while nothing is pending: a region that changes    *)
(* its base would move the pending writes.  A pushed write holds at least  *)
(* one whole block: with fewer the sizes of pushWrite wrap around.         *)
(***************************************************************************)
EXTENDS Integers, Sequences, FiniteSetsExt

CONSTANTS
  Grain,      \* 2 ^ m_msgGrainPower
  Memory,     \* bound: addresses are 0 .. Memory - 1
  Areas,      \* what is registered: a set of [base, size]
  MaxSlots, MaxRegions,  \* bounds: slots; regions, which are never given back
  MsgIds      \* priorities

ASSUME SortAssumption ==
  /\ Grain \in Nat \ {0} /\ Memory \in Nat
  /\ \A a \in Areas : a.base \in Nat /\ a.size \in Nat \ {0} /\ a.base + a.size <= Memory
  /\ MsgIds \subseteq Nat

VARIABLES
  m_memslots,      \* per slot: its area, or NoArea
  m_sortedRegions, \* the live regions: a set of [region, base, size]
  m_regions,       \* all regions in order of creation
  m_slotToRegion,  \* per slot: its region and its offset there
  m_writes,        \* per region: [min, max, memory]; memory is 1 + the priority
  m_dirty,         \* the regions that may hold writes
  event            \* history: the last push or pop and its bytes

sortVars == <<m_memslots, m_sortedRegions, m_regions, m_slotToRegion, m_writes,
              m_dirty, event>>

NoArea   == [base |-> 0, size |-> 0]
NoRegion == -1
NoMin    == Memory + 1        \* size_t(-1)
Writes(n) == [min |-> NoMin, max |-> 0, memory |-> [i \in 0 .. n - 1 |-> 0]]
SlotsOf  == DOMAIN m_memslots

SortInit ==
  /\ m_memslots = [s \in {} |-> NoArea]
  /\ m_sortedRegions = {}
  /\ m_regions = <<>>
  /\ m_slotToRegion = [s \in {} |-> [region |-> 0, offset |-> 0]]
  /\ m_writes = <<>>
  /\ m_dirty = {}
  /\ event = [op |-> "none", id |-> -1, bytes |-> {}]

setSlotRange(range) ==
  /\ range > Cardinality(SlotsOf)
  /\ m_memslots' = [s \in 0 .. range - 1 |->
                      IF s \in SlotsOf THEN m_memslots[s] ELSE NoArea]
  /\ m_slotToRegion' = [s \in 0 .. range - 1 |->
                          IF s \in SlotsOf THEN m_slotToRegion[s]
                          ELSE [region |-> 0, offset |-> 0]]
  /\ UNCHANGED <<m_sortedRegions, m_regions, m_writes, m_dirty, event>>

----------------------------------------------------------------------------
(* Registration *)

End(a) == a.base + a.size

\* equal_range: the regions that are neither before nor after the area.
Overlapping(a) == {r \in m_sortedRegions : ~ (End(r) < a.base) /\ ~ (End(a) < r.base)}

\* The whole extent, under the number of the oldest region.
Union(a, over) ==
  LET base == Min({a.base} \cup {r.base : r \in over}) IN
  [region |-> Min({Len(m_regions)} \cup {r.region : r \in over}),
   base   |-> base,
   size   |-> Max({End(a)} \cup {End(r) : r \in over}) - base]

Resized(w, n) == [w EXCEPT !.memory = [i \in 0 .. n - 1 |->
                                         IF i \in DOMAIN w.memory THEN w.memory[i] ELSE 0]]

\* Variant: the slots of the regions that are merged keep their offset.
KeepOffset(id, a, over, new) ==
  m_slotToRegion' = [s \in SlotsOf |->
    IF s = id THEN [region |-> new.region, offset |-> a.base - new.base]
    ELSE IF \E r \in over : r.region = m_slotToRegion[s].region
    THEN [region |-> new.region, offset |-> m_slotToRegion[s].offset]
    ELSE m_slotToRegion[s]]
Redirect(id, a, over, new) ==
  m_slotToRegion' = [s \in SlotsOf |->
    IF s = id THEN [region |-> new.region, offset |-> a.base - new.base]
    ELSE IF \E r \in over : r.region = m_slotToRegion[s].region
    THEN [region |-> new.region, offset |-> m_memslots[s].base - new.base]
    ELSE m_slotToRegion[s]]

addRegister(id, a) ==
  LET over == Overlapping(a)
      new  == Union(a, over)
      n    == new.size \div Grain IN
    /\ m_dirty = {}
    /\ m_memslots[id] = NoArea
    /\ \/ /\ over = {}
          /\ Len(m_regions) < MaxRegions
          /\ m_regions' = Append(m_regions, new)
          /\ m_writes'  = Append(m_writes, Writes(n))
       \/ /\ over # {}
          /\ m_regions' = [m_regions EXCEPT ![new.region + 1] = new]
          /\ m_writes'  = [i \in DOMAIN m_writes |->
               IF i = new.region + 1 THEN Resized(m_writes[i], n)
               ELSE IF \E r \in over : r.region + 1 = i THEN Writes(0) ELSE m_writes[i]]
    /\ m_memslots' = [m_memslots EXCEPT ![id] = a]
    /\ m_sortedRegions' = (m_sortedRegions \ over) \cup {new}
    /\ Redirect(id, a, over, new)
    /\ UNCHANGED <<m_dirty, event>>

delRegister(id) ==
  /\ m_memslots[id] # NoArea
  /\ m_memslots' = [m_memslots EXCEPT ![id] = NoArea]
  /\ m_slotToRegion' = [m_slotToRegion EXCEPT ![id] = [region |-> NoRegion, offset |-> NoRegion]]
  /\ UNCHANGED <<m_sortedRegions, m_regions, m_writes, m_dirty, event>>

----------------------------------------------------------------------------
(* Writing *)

\* The bytes of n blocks.
BlockBytes(address, n) == address .. address + n * Grain - 1

\* Bytes from an address in a region to the next whole block.
ToBlock(start) == (Grain - (start % Grain)) % Grain

Higher(old, id) == IF id >= old THEN id + 1 ELSE old

pushWrite(id, slot, offset, size) ==
  LET to    == m_slotToRegion[slot]
      diff  == ToBlock(to.offset + offset)
      first == (to.offset + offset + diff) \div Grain
      n     == (size - diff) \div Grain
      w     == m_writes[to.region + 1] IN
    /\ n >= 1
    /\ m_writes' = [m_writes EXCEPT ![to.region + 1] =
         [min    |-> Min({w.min, first}),
          max    |-> Max({w.max, first + n - 1}),
          memory |-> [i \in DOMAIN w.memory |->
                        IF i \in first .. first + n - 1 THEN Higher(w.memory[i], id)
                        ELSE w.memory[i]]]]
    /\ m_dirty' = m_dirty \cup {to.region}
    /\ event'   = [op |-> "push", id |-> id,
                   bytes |-> BlockBytes(m_memslots[slot].base + offset + diff, n)]
    /\ UNCHANGED <<m_memslots, m_sortedRegions, m_regions, m_slotToRegion>>

\* The end of the run of blocks that starts at m_min, and the next block that
\* holds a write.
RunEnd(w)     == Min({i \in w.min + 1 .. w.max + 1 :
                        i = w.max + 1 \/ w.memory[i] # w.memory[w.min]})
NextWrite(w, end) == Min({i \in end .. w.max + 1 : i = w.max + 1 \/ w.memory[i] # 0})

Popped(w) ==
  LET end  == RunEnd(w)
      next == NextWrite(w, end) IN
  [min    |-> IF next > w.max THEN NoMin ELSE next,
   max    |-> IF next > w.max THEN 0 ELSE w.max,
   memory |-> [i \in DOMAIN w.memory |-> IF i \in w.min .. end - 1 THEN 0 ELSE w.memory[i]]]

HasWrites(r) == m_writes[r + 1].min <= m_writes[r + 1].max

\* A write of some region; the regions before it in m_dirty hold none.
popWrite ==
  \E passed \in SUBSET m_dirty, region \in m_dirty :
    LET w == m_writes[region + 1] IN
      /\ region \notin passed /\ HasWrites(region)
      /\ \A r \in passed : ~ HasWrites(r)
      /\ m_dirty'  = m_dirty \ passed
      /\ m_writes' = [m_writes EXCEPT ![region + 1] = Popped(w)]
      /\ event'    = [op |-> "pop", id |-> w.memory[w.min] - 1,
                      bytes |-> BlockBytes(m_regions[region + 1].base + w.min * Grain,
                                      RunEnd(w) - w.min)]
      /\ UNCHANGED <<m_memslots, m_sortedRegions, m_regions, m_slotToRegion>>

popNothing ==
  /\ \A r \in m_dirty : ~ HasWrites(r)
  /\ m_dirty' = {}
  /\ event' = [op |-> "empty", id |-> -1, bytes |-> {}]
  /\ UNCHANGED <<m_memslots, m_sortedRegions, m_regions, m_slotToRegion, m_writes>>

\* Bytes behind the last whole block of a region are anybody's.
canWrite(id, slot, offset) ==
  LET to    == m_slotToRegion[slot]
      block == (to.offset + offset) \div Grain
      w     == m_writes[to.region + 1] IN
    block \notin DOMAIN w.memory \/ id >= w.memory[block]

\* clear leaves the mark of a lone block where it is (line 219): it is called
\* here when there is none.
clear_ ==
  /\ \A i \in DOMAIN m_writes : m_writes[i].min # m_writes[i].max
  /\ m_dirty' = {}
  /\ m_writes' = [i \in DOMAIN m_writes |->
       [min |-> NoMin, max |-> 0, memory |-> [k \in DOMAIN m_writes[i].memory |->
          IF k \in m_writes[i].min .. m_writes[i].max THEN 0 ELSE m_writes[i].memory[k]]]]
  /\ event' = [op |-> "clear", id |-> -1, bytes |-> {}]
  /\ UNCHANGED <<m_memslots, m_sortedRegions, m_regions, m_slotToRegion>>

InUse(s) == m_memslots[s] # NoArea

SortNext ==
  \/ \E range \in 1 .. MaxSlots : setSlotRange(range)
  \/ \E id \in SlotsOf, a \in Areas : addRegister(id, a)
  \/ \E id \in SlotsOf : delRegister(id)
  \/ \E id \in MsgIds, s \in SlotsOf :
       /\ InUse(s)
       /\ \E offset \in 0 .. m_memslots[s].size - 1 :
            \E size \in 1 .. m_memslots[s].size - offset : pushWrite(id, s, offset, size)
  \/ popWrite
  \/ popNothing
  \/ clear_

SortSpec == SortInit /\ [][SortNext]_sortVars

----------------------------------------------------------------------------
(* Properties *)

\* What is pending at an address: in the block of the live region it is in.
BlocksAt(b) == {p \in m_sortedRegions \X (0 .. Memory) :
                  /\ p[2] \in DOMAIN m_writes[p[1].region + 1].memory
                  /\ b \in BlockBytes(p[1].base + p[2] * Grain, 1)}
PendingAt(b) ==
  Max({-1} \cup {m_writes[p[1].region + 1].memory[p[2]] - 1 : p \in BlocksAt(b)})

AreaOf(s)  == m_memslots[s].base .. End(m_memslots[s]) - 1
Registered == UNION {AreaOf(s) : s \in {t \in SlotsOf : InUse(t)}}
AllAnswers ==
  UNION {{<<id, b, canWrite(id, s, b - m_memslots[s].base)>> :
            id \in MsgIds, b \in AreaOf(s)} : s \in {t \in SlotsOf : InUse(t)}}

Win == INSTANCE Winners WITH
  Bytes <- 0 .. Memory - 1, Ids <- MsgIds, registered <- Registered,
  pending <- [b \in 0 .. Memory - 1 |-> PendingAt(b)], answers <- AllAnswers

(* However slots overlap, are merged into regions, deleted and registered  *)
(* again: popWrite gives out every byte of the whole blocks that were      *)
(* pushed once, with the highest of the priorities pushed to it, says that *)
(* it is empty only when it is, and canWrite knows what is pending.        *)
ImplementsWinners == Win!Spec
=============================================================================
