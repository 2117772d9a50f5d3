------------------------- MODULE RegistrationProofs -------------------------
(***************************************************************************)
(* Global slots are the same number on all processes, no slot is dealt out *)
(* twice or lost: proofs about Registration, for any number of processes,  *)
(* any program and any pattern of reservations, shortages and early        *)
(* returns.                                                                *)
(***************************************************************************)
EXTENDS Registration, SequenceTheorems, FiniteSetTheorems, TLAPS

----------------------------------------------------------------------------
(* What the operations of the memory registers do to the slots in hand.     *)

\* add() deals out a slot that nobody has, and only that one.
LEMMA AddDeals ==
  ASSUME NEW reg \in Registers, WellFormed(reg)
  PROVE  /\ Add(reg) \in Registers
         /\ WellFormed(Add(reg))
         /\ NewSlot(reg) \in Nat
         /\ NewSlot(reg) \notin InHand(reg)
         /\ InHand(Add(reg)) = InHand(reg) \cup {NewSlot(reg)}
<1>1. CASE reg.free = <<>>
  <2>1. /\ Add(reg) = [reg EXCEPT !.min = reg.min + 1]
        /\ NewSlot(reg) = reg.min
    BY <1>1 DEF Add, NewSlot
  <2>2. /\ Add(reg).free = reg.free /\ Add(reg).min = reg.min + 1
        /\ Add(reg).size = reg.size /\ Add(reg) \in Registers
    BY <2>1 DEF Registers
  <2>3. /\ InHand(reg) = 0..reg.min - 1
        /\ InHand(Add(reg)) = 0..reg.min
    BY <1>1, <2>2 DEF InHand, Registers
  <2> QED BY <1>1, <2>1, <2>2, <2>3 DEF WellFormed, Registers
<1>2. CASE reg.free # <<>>
  <2> DEFINE n == Len(reg.free)
  <2>1. /\ reg.free \in Seq(Nat) /\ n \in Nat \ {0} /\ n \in DOMAIN reg.free
        /\ DOMAIN reg.free = 1..n
        /\ Add(reg) = [reg EXCEPT !.free = SubSeq(reg.free, 1, n - 1)]
        /\ NewSlot(reg) = reg.free[n]
        /\ reg.free[n] \in Nat /\ reg.free[n] < reg.min
    BY <1>2 DEF Add, NewSlot, Registers, WellFormed
  <2>2. /\ SubSeq(reg.free, 1, n - 1) \in Seq(Nat)
        /\ DOMAIN SubSeq(reg.free, 1, n - 1) = 1..(n - 1)
        /\ \A i \in 1..(n - 1) : SubSeq(reg.free, 1, n - 1)[i] = reg.free[i]
    <3>1. /\ SubSeq(reg.free, 1, n - 1) \in Seq(Nat)
          /\ Len(SubSeq(reg.free, 1, n - 1)) = n - 1
          /\ \A i \in 1..(n - 1) : SubSeq(reg.free, 1, n - 1)[i] = reg.free[i]
      BY <2>1, SubSeqProperties, SMTT(20)
    <3> QED BY <3>1
  <2>3. /\ Add(reg).free = SubSeq(reg.free, 1, n - 1) /\ Add(reg).min = reg.min
        /\ Add(reg) \in Registers
    BY <2>1, <2>2 DEF Registers
  <2>4. WellFormed(Add(reg))
    <3>1. \A i \in 1..(n - 1) : i \in DOMAIN reg.free
      BY <2>1
    <3> QED BY <2>2, <2>3, <3>1 DEF WellFormed
  <2>5. {reg.free[i] : i \in 1..n} = {reg.free[i] : i \in 1..(n - 1)} \cup {reg.free[n]}
    <3>1. 1..n = (1..(n - 1)) \cup {n}
      BY <2>1
    <3> QED BY <3>1
  <2>6. reg.free[n] \notin {reg.free[i] : i \in 1..(n - 1)}
    BY <2>1, SMTT(20) DEF WellFormed
  <2>7. {Add(reg).free[i] : i \in DOMAIN Add(reg).free} = {reg.free[i] : i \in 1..(n - 1)}
    BY <2>2, <2>3
  <2>8. reg.free[n] \in 0..reg.min - 1
    BY <2>1 DEF Registers
  <2> HIDE DEF n
  <2> QED BY <2>1, <2>3, <2>4, <2>5, <2>6, <2>7, <2>8, ZenonT(30) DEF InHand
<1> QED BY <1>1, <1>2

\* remove() gives back the slot, and only that one.
LEMMA RemoveReturns ==
  ASSUME NEW reg \in Registers, WellFormed(reg), NEW slot \in InHand(reg)
  PROVE  /\ Remove(reg, slot) \in Registers
         /\ WellFormed(Remove(reg, slot))
         /\ InHand(Remove(reg, slot)) = InHand(reg) \ {slot}
<1> DEFINE Free == {reg.free[i] : i \in DOMAIN reg.free}
<1>0. /\ slot \in Nat /\ slot < reg.min /\ slot \notin Free
      /\ reg.min \in Nat /\ reg.free \in Seq(Nat) /\ Free \subseteq Nat
  BY DEF InHand, Registers
<1>1. CASE slot = reg.min - 1
  <2>1. /\ Remove(reg, slot).free = reg.free /\ Remove(reg, slot).min = reg.min - 1
        /\ Remove(reg, slot) \in Registers
    BY <1>0, <1>1 DEF Remove, Registers
  <2>2. \A i \in DOMAIN reg.free : reg.free[i] \in Nat /\ reg.free[i] # slot
    BY <1>0
  <2>3. WellFormed(Remove(reg, slot))
    BY <1>0, <1>1, <2>1, <2>2, SMTT(20) DEF WellFormed
  <2>4. 0..(reg.min - 1) - 1 = (0..reg.min - 1) \ {slot}
    BY <1>0, <1>1
  <2> QED BY <2>1, <2>3, <2>4 DEF InHand
<1>2. CASE slot # reg.min - 1
  <2>1. /\ Remove(reg, slot).free = Append(reg.free, slot)
        /\ Remove(reg, slot).min = reg.min
        /\ Remove(reg, slot) \in Registers
    <3>1. /\ Remove(reg, slot) = [reg EXCEPT !.free = Append(reg.free, slot)]
          /\ Append(reg.free, slot) \in Seq(Nat)
      BY <1>0, <1>2 DEF Remove
    <3> QED BY <3>1 DEF Registers
  <2>2. /\ DOMAIN Append(reg.free, slot) = 1..(Len(reg.free) + 1)
        /\ DOMAIN reg.free = 1..Len(reg.free) /\ Len(reg.free) \in Nat
        /\ \A i \in DOMAIN reg.free : Append(reg.free, slot)[i] = reg.free[i]
        /\ Append(reg.free, slot)[Len(reg.free) + 1] = slot
    BY <1>0
  <2>3. \A i \in 1..(Len(reg.free) + 1) : i \in DOMAIN reg.free \/ i = Len(reg.free) + 1
    BY <2>2
  <2>4. \A i \in DOMAIN reg.free : reg.free[i] # slot
    BY <1>0
  <2>5. WellFormed(Remove(reg, slot))
    BY <1>0, <2>1, <2>2, <2>3, <2>4, SMTT(20) DEF WellFormed
  <2>6. {Append(reg.free, slot)[i] : i \in 1..(Len(reg.free) + 1)} = Free \cup {slot}
    BY <2>2, <2>3
  <2> QED BY <2>1, <2>2, <2>5, <2>6 DEF InHand
<1> QED BY <1>1, <1>2

\* reserve() changes no slot in hand.
LEMMA ReserveKeeps ==
  ASSUME NEW reg \in Registers, NEW newSize \in Nat
  PROVE  /\ Reserve(reg, newSize) \in Registers
         /\ Reserve(reg, newSize).free = reg.free
         /\ Reserve(reg, newSize).min = reg.min
         /\ WellFormed(reg) => WellFormed(Reserve(reg, newSize))
         /\ InHand(Reserve(reg, newSize)) = InHand(reg)
<1>1. /\ Reserve(reg, newSize) \in Registers
      /\ Reserve(reg, newSize).free = reg.free
      /\ Reserve(reg, newSize).min = reg.min
  BY DEF Reserve, Registers
<1> QED BY <1>1 DEF WellFormed, InHand

----------------------------------------------------------------------------
(* CombinedMemoryRegister *)

\* The two kinds of slots are told apart, and lead back to their registers.
LEMMA Parity ==
  ASSUME NEW s \in Nat
  PROVE  /\ toGlobal(s) \in Nat /\ ~ isLocalSlot(toGlobal(s)) /\ toGlobal(s) \div 2 = s
         /\ toLocal(s) \in Nat /\ isLocalSlot(toLocal(s)) /\ (toLocal(s) - 1) \div 2 = s
BY DEF toGlobal, toLocal, isLocalSlot

LEMMA InHandType ==
  ASSUME NEW reg \in Registers
  PROVE  InHand(reg) \subseteq Nat
BY DEF InHand, Registers

\* addGlobalReg() deals out a slot that nobody has, and only that one.
LEMMA AddGlobalDeals ==
  ASSUME NEW c \in CombinedRegisters, BothWellFormed(c)
  PROVE  LET d    == [c EXCEPT !.global = Add(@)]
             slot == toGlobal(NewSlot(c.global)) IN
         /\ d \in CombinedRegisters /\ BothWellFormed(d)
         /\ slot \in Nat /\ ~ isLocalSlot(slot)
         /\ slot \notin SlotsInHand(c)
         /\ SlotsInHand(d) = SlotsInHand(c) \cup {slot}
<1> DEFINE d == [c EXCEPT !.global = Add(@)]
           n == NewSlot(c.global)
<1>1. /\ c.global \in Registers /\ c.local \in Registers
      /\ WellFormed(c.global) /\ WellFormed(c.local)
  BY DEF CombinedRegisters, BothWellFormed
<1>2. /\ Add(c.global) \in Registers /\ WellFormed(Add(c.global))
      /\ n \in Nat /\ n \notin InHand(c.global)
      /\ InHand(Add(c.global)) = InHand(c.global) \cup {n}
  BY <1>1, AddDeals
<1>3. /\ d.global = Add(c.global) /\ d.local = c.local /\ d \in CombinedRegisters
  BY <1>1, <1>2 DEF CombinedRegisters
<1>4. BothWellFormed(d)
  BY <1>1, <1>2, <1>3 DEF BothWellFormed
<1>5. InHand(c.global) \subseteq Nat /\ InHand(c.local) \subseteq Nat
  BY <1>1, InHandType
<1> HIDE DEF d, n
<1>6. toGlobal(n) \in Nat /\ ~ isLocalSlot(toGlobal(n))
  BY <1>2, Parity
<1>7. toGlobal(n) \notin SlotsInHand(c)
  <2>1. ASSUME NEW s \in InHand(c.local) PROVE toLocal(s) # toGlobal(n)
    BY <1>2, <1>5, Parity
  <2>2. ASSUME NEW s \in InHand(c.global) PROVE toGlobal(s) # toGlobal(n)
    BY <1>2, <1>5 DEF toGlobal
  <2> QED BY <2>1, <2>2 DEF SlotsInHand
<1>8. SlotsInHand(d) = SlotsInHand(c) \cup {toGlobal(n)}
  BY <1>2, <1>3 DEF SlotsInHand
<1> QED BY <1>3, <1>4, <1>6, <1>7, <1>8 DEF d, n

\* addLocalReg() deals out a slot that nobody has, and only that one.
LEMMA AddLocalDeals ==
  ASSUME NEW c \in CombinedRegisters, BothWellFormed(c)
  PROVE  LET d    == [c EXCEPT !.local = Add(@)]
             slot == toLocal(NewSlot(c.local)) IN
         /\ d \in CombinedRegisters /\ BothWellFormed(d)
         /\ slot \in Nat /\ isLocalSlot(slot)
         /\ slot \notin SlotsInHand(c)
         /\ SlotsInHand(d) = SlotsInHand(c) \cup {slot}
<1> DEFINE d == [c EXCEPT !.local = Add(@)]
           n == NewSlot(c.local)
<1>1. /\ c.global \in Registers /\ c.local \in Registers
      /\ WellFormed(c.global) /\ WellFormed(c.local)
  BY DEF CombinedRegisters, BothWellFormed
<1>2. /\ Add(c.local) \in Registers /\ WellFormed(Add(c.local))
      /\ n \in Nat /\ n \notin InHand(c.local)
      /\ InHand(Add(c.local)) = InHand(c.local) \cup {n}
  BY <1>1, AddDeals
<1>3. /\ d.local = Add(c.local) /\ d.global = c.global /\ d \in CombinedRegisters
  BY <1>1, <1>2 DEF CombinedRegisters
<1>4. BothWellFormed(d)
  BY <1>1, <1>2, <1>3 DEF BothWellFormed
<1>5. InHand(c.global) \subseteq Nat /\ InHand(c.local) \subseteq Nat
  BY <1>1, InHandType
<1> HIDE DEF d, n
<1>6. toLocal(n) \in Nat /\ isLocalSlot(toLocal(n))
  BY <1>2, Parity
<1>7. toLocal(n) \notin SlotsInHand(c)
  <2>1. ASSUME NEW s \in InHand(c.global) PROVE toGlobal(s) # toLocal(n)
    BY <1>2, <1>5, Parity
  <2>2. ASSUME NEW s \in InHand(c.local) PROVE toLocal(s) # toLocal(n)
    BY <1>2, <1>5 DEF toLocal
  <2> QED BY <2>1, <2>2 DEF SlotsInHand
<1>8. SlotsInHand(d) = SlotsInHand(c) \cup {toLocal(n)}
  BY <1>2, <1>3 DEF SlotsInHand
<1> QED BY <1>3, <1>4, <1>6, <1>7, <1>8 DEF d, n

\* removeReg() gives back the slot, and only that one.
LEMMA RemoveRegReturns ==
  ASSUME NEW c \in CombinedRegisters, BothWellFormed(c), NEW slot \in SlotsInHand(c)
  PROVE  /\ removeReg(c, slot) \in CombinedRegisters
         /\ BothWellFormed(removeReg(c, slot))
         /\ SlotsInHand(removeReg(c, slot)) = SlotsInHand(c) \ {slot}
<1> DEFINE d == removeReg(c, slot)
<1>1. /\ c.global \in Registers /\ c.local \in Registers
      /\ WellFormed(c.global) /\ WellFormed(c.local)
      /\ InHand(c.global) \subseteq Nat /\ InHand(c.local) \subseteq Nat
  BY InHandType DEF CombinedRegisters, BothWellFormed
<1>2. CASE \E s \in InHand(c.global) : slot = toGlobal(s)
  <2>1. PICK s \in InHand(c.global) : slot = toGlobal(s)
    BY <1>2
  <2>2. ~ isLocalSlot(slot) /\ slot \div 2 = s
    BY <1>1, <2>1, Parity
  <2>3. /\ Remove(c.global, s) \in Registers /\ WellFormed(Remove(c.global, s))
        /\ InHand(Remove(c.global, s)) = InHand(c.global) \ {s}
    BY <1>1, RemoveReturns
  <2>4. /\ d = [c EXCEPT !.global = Remove(c.global, s)]
        /\ d \in CombinedRegisters
        /\ d.global = Remove(c.global, s) /\ d.local = c.local
    BY <1>1, <2>2, <2>3 DEF removeReg, CombinedRegisters
  <2>5. BothWellFormed(d)
    BY <1>1, <2>3, <2>4 DEF BothWellFormed
  <2>6. \A t \in InHand(c.global) : toGlobal(t) = slot => t = s
    BY <1>1, <2>1 DEF toGlobal
  <2>7. \A t \in InHand(c.local) : toLocal(t) # slot
    BY <1>1, <2>2, Parity
  <2>8. SlotsInHand(d) = SlotsInHand(c) \ {slot}
    BY <2>1, <2>3, <2>4, <2>6, <2>7 DEF SlotsInHand
  <2> QED BY <2>4, <2>5, <2>8
<1>3. CASE \E s \in InHand(c.local) : slot = toLocal(s)
  <2>1. PICK s \in InHand(c.local) : slot = toLocal(s)
    BY <1>3
  <2>2. isLocalSlot(slot) /\ (slot - 1) \div 2 = s
    BY <1>1, <2>1, Parity
  <2>3. /\ Remove(c.local, s) \in Registers /\ WellFormed(Remove(c.local, s))
        /\ InHand(Remove(c.local, s)) = InHand(c.local) \ {s}
    BY <1>1, RemoveReturns
  <2>4. /\ d = [c EXCEPT !.local = Remove(c.local, s)]
        /\ d \in CombinedRegisters
        /\ d.local = Remove(c.local, s) /\ d.global = c.global
    BY <1>1, <2>2, <2>3 DEF removeReg, CombinedRegisters
  <2>5. BothWellFormed(d)
    BY <1>1, <2>3, <2>4 DEF BothWellFormed
  <2>6. \A t \in InHand(c.local) : toLocal(t) = slot => t = s
    BY <1>1, <2>1 DEF toLocal
  <2>7. \A t \in InHand(c.global) : toGlobal(t) # slot
    BY <1>1, <2>2, Parity
  <2>8. SlotsInHand(d) = SlotsInHand(c) \ {slot}
    BY <2>1, <2>3, <2>4, <2>6, <2>7 DEF SlotsInHand
  <2> QED BY <2>4, <2>5, <2>8
<1> QED BY <1>2, <1>3 DEF SlotsInHand

----------------------------------------------------------------------------
(* How many slots are in hand, and whether they have been reserved. *)

LEMMA InHandFinite ==
  ASSUME NEW reg, reg.min \in Nat
  PROVE  /\ IsFiniteSet(InHand(reg)) /\ Cardinality(InHand(reg)) \in Nat
         /\ reg.free = <<>> => Cardinality(InHand(reg)) = reg.min
<1>1. PICK b \in Int : b = reg.min - 1 /\ reg.min \in Nat
  OBVIOUS
<1>2. IsFiniteSet(0..b) /\ Cardinality(0..b) = IF 0 > b THEN 0 ELSE b - 0 + 1
  BY FS_Interval
<1>3. Cardinality(0..(reg.min - 1)) = reg.min /\ IsFiniteSet(0..(reg.min - 1))
  BY <1>1, <1>2
<1>4. InHand(reg) \subseteq 0..(reg.min - 1)
  BY DEF InHand
<1>5. ASSUME reg.free = <<>> PROVE InHand(reg) = 0..(reg.min - 1)
  <2>1. DOMAIN reg.free = {}
    BY <1>5
  <2>2. {reg.free[i] : i \in DOMAIN reg.free} = {}
    BY <2>1
  <2> QED BY <2>2 DEF InHand
<1>6. IsFiniteSet(InHand(reg))
  BY <1>3, <1>4, FS_Subset
<1> QED BY <1>3, <1>5, <1>6, FS_CardinalityType

\* The slots dealt out, and as many as the user has been promised, are reserved.
Covers(reg, capacity) == reg.min <= reg.size /\ capacity <= reg.size

\* add() finds a slot that has been reserved as long as not all are in hand.
LEMMA AddCovers ==
  ASSUME NEW reg \in Registers, WellFormed(reg), NEW capacity \in Nat,
         Covers(reg, capacity), Cardinality(InHand(reg)) < capacity
  PROVE  /\ Covers(Add(reg), capacity)
         /\ Cardinality(InHand(Add(reg))) = Cardinality(InHand(reg)) + 1
<1>1. /\ NewSlot(reg) \notin InHand(reg) /\ reg.min \in Nat
      /\ InHand(Add(reg)) = InHand(reg) \cup {NewSlot(reg)}
  BY AddDeals DEF Registers
<1>2. Cardinality(InHand(Add(reg))) = Cardinality(InHand(reg)) + 1
  BY <1>1, InHandFinite, FS_AddElement
<1>3. CASE reg.free = <<>>
  <2>1. Cardinality(InHand(reg)) = reg.min
    BY <1>1, <1>3, InHandFinite
  <2>2. Add(reg).min = reg.min + 1 /\ Add(reg).size = reg.size
    BY <1>3 DEF Add, Registers
  <2>3. reg.min \in Nat /\ reg.size \in Nat
    BY DEF Registers
  <2> QED BY <1>2, <2>1, <2>2, <2>3 DEF Covers
<1>4. CASE reg.free # <<>>
  <2>1. Add(reg).min = reg.min /\ Add(reg).size = reg.size
    BY <1>4 DEF Add, Registers
  <2> QED BY <1>2, <2>1 DEF Covers
<1> QED BY <1>3, <1>4

LEMMA RemoveCovers ==
  ASSUME NEW reg \in Registers, WellFormed(reg), NEW slot \in InHand(reg),
         NEW capacity \in Nat, Covers(reg, capacity)
  PROVE  /\ Covers(Remove(reg, slot), capacity)
         /\ Cardinality(InHand(Remove(reg, slot))) <= Cardinality(InHand(reg))
<1>1. InHand(Remove(reg, slot)) \in SUBSET InHand(reg) /\ reg.min \in Nat
  BY RemoveReturns DEF Registers
<1>2. Cardinality(InHand(Remove(reg, slot))) <= Cardinality(InHand(reg))
  BY <1>1, InHandFinite, FS_Subset
<1>3. /\ Remove(reg, slot).size = reg.size /\ reg.min \in Nat /\ reg.size \in Nat
      /\ Remove(reg, slot).min \in {reg.min, reg.min - 1}
  BY DEF Remove, Registers
<1> QED BY <1>2, <1>3 DEF Covers

\* reserve() for more than before keeps what was reserved.
LEMMA ReserveCovers ==
  ASSUME NEW reg \in Registers, NEW capacity \in Nat, Covers(reg, capacity),
         NEW newSize \in Nat, capacity <= newSize
  PROVE  /\ Covers(Reserve(reg, newSize), capacity) /\ Covers(Reserve(reg, newSize), newSize)
         /\ InHand(Reserve(reg, newSize)) = InHand(reg)
<1>1. /\ Reserve(reg, newSize).min = reg.min /\ reg.min \in Nat /\ reg.size \in Nat
      /\ InHand(Reserve(reg, newSize)) = InHand(reg)
  BY ReserveKeeps DEF Registers
<1>2. Reserve(reg, newSize).size =
        IF reg.size < newSize \/ reg.min <= newSize THEN newSize ELSE reg.min
  BY DEF Reserve, Registers
<1>3. CASE reg.size < newSize \/ reg.min <= newSize
  <2>1. Reserve(reg, newSize).size = newSize
    BY <1>2, <1>3
  <2> QED BY <1>1, <1>3, <2>1 DEF Covers
<1>4. CASE ~ (reg.size < newSize \/ reg.min <= newSize)
  <2>1. Reserve(reg, newSize).size = reg.min
    BY <1>2, <1>4
  <2> QED BY <1>1, <1>4, <2>1 DEF Covers
<1> QED BY <1>3, <1>4

\* The promise to the user of a register: it covers the capacity, of which one is free.
Holds(reg, capacity) == Covers(reg, capacity) /\ Cardinality(InHand(reg)) < capacity

LEMMA AddHolds ==
  ASSUME NEW reg \in Registers, WellFormed(reg), NEW capacity \in Nat,
         Covers(reg, capacity), Cardinality(InHand(reg)) < capacity - 1
  PROVE  Holds(Add(reg), capacity)
<1>1. Cardinality(InHand(reg)) \in Nat
  BY InHandFinite DEF Registers
<1>2. Cardinality(InHand(reg)) < capacity
  BY <1>1
<1> QED BY <1>1, <1>2, AddCovers DEF Holds

LEMMA RemoveHolds ==
  ASSUME NEW reg \in Registers, WellFormed(reg), NEW slot \in InHand(reg),
         NEW capacity \in Nat, Holds(reg, capacity)
  PROVE  Holds(Remove(reg, slot), capacity)
<1>1. Remove(reg, slot) \in Registers
  BY RemoveReturns
<1>2. Cardinality(InHand(reg)) \in Nat /\ Cardinality(InHand(Remove(reg, slot))) \in Nat
  BY <1>1, InHandFinite DEF Registers
<1> QED BY <1>2, RemoveCovers DEF Holds

LEMMA ReserveHolds ==
  ASSUME NEW reg \in Registers, NEW capacity \in Nat, Holds(reg, capacity),
         NEW newSize \in Nat, capacity <= newSize
  PROVE  Holds(Reserve(reg, newSize), capacity) /\ Holds(Reserve(reg, newSize), newSize)
<1>1. Cardinality(InHand(reg)) \in Nat
  BY InHandFinite DEF Registers
<1> QED BY <1>1, ReserveCovers DEF Holds

LEMMA RemoveRegHolds ==
  ASSUME NEW c \in CombinedRegisters, BothWellFormed(c), NEW slot \in SlotsInHand(c),
         NEW capacity \in Nat
  PROVE  LET d == removeReg(c, slot) IN
         /\ Covers(c.global, capacity) /\ Covers(c.local, capacity)
              => Covers(d.global, capacity) /\ Covers(d.local, capacity)
         /\ Holds(c.global, capacity) /\ Holds(c.local, capacity)
              => Holds(d.global, capacity) /\ Holds(d.local, capacity)
<1> DEFINE d == removeReg(c, slot)
<1>1. /\ c.global \in Registers /\ c.local \in Registers
      /\ WellFormed(c.global) /\ WellFormed(c.local)
      /\ InHand(c.global) \subseteq Nat /\ InHand(c.local) \subseteq Nat
  BY InHandType DEF CombinedRegisters, BothWellFormed
<1>2. CASE \E s \in InHand(c.global) : slot = toGlobal(s)
  <2>1. PICK s \in InHand(c.global) : slot = toGlobal(s)
    BY <1>2
  <2>2. ~ isLocalSlot(slot) /\ slot \div 2 = s
    BY <1>1, <2>1, Parity
  <2>3. d.global = Remove(c.global, s) /\ d.local = c.local
    BY <1>1, <2>2 DEF removeReg, CombinedRegisters
  <2>4. /\ Covers(c.global, capacity) => Covers(Remove(c.global, s), capacity)
        /\ Holds(c.global, capacity) => Holds(Remove(c.global, s), capacity)
    BY <1>1, RemoveCovers, RemoveHolds
  <2> QED BY <2>3, <2>4
<1>3. CASE \E s \in InHand(c.local) : slot = toLocal(s)
  <2>1. PICK s \in InHand(c.local) : slot = toLocal(s)
    BY <1>3
  <2>2. isLocalSlot(slot) /\ (slot - 1) \div 2 = s
    BY <1>1, <2>1, Parity
  <2>3. d.local = Remove(c.local, s) /\ d.global = c.global
    BY <1>1, <2>2 DEF removeReg, CombinedRegisters
  <2>4. /\ Covers(c.local, capacity) => Covers(Remove(c.local, s), capacity)
        /\ Holds(c.local, capacity) => Holds(Remove(c.local, s), capacity)
    BY <1>1, RemoveCovers, RemoveHolds
  <2> QED BY <2>3, <2>4
<1> QED BY <1>2, <1>3 DEF SlotsInHand

----------------------------------------------------------------------------
(* The processes                                                             *)

USE BoundsAssumption, ProcsAssumption

Same(q) ==
  /\ m_memreg'[q] = m_memreg[q] /\ verbs'[q] = verbs[q]
  /\ slotOf'[q] = slotOf[q] /\ record'[q] = record[q] /\ m_added'[q] = m_added[q]
  /\ at'[q] = at[q] /\ next'[q] = next[q] /\ id'[q] = id[q]
  /\ aborting'[q] = aborting[q] /\ pos'[q] = pos[q] /\ locals'[q] = locals[q]

\* The part of the invariant that does not look at the history.
Kept(p) == TableKept(p) /\ AddedKept(p) /\ EngineKept(p)

\* What a process has is not disturbed by what other processes do.
LEMMA OthersKept ==
  ASSUME NEW q \in Procs, Kept(q), Same(q)
  PROVE  Kept(q)'
<1>1. InUse(q)' = InUse(q) /\ Verbs(q)' = Verbs(q) /\ Pending(q)' = Pending(q)
  BY DEF Same, InUse, Verbs, Pending
<1>2. Waiting(q)' = Waiting(q)
  BY DEF Same, Waiting
<1>3. TableKept(q)'
  BY <1>1 DEF Same, Kept, TableKept
<1>4. AddedKept(q)'
  BY <1>1 DEF Same, Kept, AddedKept
<1>5. EngineKept(q)'
  BY <1>1, <1>2 DEF Same, Kept, EngineKept
<1> QED BY <1>3, <1>4, <1>5 DEF Kept

----------------------------------------------------------------------------
(* The history *)

\* The history only grows, and the trace with it.
Grows ==
  /\ Len(history) \in Nat /\ Len(history') \in Nat /\ Len(history) <= Len(history')
  /\ \A k \in 1..Len(history) : history'[k] = history[k]
  /\ \A k \in 1..Len(history) + 1 : trace'[k] = trace[k]

LEMMA OthersInStep ==
  ASSUME NEW q \in Procs, TypeOK, NamesKept(q), InStep(q), Same(q), Grows
  PROVE  NamesKept(q)' /\ InStep(q)'
<1>1. pos[q] \in Nat /\ pos[q] <= Len(history) /\ Len(history) \in Nat
  BY DEF TypeOK, ProgramType, InStep, Grows
<1>2. NamesKept(q)'
  BY <1>1 DEF NamesKept, Same, Grows
<1>3. InStep(q)'
  <2>1. trace'[pos[q] + 1] = trace[pos[q] + 1]
    BY <1>1 DEF Grows
  <2>2. pos[q] < Len(history) =>
          pos[q] < Len(history') /\ history'[pos[q] + 1] = history[pos[q] + 1]
    BY <1>1 DEF Grows
  <2> QED BY <1>1, <2>1, <2>2 DEF InStep, Same, Grows
<1> QED BY <1>2, <1>3

LEMMA UnchangedGrows ==
  ASSUME TypeOK, UNCHANGED <<history, trace>>
  PROVE  Grows
BY DEF Grows, TypeOK, ProgramType

\* What the collective call c makes of the global register.
After(p, c) ==
  IF c.do = "register" THEN Add(Dealt(m_memreg[p].global))
  ELSE IF c.do = "deregister" THEN Remove(Dealt(m_memreg[p].global), NewSlot(trace[c.name]))
  ELSE Dealt(m_memreg[p].global)

\* A process that makes the next call of the history, or the first new one, has
\* the global register that the trace prescribes after that call.
LEMMA CollectiveStep ==
  ASSUME TypeOK, TraceKept, NEW p \in Procs, InStep(p),
         NEW c \in ProgramCalls, Collective(p, c),
         c.do = "deregister" => c.name \in 1..pos[p],
         m_memreg'[p].global \in Registers,
         Dealt(m_memreg'[p].global) = After(p, c)
  PROVE  /\ TraceKept' /\ Grows
         /\ history' \in Seq(ProgramCalls) /\ Len(history') <= MaxCalls
         /\ trace' \in Seq([free : Seq(Nat), min : Nat])
         /\ pos[p] + 1 \in 1..Len(history')
         /\ history'[pos[p] + 1] = c
         /\ trace'[pos[p] + 2] = Dealt(m_memreg'[p].global)
<1> DEFINE d == Dealt(m_memreg'[p].global)
<1>1. /\ pos[p] \in Nat /\ pos[p] <= Len(history)
      /\ history \in Seq(ProgramCalls) /\ Len(history) <= MaxCalls
      /\ trace \in Seq([free : Seq(Nat), min : Nat])
      /\ Len(trace) = Len(history) + 1 /\ Len(history) \in Nat
      /\ Dealt(m_memreg[p].global) = trace[pos[p] + 1]
  BY DEF TypeOK, ProgramType, TraceKept, InStep
<1>2. d \in [free : Seq(Nat), min : Nat]
  BY DEF Dealt, Registers
<1>3. d = After(p, c)
  OBVIOUS
<1> HIDE DEF d
<1>4. CASE pos[p] < Len(history) /\ history[pos[p] + 1] = c /\ UNCHANGED <<history, trace>>
  <2>1. Replayed(pos[p] + 1)
    BY <1>1, <1>4 DEF TraceKept
  <2>2. trace[pos[p] + 2] = d
    <3>1. (pos[p] + 1) + 1 = pos[p] + 2
      BY <1>1
    <3>2. trace[(pos[p] + 1) + 1] = d
      BY <1>1, <1>3, <1>4, <2>1 DEF Replayed, After
    <3> QED BY <3>1, <3>2
  <2>3. TraceKept'
    BY <1>4 DEF TraceKept, Replayed
  <2>4. Grows
    BY <1>4, UnchangedGrows
  <2>5. pos[p] + 1 \in 1..Len(history') /\ trace'[pos[p] + 2] = d
    <3>1. history' = history /\ trace' = trace
      BY <1>4
    <3>2. pos[p] + 1 \in 1..Len(history)
      <4>1. pos[p] < Len(history)
        BY <1>4
      <4>2. pos[p] \in Nat /\ Len(history) \in Nat
        BY <1>1
      <4> QED BY <4>1, <4>2
    <3> QED BY <3>1, <3>2, <2>2
  <2> QED BY <1>1, <1>4, <2>3, <2>4, <2>5 DEF d
<1>5. CASE /\ pos[p] = Len(history) /\ Len(history) < MaxCalls
           /\ history' = Append(history, c) /\ trace' = Append(trace, d)
  <2>1. /\ history' \in Seq(ProgramCalls) /\ Len(history') = Len(history) + 1
        /\ \A k \in 1..Len(history) : history'[k] = history[k]
        /\ history'[Len(history) + 1] = c
    BY <1>1, <1>5
  <2>2. /\ trace' \in Seq([free : Seq(Nat), min : Nat]) /\ Len(trace') = Len(trace) + 1
        /\ \A k \in 1..Len(trace) : trace'[k] = trace[k]
        /\ trace'[Len(trace) + 1] = d
    BY <1>1, <1>2, <1>5
  <2>3. Grows
    BY <1>1, <2>1, <2>2 DEF Grows
  <2>4. ASSUME NEW k \in DOMAIN history'
        PROVE  /\ Replayed(k)'
               /\ history'[k].do = "deregister" => history'[k].name \in 1..k
    <3>1. CASE k \in 1..Len(history)
      <4>1. k \in DOMAIN history /\ history'[k] = history[k]
        BY <1>1, <2>1, <3>1, SMTT(20)
      <4>2. trace'[k] = trace[k] /\ trace'[k + 1] = trace[k + 1]
        <5>1. k \in 1..Len(trace) /\ k + 1 \in 1..Len(trace)
          BY <1>1, <3>1, SMTT(20)
        <5> QED BY <5>1, <2>2
      <4>3. Replayed(k) /\ (history[k].do = "deregister" => history[k].name \in 1..k)
        BY <4>1 DEF TraceKept
      <4>4. history[k].do = "deregister" => trace'[history[k].name] = trace[history[k].name]
        <5>1. history[k].do = "deregister" => history[k].name \in 1..Len(trace)
          BY <1>1, <3>1, <4>3, SMTT(20)
        <5> QED BY <5>1, <2>2
      <4> QED BY <4>1, <4>2, <4>3, <4>4 DEF Replayed
    <3>2. CASE k = Len(history) + 1
      <4>1. history'[k] = c /\ trace'[k] = Dealt(m_memreg[p].global) /\ trace'[k + 1] = d
        BY <1>1, <1>5, <2>1, <2>2, <3>2
      <4>2. c.do = "deregister" => c.name \in 1..k /\ trace'[c.name] = trace[c.name]
        BY <1>1, <1>5, <2>2, <3>2, SMTT(20)
      <4> QED BY <1>3, <4>1, <4>2 DEF Replayed, After
    <3> QED BY <1>1, <2>1, <3>1, <3>2
  <2>5. TraceKept'
    BY <1>1, <2>1, <2>2, <2>4 DEF TraceKept
  <2> QED BY <1>1, <1>5, <2>1, <2>2, <2>3, <2>5 DEF d
<1> QED BY <1>4, <1>5 DEF Collective, d

\* The trace keeps of a register what add and remove look at.
LEMMA DealtIsEnough ==
  ASSUME NEW reg \in Registers, NEW n \in Nat
  PROVE  /\ Dealt(Add(reg)) = Add(Dealt(reg))
         /\ NewSlot(Dealt(reg)) = NewSlot(reg)
         /\ Dealt(Remove(reg, n)) = Remove(Dealt(reg), n)
         /\ Dealt(Reserve(reg, n)) = Dealt(reg)
<1>1. /\ Dealt(reg).free = reg.free /\ Dealt(reg).min = reg.min
      /\ Dealt(reg) = [free |-> reg.free, min |-> reg.min]
  BY DEF Dealt
<1>2. Dealt(Add(reg)) = Add(Dealt(reg))
  <2>1. CASE reg.free = <<>>
    <3>1. Add(reg).free = reg.free /\ Add(reg).min = reg.min + 1
      BY <2>1 DEF Add, Registers
    <3>2. Add(Dealt(reg)) = [free |-> reg.free, min |-> reg.min + 1]
      BY <1>1, <2>1 DEF Add
    <3> QED BY <3>1, <3>2 DEF Dealt
  <2>2. CASE reg.free # <<>>
    <3> DEFINE f == SubSeq(reg.free, 1, Len(reg.free) - 1)
    <3>1. Add(reg).free = f /\ Add(reg).min = reg.min
      BY <2>2 DEF Add, Registers
    <3>2. Add(Dealt(reg)) = [free |-> f, min |-> reg.min]
      BY <1>1, <2>2 DEF Add
    <3> QED BY <3>1, <3>2 DEF Dealt
  <2> QED BY <2>1, <2>2
<1>3. NewSlot(Dealt(reg)) = NewSlot(reg)
  BY <1>1 DEF NewSlot
<1>4. Dealt(Remove(reg, n)) = Remove(Dealt(reg), n)
  <2>1. CASE n = reg.min - 1
    <3>1. Remove(reg, n).free = reg.free /\ Remove(reg, n).min = reg.min - 1
      BY <2>1 DEF Remove, Registers
    <3>2. Remove(Dealt(reg), n) = [free |-> reg.free, min |-> reg.min - 1]
      BY <1>1, <2>1 DEF Remove
    <3> QED BY <3>1, <3>2 DEF Dealt
  <2>2. CASE n # reg.min - 1
    <3> DEFINE f == Append(reg.free, n)
    <3>1. Remove(reg, n).free = f /\ Remove(reg, n).min = reg.min
      BY <2>2 DEF Remove, Registers
    <3>2. Remove(Dealt(reg), n) = [free |-> f, min |-> reg.min]
      BY <1>1, <2>2 DEF Remove
    <3> QED BY <3>1, <3>2 DEF Dealt
  <2> QED BY <2>1, <2>2
<1>5. Dealt(Reserve(reg, n)) = Dealt(reg)
  BY ReserveKeeps DEF Dealt
<1> QED BY <1>2, <1>3, <1>4, <1>5

----------------------------------------------------------------------------
(* The actions of the program *)

\* What has to be shown of a step of p.
LEMMA StepOf ==
  ASSUME IInv, NEW p \in Procs, TypeOK', TraceKept', Grows,
         \A q \in Procs \ {p} : Same(q),
         NamesKept(p)', InStep(p)', Kept(p)'
  PROVE  IInv'
<1>1. ASSUME NEW q \in Procs
      PROVE  NamesKept(q)' /\ InStep(q)' /\ Kept(q)'
  <2>1. CASE q # p
    <3>1. Same(q) /\ TypeOK /\ NamesKept(q) /\ InStep(q) /\ Kept(q)
      BY <2>1 DEF IInv, Kept
    <3> QED BY <3>1, OthersKept, OthersInStep
  <2> QED BY <2>1
<1> QED BY <1>1 DEF IInv, Kept

LEMMA CallsSame ==
  ASSUME CallsType, UNCHANGED calls
  PROVE  CallsType'
BY DEF CallsType

LEMMA EnterType ==
  ASSUME CallsType, NEW p \in Procs, NEW c \in CallRecords, Enter(p, c)
  PROVE  CallsType'
BY DEF CallsType, Enter

\* A new registration of p: name n, slot s, engine slot v.  All that changes of
\* what its table keeps is that n holds s.
LEMMA NewRegistration ==
  ASSUME IInv, NEW p \in Procs, NEW n \in Int, n \notin DOMAIN slotOf[p],
         NEW s \in Nat, s \notin SlotsInHand(m_memreg[p]),
         NEW v \in Nat \cup {NoSlot},
         BothWellFormed(m_memreg'[p]),
         SlotsInHand(m_memreg'[p]) = SlotsInHand(m_memreg[p]) \cup {s},
         record' = [record EXCEPT ![p] = Bind(@, s, [name |-> n, verb |-> v])],
         slotOf' = [slotOf EXCEPT ![p] = Bind(@, n, s)]
  PROVE  /\ TableKept(p)'
         /\ InUse(p)' = InUse(p) \cup {s} /\ s \notin InUse(p)
         /\ record'[p][s].verb = v
         /\ \A t \in InUse(p) : record'[p][t] = record[p][t]
<1>1. /\ DOMAIN slotOf = Procs /\ DOMAIN record = Procs
      /\ TableKept(p) /\ InUse(p) = SlotsInHand(m_memreg[p])
  BY DEF IInv, TypeOK, ProgramType, TableType, TableKept
<1>2. /\ slotOf'[p] = Bind(slotOf[p], n, s)
      /\ record'[p] = Bind(record[p], s, [name |-> n, verb |-> v])
  BY <1>1
<1>3. /\ DOMAIN slotOf'[p] = DOMAIN slotOf[p] \cup {n}
      /\ slotOf'[p][n] = s
      /\ \A m \in DOMAIN slotOf[p] : slotOf'[p][m] = slotOf[p][m]
  BY <1>2 DEF Bind
<1>4. /\ DOMAIN record'[p] = DOMAIN record[p] \cup {s}
      /\ record'[p][s] = [name |-> n, verb |-> v]
      /\ \A t \in DOMAIN record[p] : t # s => record'[p][t] = record[p][t]
  BY <1>2 DEF Bind
<1>5. InUse(p)' = InUse(p) \cup {s}
  BY <1>3 DEF InUse
<1>6. \A m \in DOMAIN slotOf[p] : /\ slotOf[p][m] # s
                                /\ slotOf[p][m] \in DOMAIN record[p]
                                /\ record[p][slotOf[p][m]].name = m
  BY <1>1 DEF TableKept, InUse
<1>7. \A m \in DOMAIN slotOf'[p] : /\ slotOf'[p][m] \in DOMAIN record'[p]
                                 /\ record'[p][slotOf'[p][m]].name = m
  BY <1>3, <1>4, <1>6
<1>8. \A t \in InUse(p) : record'[p][t] = record[p][t]
  BY <1>4, <1>6 DEF InUse
<1> QED BY <1>1, <1>4, <1>5, <1>7, <1>8 DEF TableKept
LEMMA NewRegistrationType ==
  ASSUME TypeOK, NEW p \in Procs, NEW n \in Int, NEW s \in Nat,
         NEW v \in Nat \cup {NoSlot},
         record' = [record EXCEPT ![p] = Bind(@, s, [name |-> n, verb |-> v])],
         slotOf' = [slotOf EXCEPT ![p] = Bind(@, n, s)]
  PROVE  /\ DOMAIN slotOf' = Procs /\ DOMAIN record' = Procs
         /\ \A q \in Procs : /\ DOMAIN slotOf'[q] \subseteq Int /\ InUse(q)' \subseteq Nat
                           /\ \A t \in DOMAIN record'[q] : record'[q][t] \in Records
<1>1. /\ DOMAIN slotOf = Procs /\ DOMAIN record = Procs
      /\ \A q \in Procs : /\ DOMAIN slotOf[q] \subseteq Int /\ InUse(q) \subseteq Nat
                        /\ \A t \in DOMAIN record[q] : record[q][t] \in Records
  BY DEF TypeOK, ProgramType, TableType
<1>2. DOMAIN slotOf' = Procs /\ DOMAIN record' = Procs
  BY <1>1
<1>3. ASSUME NEW q \in Procs
      PROVE  /\ DOMAIN slotOf'[q] \subseteq Int /\ InUse(q)' \subseteq Nat
             /\ \A t \in DOMAIN record'[q] : record'[q][t] \in Records
  <2>1. CASE q # p
    BY <1>1, <2>1 DEF InUse
  <2>2. CASE q = p
    <3>1. /\ slotOf'[p] = Bind(slotOf[p], n, s)
          /\ record'[p] = Bind(record[p], s, [name |-> n, verb |-> v])
      BY <1>1
    <3>2. DOMAIN slotOf'[p] \subseteq Int /\ InUse(p)' \subseteq Nat
      BY <1>1, <3>1, ZenonT(30) DEF Bind, InUse
    <3>3. [name |-> n, verb |-> v] \in Records
      BY DEF Records
    <3>4. \A t \in DOMAIN record'[p] : record'[p][t] \in Records
      BY <1>1, <3>1, <3>3 DEF Bind
    <3> QED BY <2>2, <3>2, <3>4
  <2> QED BY <2>1, <2>2
<1> QED BY <1>2, <1>3

LEMMA AddGlobalStep ==
  ASSUME IInv, NEW p \in Procs, addGlobal(p)
  PROVE  IInv'
<1> DEFINE c    == [do |-> "register"]
           name == pos[p] + 1
           slot == toGlobal(NewSlot(m_memreg[p].global))
           r    == [name |-> name, verb |-> NoSlot]
<1>1. /\ Collective(p, c) /\ at[p] = "user"
      /\ m_memreg' = [m_memreg EXCEPT ![p].global = Add(@)]
      /\ record'   = [record EXCEPT ![p] = Bind(@, slot, r)]
      /\ m_added'  = [m_added EXCEPT ![p] = Append(@, slot)]
      /\ slotOf'   = [slotOf EXCEPT ![p] = Bind(@, name, slot)]
      /\ pos'      = [pos EXCEPT ![p] = name]
      /\ UNCHANGED <<calls, locals, m_capacity, verbs, glob, at, next, id, aborting>>
  BY DEF addGlobal, Collective, verbsVars, syncVars
<1>2. /\ TypeOK /\ TraceKept /\ NamesKept(p) /\ InStep(p)
      /\ TableKept(p) /\ AddedKept(p) /\ EngineKept(p) /\ Kept(p)
  BY DEF IInv, Kept
<1>3. /\ CallsType /\ ProgramType /\ TableType /\ VerbsType /\ SyncType
      /\ m_memreg[p] \in CombinedRegisters /\ m_memreg[p].global \in Registers
      /\ BothWellFormed(m_memreg[p]) /\ pos[p] \in Nat /\ name \in Int
  <2>1. CallsType /\ ProgramType /\ TableType /\ VerbsType /\ SyncType
    BY <1>2 DEF TypeOK
  <2>2. m_memreg[p] \in CombinedRegisters /\ m_memreg[p].global \in Registers
    BY <2>1 DEF TableType, CombinedRegisters
  <2>3. pos[p] \in Nat
    BY <2>1 DEF ProgramType
  <2> QED BY <1>2, <2>1, <2>2, <2>3 DEF TableKept
<1>4. /\ m_memreg'[p] = [m_memreg[p] EXCEPT !.global = Add(@)]
      /\ m_memreg'[p].global = Add(m_memreg[p].global)
      /\ \A q \in Procs \ {p} : m_memreg'[q] = m_memreg[q]
  BY <1>1, <1>3 DEF TableType, CombinedRegisters
<1>5. /\ m_memreg'[p] \in CombinedRegisters /\ BothWellFormed(m_memreg'[p])
      /\ slot \in Nat /\ ~ isLocalSlot(slot)
      /\ slot \notin SlotsInHand(m_memreg[p])
      /\ SlotsInHand(m_memreg'[p]) = SlotsInHand(m_memreg[p]) \cup {slot}
  BY <1>3, <1>4, AddGlobalDeals
<1>6. m_memreg'[p].global \in Registers
  BY <1>5 DEF CombinedRegisters
<1> HIDE DEF slot, name, r, c
<1>7. /\ Dealt(m_memreg'[p].global) = After(p, c)
      /\ c \in ProgramCalls /\ c.do # "deregister"
  BY <1>3, <1>4, DealtIsEnough DEF After, c, ProgramCalls
<1>8. /\ TraceKept' /\ Grows
      /\ history' \in Seq(ProgramCalls) /\ Len(history') <= MaxCalls
      /\ trace' \in Seq([free : Seq(Nat), min : Nat])
      /\ pos[p] + 1 \in 1..Len(history')
      /\ trace'[pos[p] + 2] = Dealt(m_memreg'[p].global)
  BY <1>1, <1>2, <1>6, <1>7, CollectiveStep
<1>9. name \notin DOMAIN slotOf[p]
  BY <1>2, <1>3 DEF NamesKept, name
<1>10. /\ TableKept(p)'
       /\ InUse(p)' = InUse(p) \cup {slot} /\ slot \notin InUse(p)
       /\ record'[p][slot].verb = NoSlot
       /\ \A t \in InUse(p) : record'[p][t] = record[p][t]
  BY <1>1, <1>3, <1>5, <1>9, NewRegistration DEF r
<1>11. TypeOK'
  <2>1. m_memreg' \in [Procs -> CombinedRegisters]
    BY <1>1, <1>3, <1>4, <1>5 DEF TableType
  <2>2. /\ m_added' \in [Procs -> Seq(Nat)] /\ m_capacity' \in [Procs -> Nat]
    BY <1>1, <1>3, <1>5 DEF TableType
  <2>3. /\ DOMAIN slotOf' = Procs /\ DOMAIN record' = Procs
        /\ \A q \in Procs : /\ DOMAIN slotOf'[q] \subseteq Int /\ InUse(q)' \subseteq Nat
                          /\ \A t \in DOMAIN record'[q] : record'[q][t] \in Records
    BY <1>1, <1>2, <1>3, <1>5, NewRegistrationType DEF r
  <2>4. pos' \in [Procs -> 0..MaxCalls] /\ locals' \in [Procs -> 0..MaxLocal]
    <3>1. name \in 0..MaxCalls
      <4>1. Len(history') \in Nat /\ Len(history') <= MaxCalls /\ MaxCalls \in Nat
        BY <1>8
      <4>2. name \in 1..Len(history')
        BY <1>8 DEF name
      <4> QED BY <4>1, <4>2
    <3> QED BY <1>1, <1>3, <3>1 DEF ProgramType
  <2>5. CallsType' /\ VerbsType' /\ SyncType'
    BY <1>1, <1>3, CallsSame DEF VerbsType, SyncType
  <2> QED BY <1>8, <2>1, <2>2, <2>3, <2>4, <2>5 DEF TypeOK, ProgramType, TableType
<1>12. \A q \in Procs \ {p} : Same(q)
  BY <1>1, <1>3, <1>4 DEF Same, ProgramType, TableType
<1>13. pos'[p] = name /\ locals'[p] = locals[p] /\ at'[p] = "user"
  BY <1>1, <1>3 DEF ProgramType
<1>14. NamesKept(p)'
  <2>1. slotOf'[p] = Bind(slotOf[p], name, slot)
    BY <1>1, <1>3 DEF ProgramType
  <2>0. /\ Len(history) \in Nat /\ pos[p] <= Len(history)
        /\ \A k \in 1..Len(history) + 1 : trace'[k] = trace[k]
    BY <1>2, <1>8 DEF InStep, Grows
  <2>2. trace'[name] = Dealt(m_memreg[p].global)
    <3>1. name \in 1..Len(history) + 1
      BY <1>3, <2>0 DEF name
    <3>2. Dealt(m_memreg[p].global) = trace[name]
      BY <1>2 DEF InStep, name
    <3> QED BY <2>0, <3>1, <3>2
  <2>3. slot = toGlobal(NewSlot(trace'[name]))
    BY <1>3, <2>2, DealtIsEnough DEF slot
  <2>4. ASSUME NEW m \in DOMAIN slotOf[p]
        PROVE  \/ m \in 1..name /\ slotOf[p][m] = toGlobal(NewSlot(trace'[m]))
               \/ m < 0 /\ 0 - locals[p] <= m /\ isLocalSlot(slotOf[p][m])
    <3>1. m \in 1..pos[p] => m \in 1..name /\ trace'[m] = trace[m]
      <4>1. m \in 1..pos[p] => m \in 1..name /\ m \in 1..Len(history) + 1
        BY <1>3, <2>0 DEF name
      <4> QED BY <2>0, <4>1
    <3> QED BY <1>2, <3>1 DEF NamesKept
  <2>5. name \in 1..name
    BY <1>3 DEF name
  <2> QED BY <1>13, <2>1, <2>3, <2>4, <2>5 DEF NamesKept, Bind
<1>15. InStep(p)'
  <2>1. pos'[p] + 1 = pos[p] + 2
    BY <1>3, <1>13 DEF name
  <2> QED BY <1>8, <1>13, <2>1 DEF InStep, name
<1>16. /\ next'[p] = next[p] /\ id'[p] = id[p] /\ verbs'[p] = verbs[p] /\ next[p] = 0
       /\ m_added'[p] = Append(m_added[p], slot) /\ m_added[p] \in Seq(Nat)
  BY <1>1, <1>2, <1>3 DEF TableType, AddedKept
<1>17. /\ DOMAIN m_added'[p] = DOMAIN m_added[p] \cup {Len(m_added[p]) + 1}
       /\ \A i \in DOMAIN m_added[p] : m_added'[p][i] = m_added[p][i]
       /\ m_added'[p][Len(m_added[p]) + 1] = slot
       /\ \A i \in DOMAIN m_added'[p] : 0 <= i
  BY <1>5, <1>16, SMTT(20)
<1>18. AddedKept(p)'
  BY <1>2, <1>10, <1>13, <1>16, <1>17, SMTT(20) DEF AddedKept
<1>19. Waiting(p)' = Waiting(p) \cup {slot}
  <2>1. Waiting(p)' = {m_added'[p][i] : i \in DOMAIN m_added'[p]}
    BY <1>13, <1>16, <1>17 DEF Waiting
  <2>2. Waiting(p) = {m_added[p][i] : i \in DOMAIN m_added[p]}
    BY <1>1, <1>16 DEF Waiting
  <2> QED BY <1>17, <2>1, <2>2
<1>20. EngineKept(p)'
  <2>1. Verbs(p)' = Verbs(p) /\ Pending(p)' = Pending(p)
    BY <1>1, <1>10, <1>13 DEF Verbs, Pending
  <2>2. slot \notin Waiting(p)
    BY <1>2, <1>10 DEF Waiting, AddedKept
  <2> QED BY <1>2, <1>10, <1>13, <1>16, <1>19, <2>1, <2>2, SMTT(20) DEF EngineKept
<1> QED BY <1>8, <1>10, <1>11, <1>12, <1>14, <1>15, <1>18, <1>20, StepOf DEF Kept
LEMMA TraceSame ==
  ASSUME TraceKept, UNCHANGED <<history, trace>>
  PROVE  TraceKept'
BY DEF TraceKept, Replayed

LEMMA AddLocalStep ==
  ASSUME IInv, NEW p \in Procs, addLocal(p)
  PROVE  IInv'
<1> DEFINE name == 0 - locals[p] - 1
           slot == toLocal(NewSlot(m_memreg[p].local))
           verb == toLocal(NewSlot(verbs[p].local))
           r    == [name |-> name, verb |-> verb]
           keys == [q \in Procs |-> IF q = p THEN name ELSE NoKey]
<1>1. /\ at[p] = "user" /\ locals[p] < MaxLocal
      /\ verbs'    = [verbs EXCEPT ![p].local = Add(@)]
      /\ glob'     = [glob EXCEPT ![p] = Bind(@, verb, keys)]
      /\ m_memreg' = [m_memreg EXCEPT ![p].local = Add(@)]
      /\ record'   = [record EXCEPT ![p] = Bind(@, slot, r)]
      /\ slotOf'   = [slotOf EXCEPT ![p] = Bind(@, name, slot)]
      /\ locals'   = [locals EXCEPT ![p] = @ + 1]
      /\ UNCHANGED <<calls, history, trace, pos, m_added, m_capacity,
                     at, next, id, aborting>>
  BY DEF addLocal, syncVars
<1>2. /\ TypeOK /\ TraceKept /\ NamesKept(p) /\ InStep(p)
      /\ TableKept(p) /\ AddedKept(p) /\ EngineKept(p) /\ Kept(p)
  BY DEF IInv, Kept
<1>3. /\ CallsType /\ ProgramType /\ TableType /\ VerbsType /\ SyncType
      /\ m_memreg[p] \in CombinedRegisters /\ verbs[p] \in CombinedRegisters
      /\ BothWellFormed(m_memreg[p]) /\ BothWellFormed(verbs[p])
      /\ locals[p] \in Nat /\ name \in Int
  <2>1. CallsType /\ ProgramType /\ TableType /\ VerbsType /\ SyncType
    BY <1>2 DEF TypeOK
  <2>2. m_memreg[p] \in CombinedRegisters /\ verbs[p] \in CombinedRegisters
    BY <2>1 DEF TableType, VerbsType
  <2>3. locals[p] \in Nat
    BY <2>1 DEF ProgramType
  <2> QED BY <1>2, <2>1, <2>2, <2>3 DEF TableKept, EngineKept
<1>4. /\ m_memreg'[p] = [m_memreg[p] EXCEPT !.local = Add(@)]
      /\ m_memreg'[p].global = m_memreg[p].global
      /\ \A q \in Procs \ {p} : m_memreg'[q] = m_memreg[q]
  BY <1>1, <1>3 DEF TableType, CombinedRegisters
<1>5. /\ verbs'[p] = [verbs[p] EXCEPT !.local = Add(@)]
      /\ \A q \in Procs \ {p} : verbs'[q] = verbs[q]
  BY <1>1, <1>3 DEF VerbsType, CombinedRegisters
<1>6. /\ m_memreg'[p] \in CombinedRegisters /\ BothWellFormed(m_memreg'[p])
      /\ slot \in Nat /\ isLocalSlot(slot)
      /\ slot \notin SlotsInHand(m_memreg[p])
      /\ SlotsInHand(m_memreg'[p]) = SlotsInHand(m_memreg[p]) \cup {slot}
  BY <1>3, <1>4, AddLocalDeals
<1>7. /\ verbs'[p] \in CombinedRegisters /\ BothWellFormed(verbs'[p])
      /\ verb \in Nat
      /\ verb \notin SlotsInHand(verbs[p])
      /\ SlotsInHand(verbs'[p]) = SlotsInHand(verbs[p]) \cup {verb}
  BY <1>3, <1>5, AddLocalDeals
<1> HIDE DEF slot, name, verb, r, keys
<1>8. name \notin DOMAIN slotOf[p] /\ name < 0 /\ 0 - (locals[p] + 1) <= name
  BY <1>2, <1>3 DEF NamesKept, name
<1>9. /\ TableKept(p)'
      /\ InUse(p)' = InUse(p) \cup {slot} /\ slot \notin InUse(p)
      /\ record'[p][slot].verb = verb
      /\ \A t \in InUse(p) : record'[p][t] = record[p][t]
  BY <1>1, <1>3, <1>6, <1>7, <1>8, NewRegistration DEF r
<1>10. locals'[p] = locals[p] + 1 /\ at'[p] = "user" /\ pos'[p] = pos[p]
  BY <1>1, <1>3 DEF ProgramType
<1>11. TypeOK'
  <2>1. m_memreg' \in [Procs -> CombinedRegisters]
    BY <1>1, <1>3, <1>4, <1>6 DEF TableType
  <2>2. VerbsType'
    BY <1>1, <1>3, <1>5, <1>7 DEF VerbsType
  <2>3. /\ DOMAIN slotOf' = Procs /\ DOMAIN record' = Procs
        /\ \A q \in Procs : /\ DOMAIN slotOf'[q] \subseteq Int /\ InUse(q)' \subseteq Nat
                          /\ \A t \in DOMAIN record'[q] : record'[q][t] \in Records
    BY <1>1, <1>2, <1>3, <1>6, <1>7, NewRegistrationType DEF r
  <2>4. locals' \in [Procs -> 0..MaxLocal]
    <3>1. locals[p] + 1 \in 0..MaxLocal
      BY <1>1, <1>3
    <3> QED BY <1>1, <1>3, <3>1 DEF ProgramType
  <2>5. ProgramType'
    BY <1>1, <1>3, <2>3, <2>4 DEF ProgramType
  <2>6. TableType'
    BY <1>1, <1>3, <2>1, <2>3 DEF TableType
  <2>7. CallsType' /\ SyncType'
    BY <1>1, <1>3, CallsSame DEF SyncType
  <2> QED BY <2>2, <2>5, <2>6, <2>7 DEF TypeOK
<1>12. \A q \in Procs \ {p} : Same(q)
  BY <1>1, <1>3, <1>4, <1>5 DEF Same, ProgramType, TableType
<1>13. TraceKept' /\ Grows
  BY <1>1, <1>2, TraceSame, UnchangedGrows
<1>14. NamesKept(p)'
  <2>1. slotOf'[p] = Bind(slotOf[p], name, slot)
    BY <1>1, <1>3 DEF ProgramType
  <2>2. ASSUME NEW m \in DOMAIN slotOf[p]
        PROVE  \/ m \in 1..pos[p] /\ slotOf[p][m] = toGlobal(NewSlot(trace[m]))
               \/ m < 0 /\ 0 - (locals[p] + 1) <= m /\ isLocalSlot(slotOf[p][m])
    <3>1. m \in Int
      BY <1>3 DEF ProgramType
    <3> QED BY <1>2, <1>3, <3>1 DEF NamesKept
  <2>3. trace' = trace
    BY <1>1
  <2> QED BY <1>6, <1>8, <1>10, <2>1, <2>2, <2>3 DEF NamesKept, Bind
<1>15. InStep(p)'
  BY <1>1, <1>2, <1>4, <1>10 DEF InStep
<1>16. AddedKept(p)'
  BY <1>1, <1>2, <1>9 DEF AddedKept
<1>17. Waiting(p)' = Waiting(p)
  BY <1>1 DEF Waiting
<1>18. EngineKept(p)'
  <2>1. Verbs(p)' = Verbs(p) \cup {verb}
    BY <1>7, <1>9 DEF Verbs, NoSlot
  <2>2. Pending(p)' = {} /\ Pending(p) = {}
    BY <1>1, <1>10 DEF Pending
  <2>3. slot \notin Waiting(p)
    BY <1>2, <1>9 DEF Waiting, AddedKept
  <2>4. verb \notin Verbs(p) /\ verb # NoSlot
    BY <1>2, <1>7 DEF EngineKept, NoSlot
  <2>5. \A t \in InUse(p) : record[p][t].verb # verb
    BY <2>4 DEF Verbs
  <2> QED BY <1>2, <1>7, <1>9, <1>10, <1>17, <2>1, <2>2, <2>3, <2>4, <2>5 DEF EngineKept
<1> QED BY <1>9, <1>11, <1>12, <1>13, <1>14, <1>15, <1>16, <1>18, StepOf DEF Kept
\* Erasing an element of m_added removes it, and only it.
LEMMA EraseRemoves ==
  ASSUME NEW set \in Seq(Nat), NEW slot \in Range(set),
         \A i, j \in DOMAIN set : set[i] = set[j] => i = j
  PROVE  /\ Erase(set, slot) \in Seq(Nat)
         /\ \A i, j \in DOMAIN Erase(set, slot) :
              Erase(set, slot)[i] = Erase(set, slot)[j] => i = j
         /\ {Erase(set, slot)[i] : i \in DOMAIN Erase(set, slot)}
              = {set[i] : i \in DOMAIN set} \ {slot}
<1> DEFINE n == Len(set)
           i == CHOOSE j \in DOMAIN set : set[j] = slot
           e == [set EXCEPT ![i] = set[n]]
           f == SubSeq(e, 1, n - 1)
<1>1. i \in DOMAIN set /\ set[i] = slot
  BY DEF Range
<1>2. n \in Nat \ {0} /\ DOMAIN set = 1..n /\ i \in 1..n
  BY <1>1
<1> HIDE DEF i
<1>3. e \in [1..n -> Nat] /\ e[i] = set[n] /\ \A j \in 1..n : j # i => e[j] = set[j]
  BY <1>2
<1> HIDE DEF e
<1>4. /\ f \in Seq(Nat) /\ Len(f) = n - 1
      /\ \A j \in 1..n - 1 : f[j] = e[j]
  <2>1. \A j \in 1..n - 1 : e[j] \in Nat
    BY <1>2, <1>3
  <2>2. /\ f \in Seq(Nat)
        /\ Len(f) = IF 1 <= n - 1 THEN (n - 1) - 1 + 1 ELSE 0
        /\ \A j \in 1..(n - 1) - 1 + 1 : f[j] = e[1 + j - 1]
    <3>1. 1 \in Int /\ n - 1 \in Int
      BY <1>2
    <3> HIDE DEF n
    <3> QED BY <2>1, <3>1, SubSeqProperties
  <2> HIDE DEF n, f
  <2> QED BY <1>2, <2>2
<1>5. DOMAIN f = 1..n - 1
  BY <1>2, <1>4
<1>6. Erase(set, slot) = f
  BY DEF Erase, i, e
<1> HIDE DEF f, n
<1>7. ASSUME NEW j \in 1..n - 1
      PROVE  j \in 1..n /\ f[j] = IF j = i THEN set[n] ELSE set[j]
  <2>1. j \in 1..n
    BY <1>2
  <2>2. f[j] = e[j]
    BY <1>4
  <2>3. CASE j = i
    BY <1>3, <2>1, <2>2, <2>3
  <2>4. CASE j # i
    BY <1>3, <2>1, <2>2, <2>4
  <2> QED BY <2>3, <2>4
<1>8. ASSUME NEW j \in 1..n - 1, NEW k \in 1..n - 1, f[j] = f[k]
      PROVE  j = k
  <2>1. j # n /\ k # n /\ n \in 1..n
    BY <1>2
  <2>2. j \in 1..n /\ k \in 1..n
    BY <1>7
  <2> QED BY <1>2, <1>7, <1>8, <2>1, <2>2
<1>9. {f[j] : j \in 1..n - 1} = {set[j] : j \in 1..n} \ {slot}
  <2>1. ASSUME NEW j \in 1..n - 1 PROVE f[j] \in {set[k] : k \in 1..n} \ {slot}
    <3>1. n \in 1..n /\ j # n
      BY <1>2
    <3> QED BY <1>1, <1>2, <1>7, <3>1
  <2>2. ASSUME NEW k \in 1..n, set[k] # slot
        PROVE  \E j \in 1..n - 1 : f[j] = set[k]
    <3>1. k # i
      BY <1>1, <2>2
    <3>2. CASE k # n
      <4>1. k \in 1..n - 1
        BY <1>2, <3>2
      <4> QED BY <1>7, <3>1, <4>1
    <3>3. CASE k = n
      <4>1. i \in 1..n - 1
        BY <1>2, <3>1, <3>3
      <4> QED BY <1>7, <3>3, <4>1
    <3> QED BY <3>2, <3>3
  <2> QED BY <2>1, <2>2
<1>10. /\ \A j, k \in DOMAIN f : f[j] = f[k] => j = k
       /\ {f[j] : j \in DOMAIN f} = {set[j] : j \in DOMAIN set} \ {slot}
  BY <1>2, <1>5, <1>8, <1>9
<1>11. Erase(set, slot) \in Seq(Nat)
  BY <1>4, <1>6
<1>12. \A j, k \in DOMAIN Erase(set, slot) :
         Erase(set, slot)[j] = Erase(set, slot)[k] => j = k
  BY <1>6, <1>10
<1>13. {Erase(set, slot)[j] : j \in DOMAIN Erase(set, slot)}
         = {set[j] : j \in DOMAIN set} \ {slot}
  BY <1>6, <1>10, ZenonT(30)
<1> QED BY <1>11, <1>12, <1>13

\* Giving up a registration of p gives back its slot and, if a sync has passed
\* it, its slot of the engine; else it is no longer waiting for one.
LEMMA Removal ==
  ASSUME IInv, NEW p \in Procs, at[p] = "user",
         NEW name \in DOMAIN slotOf[p], remove(p, name)
  PROVE  /\ Kept(p)'
         /\ TableType' /\ VerbsType' /\ SyncType' /\ CallsType'
         /\ DOMAIN slotOf' = Procs
         /\ \A q \in Procs : DOMAIN slotOf'[q] \subseteq Int /\ InUse(q)' \subseteq Nat
         /\ slotOf'[p] = Unbind(slotOf[p], name)
         /\ slotOf[p][name] \in SlotsInHand(m_memreg[p])
         /\ m_memreg'[p] = removeReg(m_memreg[p], slotOf[p][name])
         /\ m_memreg'[p] \in CombinedRegisters
         /\ \A q \in Procs \ {p} : /\ m_memreg'[q] = m_memreg[q] /\ verbs'[q] = verbs[q]
                                /\ slotOf'[q] = slotOf[q] /\ m_added'[q] = m_added[q]
<1> DEFINE slot == slotOf[p][name]
<1>1. /\ RemoveBelow(p, slot)
      /\ m_memreg' = [m_memreg EXCEPT ![p] = removeReg(@, slot)]
      /\ slotOf'   = [slotOf EXCEPT ![p] = Unbind(@, name)]
      /\ UNCHANGED <<calls, locals, record, m_capacity, glob, at, next, id, aborting>>
  BY DEF remove, syncVars
<1>2. /\ CallsType /\ ProgramType /\ TableType /\ VerbsType /\ SyncType
      /\ TableKept(p) /\ AddedKept(p) /\ EngineKept(p)
  BY DEF IInv, TypeOK
<1>3. /\ m_memreg[p] \in CombinedRegisters /\ verbs[p] \in CombinedRegisters
      /\ m_added[p] \in Seq(Nat)
      /\ BothWellFormed(m_memreg[p]) /\ BothWellFormed(verbs[p])
      /\ SlotsInHand(m_memreg[p]) = InUse(p)
  BY <1>2 DEF TableType, VerbsType, TableKept, EngineKept
<1>4. slot \in InUse(p)
  BY DEF InUse
<1>5. /\ m_memreg'[p] = removeReg(m_memreg[p], slot)
      /\ m_memreg'[p] \in CombinedRegisters /\ BothWellFormed(m_memreg'[p])
      /\ SlotsInHand(m_memreg'[p]) = InUse(p) \ {slot}
  <2>1. m_memreg'[p] = removeReg(m_memreg[p], slot)
    BY <1>1, <1>2 DEF TableType
  <2> QED BY <1>3, <1>4, <2>1, RemoveRegReturns
<1>6. slotOf'[p] = Unbind(slotOf[p], name)
  BY <1>1, <1>2 DEF ProgramType
<1>7. InUse(p)' = InUse(p) \ {slot}
  <2>1. \A m \in DOMAIN slotOf[p] : slotOf[p][m] = slot => m = name
    BY <1>2 DEF TableKept
  <2>2. /\ DOMAIN slotOf'[p] = DOMAIN slotOf[p] \ {name}
        /\ \A m \in DOMAIN slotOf[p] \ {name} : slotOf'[p][m] = slotOf[p][m]
    BY <1>6 DEF Unbind, Restrict
  <2> HIDE DEF slot
  <2>3. slot = slotOf[p][name]
    BY DEF slot
  <2> QED BY <2>1, <2>2, <2>3 DEF InUse
<1>8. TableKept(p)'
  <2>1. \A m \in DOMAIN slotOf'[p] : m \in DOMAIN slotOf[p] /\ slotOf'[p][m] = slotOf[p][m]
    BY <1>6 DEF Unbind, Restrict
  <2> QED BY <1>1, <1>2, <1>5, <1>7, <2>1 DEF TableKept
<1>9. /\ at'[p] = "user" /\ next'[p] = 0 /\ next[p] = 0 /\ record' = record
      /\ Waiting(p) = {m_added[p][i] : i \in DOMAIN m_added[p]}
  <2>1. at'[p] = "user" /\ next'[p] = 0 /\ next[p] = 0 /\ record' = record
    BY <1>1, <1>2 DEF AddedKept
  <2>2. \A i \in DOMAIN m_added[p] : 0 <= i
    BY <1>3
  <2> QED BY <2>1, <2>2 DEF Waiting
<1> DEFINE verb == record[p][slot].verb
<1>10. verb = NoSlot <=> slot \in Waiting(p)
  BY <1>2, <1>4 DEF EngineKept
<1> HIDE DEF slot
<1>11. ASSUME slot \in Range(m_added[p])
       PROVE  /\ AddedKept(p)' /\ EngineKept(p)'
              /\ m_added' \in [Procs -> Seq(Nat)] /\ VerbsType'
              /\ \A q \in Procs \ {p} : m_added'[q] = m_added[q] /\ verbs'[q] = verbs[q]
  <2>1. m_added' = [m_added EXCEPT ![p] = Erase(@, slot)] /\ verbs' = verbs
    BY <1>1, <1>11 DEF RemoveBelow
  <2>2. m_added'[p] = Erase(m_added[p], slot)
    BY <1>2, <2>1 DEF TableType
  <2>3. \A i, j \in DOMAIN m_added[p] : m_added[p][i] = m_added[p][j] => i = j
    BY <1>2 DEF AddedKept
  <2>4. /\ m_added'[p] \in Seq(Nat)
        /\ \A i, j \in DOMAIN m_added'[p] : m_added'[p][i] = m_added'[p][j] => i = j
        /\ {m_added'[p][i] : i \in DOMAIN m_added'[p]}
              = {m_added[p][i] : i \in DOMAIN m_added[p]} \ {slot}
    <3>1. /\ Erase(m_added[p], slot) \in Seq(Nat)
          /\ \A i, j \in DOMAIN Erase(m_added[p], slot) :
               Erase(m_added[p], slot)[i] = Erase(m_added[p], slot)[j] => i = j
          /\ {Erase(m_added[p], slot)[i] : i \in DOMAIN Erase(m_added[p], slot)}
               = {m_added[p][i] : i \in DOMAIN m_added[p]} \ {slot}
      BY <1>3, <1>11, <2>3, EraseRemoves
    <3> QED BY <2>2, <3>1
  <2>5. Waiting(p)' = Waiting(p) \ {slot}
    <3>1. \A i \in DOMAIN m_added'[p] : 0 <= i
      BY <2>4
    <3>2. Waiting(p)' = {m_added'[p][i] : i \in DOMAIN m_added'[p]}
      BY <1>9, <3>1 DEF Waiting
    <3> QED BY <1>9, <2>4, <3>2
  <2>6. AddedKept(p)'
    <3>1. ASSUME NEW i \in DOMAIN m_added'[p] PROVE m_added'[p][i] \in InUse(p)'
      <4>1. m_added'[p][i] \in {m_added[p][j] : j \in DOMAIN m_added[p]} \ {slot}
        BY <2>4
      <4> QED BY <1>2, <1>7, <4>1 DEF AddedKept
    <3> QED BY <1>9, <2>4, <3>1 DEF AddedKept
  <2>7. verb = NoSlot
    BY <1>9, <1>10, <1>11 DEF Range
  <2>8. Verbs(p)' = Verbs(p) /\ Pending(p)' = {} /\ Pending(p) = {}
    <3>1. Verbs(p)' = {record[p][s].verb : s \in InUse(p) \ {slot}} \ {NoSlot}
      BY <1>7, <1>9 DEF Verbs
    <3> QED BY <1>9, <2>7, <3>1 DEF Verbs, Pending
  <2>9. EngineKept(p)'
    BY <1>2, <1>7, <1>9, <2>1, <2>5, <2>8 DEF EngineKept
  <2>10. /\ m_added' \in [Procs -> Seq(Nat)] /\ VerbsType'
         /\ \A q \in Procs \ {p} : m_added'[q] = m_added[q] /\ verbs'[q] = verbs[q]
    BY <1>1, <1>2, <2>1, <2>2, <2>4 DEF TableType, VerbsType
  <2> QED BY <2>6, <2>9, <2>10
<1>12. ASSUME slot \notin Range(m_added[p])
       PROVE  /\ AddedKept(p)' /\ EngineKept(p)'
              /\ m_added' \in [Procs -> Seq(Nat)] /\ VerbsType'
              /\ \A q \in Procs \ {p} : m_added'[q] = m_added[q] /\ verbs'[q] = verbs[q]
  <2>1. verbs' = [verbs EXCEPT ![p] = removeReg(@, verb)] /\ m_added' = m_added
    BY <1>1, <1>12 DEF RemoveBelow
  <2>2. verb # NoSlot
    BY <1>9, <1>10, <1>12 DEF Range
  <2>3. Pending(p)' = {} /\ Pending(p) = {}
    BY <1>9 DEF Pending
  <2>4. verb \in Verbs(p) /\ SlotsInHand(verbs[p]) = Verbs(p)
    BY <1>2, <1>4, <2>2, <2>3 DEF Verbs, EngineKept
  <2>5. /\ verbs'[p] \in CombinedRegisters /\ BothWellFormed(verbs'[p])
        /\ SlotsInHand(verbs'[p]) = Verbs(p) \ {verb}
    <3>1. verbs'[p] = removeReg(verbs[p], verb)
      BY <1>2, <2>1 DEF VerbsType
    <3> QED BY <1>3, <2>4, <3>1, RemoveRegReturns
  <2>6. \A s \in InUse(p) : s # slot => record[p][s].verb # verb
    BY <1>2, <1>4, <2>2 DEF EngineKept
  <2> HIDE DEF verb
  <2>7. verb = record[p][slot].verb
    BY DEF verb
  <2>8. Verbs(p)' = Verbs(p) \ {verb}
    BY <1>7, <1>9, <2>6, <2>7 DEF Verbs
  <2>9. Waiting(p)' = Waiting(p)
    BY <1>9, <1>1, <2>1 DEF Waiting
  <2>10. AddedKept(p)'
    <3>1. \A i \in DOMAIN m_added[p] : m_added[p][i] # slot
      BY <1>12 DEF Range
    <3> QED BY <1>2, <1>7, <1>9, <2>1, <3>1 DEF AddedKept
  <2>11. EngineKept(p)'
    BY <1>2, <1>7, <1>9, <2>3, <2>5, <2>8, <2>9 DEF EngineKept
  <2>12. /\ m_added' \in [Procs -> Seq(Nat)] /\ VerbsType'
         /\ \A q \in Procs \ {p} : m_added'[q] = m_added[q] /\ verbs'[q] = verbs[q]
    BY <1>1, <1>2, <2>1, <2>5 DEF TableType, VerbsType
  <2> QED BY <2>10, <2>11, <2>12
<1>13. /\ Kept(p)' /\ m_added' \in [Procs -> Seq(Nat)] /\ VerbsType'
       /\ \A q \in Procs \ {p} : m_added'[q] = m_added[q] /\ verbs'[q] = verbs[q]
  BY <1>8, <1>11, <1>12 DEF Kept
<1>14. TableType'
  BY <1>1, <1>2, <1>5, <1>13 DEF TableType
<1>15. SyncType' /\ CallsType'
  BY <1>1, <1>2, CallsSame DEF SyncType
<1>16. /\ DOMAIN slotOf' = Procs
       /\ \A q \in Procs \ {p} : slotOf'[q] = slotOf[q] /\ m_memreg'[q] = m_memreg[q]
  BY <1>1, <1>2 DEF ProgramType, TableType
<1>17. ASSUME NEW q \in Procs
       PROVE  DOMAIN slotOf'[q] \subseteq Int /\ InUse(q)' \subseteq Nat
  <2>1. CASE q = p
    BY <1>2, <1>6, <1>7, <2>1 DEF ProgramType, Unbind, Restrict
  <2>2. CASE q # p
    BY <1>2, <1>16, <2>2 DEF ProgramType, InUse
  <2> QED BY <2>1, <2>2
<1> QED BY <1>3, <1>4, <1>5, <1>6, <1>13, <1>14, <1>15, <1>16, <1>17 DEF slot
LEMMA RemoveGlobalStep ==
  ASSUME IInv, NEW p \in Procs, removeGlobal(p)
  PROVE  IInv'
<1>1. PICK name \in DOMAIN slotOf[p] :
        /\ name > 0 /\ remove(p, name)
        /\ Collective(p, [do |-> "deregister", name |-> name])
        /\ pos' = [pos EXCEPT ![p] = @ + 1]
  BY DEF removeGlobal
<1> DEFINE c == [do |-> "deregister", name |-> name]
           n == NewSlot(trace[name])
<1>2. /\ TypeOK /\ TraceKept /\ NamesKept(p) /\ InStep(p) /\ ProgramType
      /\ at[p] = "user" /\ pos[p] \in Nat
      /\ m_memreg[p] \in CombinedRegisters /\ m_memreg[p].global \in Registers
  <2>1. TypeOK /\ ProgramType /\ TableType /\ at[p] = "user"
    BY <1>1 DEF IInv, TypeOK, Collective
  <2>2. TraceKept /\ NamesKept(p) /\ InStep(p)
    BY DEF IInv
  <2>3. pos[p] \in Nat
    BY <2>1 DEF ProgramType
  <2>4. m_memreg[p] \in CombinedRegisters
    BY <2>1 DEF TableType
  <2>5. m_memreg[p].global \in Registers
    BY <2>4 DEF CombinedRegisters
  <2> QED BY <2>1, <2>2, <2>3, <2>4, <2>5
<1>3. name \in 1..pos[p] /\ slotOf[p][name] = toGlobal(n)
  <2>1. name \in Int
    BY <1>2 DEF ProgramType
  <2> QED BY <1>1, <1>2, <2>1 DEF NamesKept
<1>4. n \in Nat
  <2>1. trace[name] \in [free : Seq(Nat), min : Nat]
    <3>1. name \in 1..Len(trace)
      BY <1>2, <1>3 DEF TraceKept, InStep, ProgramType
    <3>2. trace \in Seq([free : Seq(Nat), min : Nat])
      BY <1>2 DEF ProgramType
    <3> DEFINE S == [free : Seq(Nat), min : Nat]
    <3> HIDE DEF S
    <3>3. trace \in Seq(S)
      BY <3>2 DEF S
    <3>4. trace[name] \in S
      BY <3>1, <3>3, ElementOfSeq
    <3> QED BY <3>4 DEF S
  <2> QED BY <2>1 DEF NewSlot
<1>5. /\ Kept(p)' /\ TableType' /\ VerbsType' /\ SyncType' /\ CallsType'
      /\ DOMAIN slotOf' = Procs
      /\ \A q \in Procs : DOMAIN slotOf'[q] \subseteq Int /\ InUse(q)' \subseteq Nat
      /\ slotOf'[p] = Unbind(slotOf[p], name)
      /\ m_memreg'[p] = removeReg(m_memreg[p], toGlobal(n))
      /\ m_memreg'[p] \in CombinedRegisters
      /\ \A q \in Procs \ {p} : /\ m_memreg'[q] = m_memreg[q] /\ verbs'[q] = verbs[q]
                             /\ slotOf'[q] = slotOf[q] /\ m_added'[q] = m_added[q]
  BY <1>1, <1>2, <1>3, Removal
<1>6. /\ m_memreg'[p].global = Remove(m_memreg[p].global, n)
      /\ m_memreg'[p].global \in Registers
  BY <1>2, <1>4, <1>5, Parity DEF removeReg, CombinedRegisters
<1>7. /\ Dealt(m_memreg'[p].global) = After(p, c)
      /\ c \in ProgramCalls /\ c.do = "deregister" /\ c.name = name
  <2>1. c \in ProgramCalls
    BY <1>2, <1>3 DEF ProgramCalls
  <2> QED BY <1>2, <1>4, <1>6, <2>1, DealtIsEnough DEF After
<1> HIDE DEF c, n
<1>8. /\ TraceKept' /\ Grows
      /\ history' \in Seq(ProgramCalls) /\ Len(history') <= MaxCalls
      /\ trace' \in Seq([free : Seq(Nat), min : Nat])
      /\ pos[p] + 1 \in 1..Len(history')
      /\ trace'[pos[p] + 2] = Dealt(m_memreg'[p].global)
  BY <1>1, <1>2, <1>3, <1>6, <1>7, CollectiveStep DEF c
<1>9. /\ pos'[p] = pos[p] + 1
      /\ UNCHANGED <<locals, record, at, next, id, aborting>>
  BY <1>1, <1>2 DEF ProgramType, remove, syncVars
<1>10. TypeOK'
  <2>1. pos' \in [Procs -> 0..MaxCalls]
    <3>1. pos[p] + 1 \in 0..MaxCalls
      <4>1. Len(history') \in Nat /\ Len(history') <= MaxCalls /\ MaxCalls \in Nat
        BY <1>8
      <4> QED BY <1>8, <4>1
    <3> QED BY <1>1, <1>2, <3>1 DEF ProgramType
  <2> QED BY <1>2, <1>5, <1>8, <1>9, <2>1 DEF TypeOK, ProgramType
<1>11. \A q \in Procs \ {p} : Same(q)
  BY <1>1, <1>2, <1>5, <1>9 DEF Same, ProgramType
<1>12. NamesKept(p)'
  <2>1. /\ Len(history) \in Nat /\ pos[p] <= Len(history)
        /\ \A k \in 1..Len(history) + 1 : trace'[k] = trace[k]
    BY <1>2, <1>8 DEF InStep, Grows
  <2>2. ASSUME NEW m \in DOMAIN slotOf[p]
        PROVE  \/ m \in 1..pos'[p] /\ slotOf[p][m] = toGlobal(NewSlot(trace'[m]))
               \/ m < 0 /\ 0 - locals'[p] <= m /\ isLocalSlot(slotOf[p][m])
    <3>1. m \in 1..pos[p] => m \in 1..pos'[p] /\ m \in 1..Len(history) + 1
      BY <1>2, <1>9, <2>1
    <3> QED BY <1>2, <1>9, <2>1, <3>1 DEF NamesKept
  <2> QED BY <1>5, <2>2 DEF NamesKept, Unbind, Restrict
<1>13. InStep(p)'
  <2>1. pos'[p] + 1 = pos[p] + 2 /\ at'[p] = "user"
    BY <1>2, <1>9
  <2>2. pos'[p] <= Len(history')
    BY <1>8, <1>9
  <2> QED BY <1>8, <2>1, <2>2 DEF InStep
<1> QED BY <1>5, <1>8, <1>10, <1>11, <1>12, <1>13, StepOf

LEMMA RemoveLocalStep ==
  ASSUME IInv, NEW p \in Procs, removeLocal(p)
  PROVE  IInv'
<1>1. PICK name \in DOMAIN slotOf[p] :
        /\ at[p] = "user" /\ name < 0 /\ remove(p, name)
        /\ UNCHANGED <<history, trace, pos>>
  BY DEF removeLocal
<1> DEFINE slot == slotOf[p][name]
<1>2. /\ TypeOK /\ TraceKept /\ NamesKept(p) /\ InStep(p) /\ ProgramType
      /\ m_memreg[p] \in CombinedRegisters /\ name \in Int
  <2>1. TypeOK /\ ProgramType /\ TableType
    BY DEF IInv, TypeOK
  <2> QED BY <2>1 DEF IInv, ProgramType, TableType
<1>3. isLocalSlot(slot)
  BY <1>1, <1>2 DEF NamesKept
<1>4. /\ Kept(p)' /\ TableType' /\ VerbsType' /\ SyncType' /\ CallsType'
      /\ DOMAIN slotOf' = Procs
      /\ \A q \in Procs : DOMAIN slotOf'[q] \subseteq Int /\ InUse(q)' \subseteq Nat
      /\ slotOf'[p] = Unbind(slotOf[p], name)
      /\ m_memreg'[p] = removeReg(m_memreg[p], slot)
      /\ \A q \in Procs \ {p} : /\ m_memreg'[q] = m_memreg[q] /\ verbs'[q] = verbs[q]
                             /\ slotOf'[q] = slotOf[q] /\ m_added'[q] = m_added[q]
  BY <1>1, Removal
<1>5. m_memreg'[p].global = m_memreg[p].global
  BY <1>2, <1>3, <1>4 DEF removeReg, CombinedRegisters
<1>6. UNCHANGED <<history, trace, pos, locals, record, at, next, id, aborting>>
  BY <1>1 DEF remove, syncVars
<1>7. TraceKept' /\ Grows
  BY <1>2, <1>6, TraceSame, UnchangedGrows
<1>8. TypeOK'
  BY <1>2, <1>4, <1>6 DEF TypeOK, ProgramType
<1>9. \A q \in Procs \ {p} : Same(q)
  BY <1>4, <1>6 DEF Same
<1>10. NamesKept(p)'
  BY <1>2, <1>4, <1>6 DEF NamesKept, Unbind, Restrict
<1>11. InStep(p)'
  BY <1>2, <1>5, <1>6 DEF InStep
<1> QED BY <1>4, <1>7, <1>8, <1>9, <1>10, <1>11, StepOf

\* However far a reservation gets, no slot in hand is touched.
LEMMA ResizeStep ==
  ASSUME IInv, NEW p \in Procs, resizeMemreg(p)
  PROVE  IInv'
<1>1. PICK size \in Nat, done \in 0..4 : reserve(p, size, done)
  <2>1. PICK n \in Sizes, done \in 0..4 : reserve(p, n + 1, done)
    BY DEF resizeMemreg
  <2> QED BY <2>1
<1> DEFINE c == m_memreg[p]
           v == verbs[p]
           d == [c EXCEPT !.global = IF done >= 1 THEN Reserve(@, size) ELSE @,
                          !.local  = IF done >= 2 THEN Reserve(@, size) ELSE @]
           w == [v EXCEPT !.global = IF done >= 3 THEN Reserve(@, size) ELSE @,
                          !.local  = IF done >= 4 THEN Reserve(@, size) ELSE @]
<1>2. /\ CallsType /\ ProgramType /\ TableType /\ VerbsType /\ SyncType
      /\ TypeOK /\ TraceKept /\ NamesKept(p) /\ InStep(p)
      /\ TableKept(p) /\ AddedKept(p) /\ EngineKept(p)
  BY DEF IInv, TypeOK
<1>3. /\ c \in CombinedRegisters /\ v \in CombinedRegisters
      /\ BothWellFormed(c) /\ BothWellFormed(v)
  BY <1>2 DEF TableType, VerbsType, TableKept, EngineKept
<1>4. ASSUME NEW x \in CombinedRegisters, BothWellFormed(x), NEW a \in BOOLEAN, NEW b \in BOOLEAN
      PROVE  LET y == [x EXCEPT !.global = IF a THEN Reserve(@, size) ELSE @,
                                !.local  = IF b THEN Reserve(@, size) ELSE @] IN
             /\ y \in CombinedRegisters /\ BothWellFormed(y)
             /\ SlotsInHand(y) = SlotsInHand(x)
             /\ Dealt(y.global) = Dealt(x.global)
  <2> DEFINE g == IF a THEN Reserve(x.global, size) ELSE x.global
             l == IF b THEN Reserve(x.local, size) ELSE x.local
             y == [x EXCEPT !.global = g, !.local = l]
  <2>1. /\ x.global \in Registers /\ x.local \in Registers
        /\ WellFormed(x.global) /\ WellFormed(x.local)
    BY <1>4 DEF CombinedRegisters, BothWellFormed
  <2>2. /\ g \in Registers /\ WellFormed(g) /\ InHand(g) = InHand(x.global)
        /\ Dealt(g) = Dealt(x.global)
    BY <2>1, ReserveKeeps, DealtIsEnough
  <2>3. l \in Registers /\ WellFormed(l) /\ InHand(l) = InHand(x.local)
    BY <2>1, ReserveKeeps
  <2> HIDE DEF g, l
  <2>4. y \in CombinedRegisters /\ y.global = g /\ y.local = l
    BY <2>2, <2>3 DEF CombinedRegisters
  <2> HIDE DEF y
  <2>5. /\ y \in CombinedRegisters /\ BothWellFormed(y)
        /\ SlotsInHand(y) = SlotsInHand(x) /\ Dealt(y.global) = Dealt(x.global)
    BY <2>2, <2>3, <2>4 DEF BothWellFormed, SlotsInHand
  <2> QED BY <2>5 DEF y, g, l
<1>5. /\ d \in CombinedRegisters /\ BothWellFormed(d) /\ SlotsInHand(d) = SlotsInHand(c)
      /\ Dealt(d.global) = Dealt(c.global)
  BY <1>3, <1>4
<1>6. w \in CombinedRegisters /\ BothWellFormed(w) /\ SlotsInHand(w) = SlotsInHand(v)
  BY <1>3, <1>4
<1>7. /\ m_memreg' = [m_memreg EXCEPT ![p] = d] /\ verbs' = [verbs EXCEPT ![p] = w]
      /\ m_capacity' \in [Procs -> Nat]
      /\ UNCHANGED <<calls, history, trace, pos, slotOf, locals, record, m_added, glob,
                     at, next, id, aborting>>
  <2>1. m_memreg' = [m_memreg EXCEPT ![p] = d] /\ verbs' = [verbs EXCEPT ![p] = w]
    BY <1>1, <1>2 DEF reserve, TableType, VerbsType
  <2>2. m_capacity' \in [Procs -> Nat]
    BY <1>1, <1>2 DEF reserve, TableType
  <2>3. UNCHANGED m_added
    BY <1>1 DEF reserve, ResizeAdded
  <2> QED BY <2>1, <2>2, <2>3 DEF resizeMemreg, programVars, syncVars
<1> HIDE DEF d, w
<1>8. /\ m_memreg'[p] = d /\ verbs'[p] = w
      /\ \A q \in Procs \ {p} : m_memreg'[q] = m_memreg[q] /\ verbs'[q] = verbs[q]
  BY <1>2, <1>7 DEF TableType, VerbsType
<1>9. /\ InUse(p)' = InUse(p) /\ Verbs(p)' = Verbs(p) /\ Pending(p)' = Pending(p)
      /\ Waiting(p)' = Waiting(p)
  BY <1>7 DEF InUse, Verbs, Pending, Waiting
<1>10. TypeOK'
  <2>1. CallsType'
    BY <1>2, <1>7, CallsSame
  <2>2. ProgramType'
    BY <1>2, <1>7 DEF ProgramType, InUse
  <2>3. TableType' /\ VerbsType' /\ SyncType'
    BY <1>2, <1>5, <1>6, <1>7 DEF TableType, VerbsType, SyncType
  <2> QED BY <2>1, <2>2, <2>3 DEF TypeOK
<1>11. Kept(p)'
  <2>1. TableKept(p)'
    BY <1>2, <1>5, <1>7, <1>8, <1>9 DEF TableKept
  <2>2. AddedKept(p)'
    BY <1>2, <1>7, <1>9 DEF AddedKept
  <2>3. EngineKept(p)'
    BY <1>2, <1>6, <1>7, <1>8, <1>9 DEF EngineKept
  <2> QED BY <2>1, <2>2, <2>3 DEF Kept
<1>12. NamesKept(p)' /\ InStep(p)'
  BY <1>2, <1>5, <1>7, <1>8 DEF NamesKept, InStep
<1>13. TraceKept' /\ Grows
  BY <1>2, <1>7, TraceSame, UnchangedGrows
<1>14. \A q \in Procs \ {p} : Same(q)
  BY <1>7, <1>8 DEF Same
<1> QED BY <1>10, <1>11, <1>12, <1>13, <1>14, StepOf

----------------------------------------------------------------------------
(* sync *)

LEMMA RegGlobalEffect ==
  ASSUME TypeOK, NEW p \in Procs, NEW i \in Nat, regGlobal(p, i)
  PROVE  /\ CallsType' /\ next' = [next EXCEPT ![p] = i]
         /\ \/ at' = [at EXCEPT ![p] = "agree"]
            \/ at' = [at EXCEPT ![p] = "failing"]
<1>1. Registered \in CallRecords /\ Failed \in CallRecords
  BY DEF Registered, Failed, CallRecords
<1>2. CallsType
  BY DEF TypeOK
<1>3. CallsType'
  BY <1>1, <1>2, EnterType DEF regGlobal
<1> QED BY <1>3 DEF regGlobal

LEMMA SyncEngineEffect ==
  ASSUME TypeOK, NEW p \in Procs, NEW vote \in BOOLEAN, NEW leaving \in BOOLEAN,
         SyncEngine(p, vote, leaving)
  PROVE  /\ CallsType' /\ next' = [next EXCEPT ![p] = 0]
         /\ \/ vote /\ at' = [at EXCEPT ![p] = "vote"] /\ pos' = pos
            \/ ~ vote /\ at' = [at EXCEPT ![p] = "user"] /\ pos' = [pos EXCEPT ![p] = @ + 1]
<1>1. [op |-> "vote", abort |-> leaving] \in CallRecords
  BY DEF CallRecords
<1>2. CallsType
  BY DEF TypeOK
<1>3. CallsType'
  BY <1>1, <1>2, EnterType, CallsSame DEF SyncEngine
<1> QED BY <1>3 DEF SyncEngine

\* In a step of sync that leaves the registrations alone, what has to be shown is
\* where p gets to.
LEMMA ProgressOf ==
  ASSUME IInv, NEW p \in Procs, TraceKept', Grows,
         history' \in Seq(ProgramCalls), Len(history') <= MaxCalls,
         trace' \in Seq([free : Seq(Nat), min : Nat]),
         UNCHANGED <<m_memreg, slotOf, locals, m_capacity>>,
         \A q \in Procs \ {p} : Same(q),
         CallsType', VerbsType', SyncType',
         m_added' \in [Procs -> Seq(Nat)], DOMAIN record' = Procs,
         \A q \in Procs : \A s \in DOMAIN record'[q] : record'[q][s] \in Records,
         \A s \in DOMAIN record[p] : s \in DOMAIN record'[p] /\ record'[p][s].name = record[p][s].name,
         \/ pos' = pos
         \/ pos' = [pos EXCEPT ![p] = @ + 1] /\ pos[p] + 1 \in 1..Len(history'),
         InStep(p)', AddedKept(p)', EngineKept(p)'
  PROVE  IInv'
<1>1. /\ TypeOK /\ ProgramType /\ TableType /\ NamesKept(p) /\ TableKept(p) /\ InStep(p)
  BY DEF IInv, TypeOK
<1>2. InUse(p)' = InUse(p)
  BY DEF InUse
<1>3. TableKept(p)'
  BY <1>1, <1>2 DEF TableKept
<1>4. pos[p] \in Nat /\ pos'[p] \in Nat /\ pos[p] <= pos'[p] /\ pos' \in [Procs -> 0..MaxCalls]
  <2>1. pos[p] \in Nat
    BY <1>1 DEF ProgramType
  <2>2. CASE pos' = pos
    BY <1>1, <2>1, <2>2 DEF ProgramType
  <2>3. CASE pos' = [pos EXCEPT ![p] = @ + 1] /\ pos[p] + 1 \in 1..Len(history')
    <3>1. Len(history') \in Nat
      OBVIOUS
    <3>2. pos[p] + 1 \in 0..MaxCalls
      BY <2>1, <2>3, <3>1
    <3> QED BY <1>1, <2>1, <2>3, <3>2 DEF ProgramType
  <2> QED BY <2>2, <2>3
<1>5. NamesKept(p)'
  <2>1. /\ Len(history) \in Nat /\ pos[p] <= Len(history)
        /\ \A k \in 1..Len(history) + 1 : trace'[k] = trace[k]
    BY <1>1 DEF InStep, Grows
  <2>2. \A m \in 1..pos[p] : m \in 1..pos'[p] /\ m \in 1..Len(history) + 1
    BY <1>4, <2>1, SMTT(20)
  <2> QED BY <1>1, <2>1, <2>2 DEF NamesKept
<1>6. TypeOK'
  <2>1. ProgramType'
    BY <1>1, <1>4, SMTT(20) DEF ProgramType, InUse
  <2>2. TableType'
    BY <1>1 DEF TableType
  <2> QED BY <2>1, <2>2 DEF TypeOK
<1> QED BY <1>3, <1>5, <1>6, StepOf DEF Kept

\* Entering sync, or leaving it at once.
LEMMA SyncStartStep ==
  ASSUME IInv, NEW p \in Procs, at[p] = "user", UNCHANGED tableVars,
         NEW vote \in BOOLEAN, NEW leaving \in BOOLEAN, SyncStart(p, vote, leaving),
         TraceKept', Grows,
         history' \in Seq(ProgramCalls), Len(history') <= MaxCalls,
         trace' \in Seq([free : Seq(Nat), min : Nat]),
         leaving => vote,
         ~ leaving => /\ pos[p] + 1 \in 1..Len(history')
                    /\ history'[pos[p] + 1].do = "sync"
                    /\ trace'[pos[p] + 2] = Dealt(m_memreg[p].global)
  PROVE  IInv'
<1>1. /\ TypeOK /\ CallsType /\ ProgramType /\ TableType /\ VerbsType /\ SyncType
      /\ InStep(p) /\ AddedKept(p) /\ EngineKept(p) /\ next[p] = 0
      /\ pos[p] \in Nat /\ m_added[p] \in Seq(Nat)
  <2>1. TypeOK /\ CallsType /\ ProgramType /\ TableType /\ VerbsType /\ SyncType
    BY DEF IInv, TypeOK
  <2>2. InStep(p) /\ AddedKept(p) /\ EngineKept(p)
    BY DEF IInv
  <2>3. next[p] = 0
    BY <2>2 DEF AddedKept
  <2>4. pos[p] \in Nat /\ m_added[p] \in Seq(Nat)
    BY <2>1 DEF ProgramType, TableType
  <2> QED BY <2>1, <2>2, <2>3, <2>4
<1>2. /\ aborting' = [aborting EXCEPT ![p] = leaving]
      /\ UNCHANGED <<slotOf, locals, verbs, glob, id, m_memreg, record, m_added, m_capacity>>
      /\ \/ m_added[p] # <<>> /\ regGlobal(p, 1) /\ UNCHANGED pos
         \/ m_added[p] = <<>> /\ SyncEngine(p, vote, leaving)
  BY DEF SyncStart, verbsVars, tableVars
<1>3. \/ /\ m_added[p] # <<>> /\ CallsType' /\ pos' = pos
         /\ next' = [next EXCEPT ![p] = 1]
         /\ \/ at' = [at EXCEPT ![p] = "agree"] \/ at' = [at EXCEPT ![p] = "failing"]
      \/ /\ m_added[p] = <<>> /\ CallsType'
         /\ next' = [next EXCEPT ![p] = 0]
         /\ \/ vote /\ at' = [at EXCEPT ![p] = "vote"] /\ pos' = pos
            \/ ~ vote /\ at' = [at EXCEPT ![p] = "user"] /\ pos' = [pos EXCEPT ![p] = @ + 1]
  BY <1>1, <1>2, RegGlobalEffect, SyncEngineEffect
<1>4. /\ SyncType' /\ VerbsType' /\ CallsType'
      /\ \A q \in Procs \ {p} : Same(q)
      /\ aborting'[p] = leaving /\ id'[p] = id[p]
  <2>1. CallsType' /\ VerbsType'
    BY <1>1, <1>2, <1>3 DEF VerbsType
  <2>2. next' \in [Procs -> Nat] /\ \A q \in Procs \ {p} : next'[q] = next[q]
    <3>1. next' = [next EXCEPT ![p] = 1] \/ next' = [next EXCEPT ![p] = 0]
      BY <1>3
    <3>2. next \in [Procs -> Nat]
      BY <1>1 DEF SyncType
    <3> QED BY <3>1, <3>2
  <2>3. at' \in [Procs -> Places] /\ \A q \in Procs \ {p} : at'[q] = at[q]
    <3>1. "agree" \in Places /\ "failing" \in Places /\ "vote" \in Places /\ "user" \in Places
      BY DEF Places
    <3>2. PICK a \in Places : at' = [at EXCEPT ![p] = a]
      BY <1>3, <3>1, Zenon
    <3> QED BY <1>1, <3>2 DEF SyncType
  <2>4. \A q \in Procs \ {p} : pos'[q] = pos[q]
    BY <1>1, <1>3 DEF ProgramType
  <2>5. /\ aborting' \in [Procs -> BOOLEAN] /\ aborting'[p] = leaving /\ id' = id
        /\ \A q \in Procs \ {p} : aborting'[q] = aborting[q]
    BY <1>1, <1>2 DEF SyncType
  <2>6. SyncType'
    BY <1>1, <2>2, <2>3, <2>5 DEF SyncType
  <2>7. \A q \in Procs \ {p} : Same(q)
    BY <1>2, <2>2, <2>3, <2>4, <2>5 DEF Same
  <2> QED BY <2>1, <2>5, <2>6, <2>7
<1>5. /\ InUse(p)' = InUse(p) /\ Verbs(p)' = Verbs(p)
  BY <1>2 DEF InUse, Verbs
<1>6. \/ /\ m_added[p] # <<>> /\ pos'[p] = pos[p] /\ pos' = pos
         /\ next'[p] = 1 /\ at'[p] \in {"agree", "failing"}
      \/ /\ m_added[p] = <<>> /\ next'[p] = 0
         /\ \/ vote /\ at'[p] = "vote" /\ pos'[p] = pos[p] /\ pos' = pos
            \/ /\ ~ vote /\ at'[p] = "user" /\ pos'[p] = pos[p] + 1
               /\ pos' = [pos EXCEPT ![p] = @ + 1]
  BY <1>1, <1>3 DEF SyncType, ProgramType
<1>7. Waiting(p)' = Waiting(p)
  <2>1. \A j \in DOMAIN m_added[p] : 0 <= j /\ 1 <= j
    BY <1>1
  <2>2. CASE m_added[p] = <<>>
    BY <1>2, <2>2 DEF Waiting
  <2>3. CASE m_added[p] # <<>>
    BY <1>1, <1>2, <1>6, <2>1, <2>3 DEF Waiting
  <2> QED BY <2>2, <2>3
<1>8. Pending(p)' = {} /\ Pending(p) = {} /\ at'[p] # "gather"
  BY <1>6 DEF Pending
<1>9. AddedKept(p)'
  <2>1. m_added[p] # <<>> => 1 \in DOMAIN m_added[p]
    BY <1>1
  <2>2. m_added' = m_added /\ InUse(p)' = InUse(p)
    BY <1>2, <1>5
  <2>3. CASE m_added[p] # <<>>
    BY <1>1, <1>6, <2>1, <2>2, <2>3 DEF AddedKept
  <2>4. CASE m_added[p] = <<>>
    BY <1>1, <1>6, <2>2, <2>4 DEF AddedKept
  <2> QED BY <2>3, <2>4
<1>10. EngineKept(p)'
  BY <1>1, <1>2, <1>5, <1>7, <1>8 DEF EngineKept
<1>11. InStep(p)'
  <2>1. Dealt(m_memreg[p].global) = trace'[pos[p] + 1] /\ pos[p] <= Len(history')
    <3>1. pos[p] + 1 \in 1..Len(history) + 1 /\ pos[p] <= Len(history')
      BY <1>1 DEF InStep, Grows
    <3> QED BY <1>1, <3>1 DEF InStep, Grows
  <2>2. CASE pos'[p] = pos[p]
    <3>1. ~ leaving => pos[p] < Len(history')
      BY <1>1 DEF Grows
    <3> QED BY <1>2, <1>4, <2>1, <2>2, <3>1 DEF InStep
  <2>3. CASE pos'[p] = pos[p] + 1 /\ at'[p] = "user" /\ ~ vote
    <3>1. (pos[p] + 1) + 1 = pos[p] + 2 /\ pos[p] + 1 <= Len(history')
      BY <1>1, <2>3 DEF Grows
    <3> QED BY <1>2, <2>3, <3>1 DEF InStep
  <2> QED BY <1>6, <2>2, <2>3
<1>12. \/ pos' = pos
       \/ pos' = [pos EXCEPT ![p] = @ + 1] /\ pos[p] + 1 \in 1..Len(history')
  BY <1>6
<1> QED BY <1>1, <1>2, <1>4, <1>9, <1>10, <1>11, <1>12, ProgressOf DEF TableType

LEMMA SyncCallStep ==
  ASSUME IInv, NEW p \in Procs, sync(p)
  PROVE  IInv'
<1>1. PICK vote \in BOOLEAN :
        /\ Collective(p, [do |-> "sync", vote |-> vote])
        /\ SyncStart(p, vote, FALSE)
  BY DEF sync
<1> DEFINE c == [do |-> "sync", vote |-> vote]
<1>2. /\ TypeOK /\ TraceKept /\ InStep(p) /\ UNCHANGED tableVars
      /\ at[p] = "user" /\ m_memreg' = m_memreg /\ m_memreg[p].global \in Registers
  BY <1>1 DEF IInv, TypeOK, TableType, CombinedRegisters, sync, tableVars, Collective
<1>3. c \in ProgramCalls /\ Dealt(m_memreg'[p].global) = After(p, c) /\ c.do = "sync"
  BY <1>2 DEF ProgramCalls, After
<1> HIDE DEF c
<1>4. /\ TraceKept' /\ Grows
      /\ history' \in Seq(ProgramCalls) /\ Len(history') <= MaxCalls
      /\ trace' \in Seq([free : Seq(Nat), min : Nat])
      /\ pos[p] + 1 \in 1..Len(history')
      /\ history'[pos[p] + 1] = c
      /\ trace'[pos[p] + 2] = Dealt(m_memreg'[p].global)
  BY <1>1, <1>2, <1>3, CollectiveStep DEF c
<1> QED BY <1>1, <1>2, <1>3, <1>4, SyncStartStep

LEMMA AbortStep ==
  ASSUME IInv, NEW p \in Procs, abort(p)
  PROVE  IInv'
<1>1. /\ at[p] = "user" /\ SyncStart(p, TRUE, TRUE) /\ UNCHANGED tableVars
      /\ UNCHANGED <<history, trace>>
  BY DEF abort, tableVars
<1>2. TypeOK /\ TraceKept /\ ProgramType
  BY DEF IInv, TypeOK
<1>3. TraceKept' /\ Grows
  BY <1>1, <1>2, TraceSame, UnchangedGrows
<1> QED BY <1>1, <1>2, <1>3, SyncStartStep DEF ProgramType

\* A step that changes only where p is, and the slot of the engine it has taken.
LEMMA SyncTypeOf ==
  ASSUME SyncType, NEW p \in Procs, NEW a \in Places, at' = [at EXCEPT ![p] = a],
         NEW n \in Nat, next' = [next EXCEPT ![p] = n],
         NEW i \in Nat \cup {NoSlot}, id' = [id EXCEPT ![p] = i],
         aborting' = aborting
  PROVE  /\ SyncType' /\ at'[p] = a /\ next'[p] = n /\ id'[p] = i
         /\ \A q \in Procs \ {p} : at'[q] = at[q] /\ next'[q] = next[q] /\ id'[q] = id[q]
<1>1. at \in [Procs -> Places] /\ next \in [Procs -> Nat]
      /\ id \in [Procs -> Nat \cup {NoSlot}] /\ aborting \in [Procs -> BOOLEAN]
  BY DEF SyncType
<1>2. /\ at' \in [Procs -> Places] /\ at'[p] = a
      /\ \A q \in Procs \ {p} : at'[q] = at[q]
  BY <1>1
<1>3. /\ next' \in [Procs -> Nat] /\ next'[p] = n
      /\ \A q \in Procs \ {p} : next'[q] = next[q]
  BY <1>1
<1>4. /\ id' \in [Procs -> Nat \cup {NoSlot}] /\ id'[p] = i
      /\ \A q \in Procs \ {p} : id'[q] = id[q]
  BY <1>1
<1> QED BY <1>1, <1>2, <1>3, <1>4 DEF SyncType

LEMMA FailingStep ==
  ASSUME IInv, NEW p \in Procs, Failing(p) \/ (Agreed(p) /\ at'[p] = "threw")
  PROVE  IInv'
<1>1. /\ TypeOK /\ CallsType /\ ProgramType /\ TableType /\ VerbsType /\ SyncType
      /\ TraceKept /\ InStep(p) /\ AddedKept(p) /\ EngineKept(p)
  BY DEF IInv, TypeOK
<1>2. /\ at[p] \in {"agree", "failing"} /\ at' = [at EXCEPT ![p] = "threw"]
      /\ UNCHANGED <<calls, history, trace, pos, slotOf, locals, m_memreg, record, m_added,
                     m_capacity, verbs, glob, next, id, aborting>>
  <2>1. CASE Failing(p)
    BY <2>1 DEF Failing, programVars, tableVars, verbsVars
  <2>2. CASE Agreed(p) /\ at'[p] = "threw"
    <3>1. at' # [at EXCEPT ![p] = "gather"]
      BY <1>1, <2>2 DEF SyncType
    <3> QED BY <2>2, <3>1 DEF Agreed, programVars, tableVars, verbsVars
  <2> QED BY <2>1, <2>2
<1>3. at'[p] = "threw" /\ SyncType' /\ \A q \in Procs \ {p} : at'[q] = at[q]
  <2>1. "threw" \in Places
    BY DEF Places
  <2>2. at \in [Procs -> Places]
    BY <1>1 DEF SyncType
  <2>3. /\ at' \in [Procs -> Places] /\ at'[p] = "threw"
        /\ \A q \in Procs \ {p} : at'[q] = at[q]
    BY <1>2, <2>1, <2>2
  <2> QED BY <1>1, <1>2, <2>3 DEF SyncType
<1>4. CallsType' /\ VerbsType' /\ \A q \in Procs \ {p} : Same(q)
  BY <1>1, <1>2, <1>3, CallsSame DEF VerbsType, Same
<1>5. /\ InUse(p)' = InUse(p) /\ Verbs(p)' = Verbs(p)
      /\ Waiting(p)' = Waiting(p) /\ Pending(p)' = Pending(p)
  BY <1>2, <1>3 DEF InUse, Verbs, Waiting, Pending
<1>6. InStep(p)' /\ AddedKept(p)' /\ EngineKept(p)'
  <2>1. InStep(p)'
    BY <1>1, <1>2, <1>3 DEF InStep
  <2>2. AddedKept(p)'
    BY <1>1, <1>2, <1>3, <1>5 DEF AddedKept
  <2>3. EngineKept(p)'
    BY <1>1, <1>2, <1>3, <1>5 DEF EngineKept
  <2> QED BY <2>1, <2>2, <2>3
<1>7. TraceKept' /\ Grows
  BY <1>1, <1>2, TraceSame, UnchangedGrows
<1> QED BY <1>1, <1>2, <1>3, <1>4, <1>6, <1>7, ProgressOf DEF ProgramType, TableType

\* Everybody has registered: p takes a slot of the engine.
LEMMA AgreedStep ==
  ASSUME IInv, NEW p \in Procs, Agreed(p), at'[p] # "threw"
  PROVE  IInv'
<1> DEFINE i == toGlobal(NewSlot(verbs[p].global))
<1>1. /\ TypeOK /\ CallsType /\ ProgramType /\ TableType /\ VerbsType /\ SyncType
      /\ TraceKept /\ InStep(p) /\ AddedKept(p) /\ EngineKept(p) /\ TableKept(p)
  BY DEF IInv, TypeOK
<1>2. /\ at[p] = "agree" /\ at' = [at EXCEPT ![p] = "gather"]
      /\ id' = [id EXCEPT ![p] = i]
      /\ verbs' = [verbs EXCEPT ![p].global = Add(@)]
      /\ glob' = [glob EXCEPT ![p] = Bind(@, id'[p], [q \in Procs |-> NoKey])]
      /\ Enter(p, [op |-> "allgather", key |-> Current(p)])
      /\ UNCHANGED <<history, trace, pos, slotOf, locals, m_memreg, record, m_added,
                     m_capacity, next, aborting>>
  <2>1. at' # [at EXCEPT ![p] = "threw"]
    BY <1>1 DEF SyncType
  <2> QED BY <2>1 DEF Agreed, AddVerb, programVars, tableVars
<1>3. verbs[p] \in CombinedRegisters /\ BothWellFormed(verbs[p])
  BY <1>1 DEF VerbsType, EngineKept
<1>4. verbs'[p] = [verbs[p] EXCEPT !.global = Add(@)] /\ verbs \in [Procs -> CombinedRegisters]
  BY <1>1, <1>2 DEF VerbsType, CombinedRegisters
<1>5. /\ verbs'[p] \in CombinedRegisters /\ BothWellFormed(verbs'[p])
      /\ i \in Nat /\ i \notin SlotsInHand(verbs[p])
      /\ SlotsInHand(verbs'[p]) = SlotsInHand(verbs[p]) \cup {i}
  BY <1>3, <1>4, AddGlobalDeals
<1> HIDE DEF i
<1>6. /\ SyncType' /\ at'[p] = "gather" /\ next'[p] = next[p] /\ id'[p] = i
      /\ \A q \in Procs \ {p} : at'[q] = at[q] /\ next'[q] = next[q] /\ id'[q] = id[q]
  <2>1. "gather" \in Places /\ next[p] \in Nat /\ next' = [next EXCEPT ![p] = next[p]]
    BY <1>1, <1>2 DEF Places, SyncType
  <2>2. i \in Nat \cup {NoSlot}
    BY <1>5
  <2> QED BY <1>1, <1>2, <2>1, <2>2, SyncTypeOf
<1>7. VerbsType' /\ \A q \in Procs \ {p} : verbs'[q] = verbs[q]
  <2>1. DOMAIN glob' = Procs
    BY <1>1, <1>2 DEF VerbsType
  <2>2. verbs' = [verbs EXCEPT ![p] = [verbs[p] EXCEPT !.global = Add(@)]]
    BY <1>2, <1>4
  <2>3. /\ verbs' \in [Procs -> CombinedRegisters]
        /\ \A q \in Procs \ {p} : verbs'[q] = verbs[q]
    BY <1>4, <1>5, <2>2
  <2> QED BY <2>1, <2>3 DEF VerbsType
<1>8. \A q \in Procs \ {p} : Same(q)
  BY <1>2, <1>6, <1>7 DEF Same
<1>9. CallsType'
  <2>1. next[p] \in DOMAIN m_added[p]
    BY <1>1, <1>2 DEF AddedKept
  <2>2. m_added[p][next[p]] \in InUse(p)
    BY <1>1, <2>1 DEF AddedKept
  <2>3. \A s \in InUse(p) : s \in DOMAIN record[p] /\ record[p][s].name \in Int
    BY <1>1 DEF TableKept, InUse, TableType, Records
  <2>4. [op |-> "allgather", key |-> Current(p)] \in CallRecords
    BY <2>2, <2>3 DEF Current, CallRecords
  <2> QED BY <1>1, <1>2, <2>4, EnterType
<1>10. /\ InUse(p)' = InUse(p) /\ Verbs(p)' = Verbs(p) /\ Waiting(p)' = Waiting(p)
       /\ Pending(p)' = {i} /\ Pending(p) = {}
  BY <1>2, <1>6 DEF InUse, Verbs, Waiting, Pending
<1>11. EngineKept(p)'
  <2>1. SlotsInHand(verbs[p]) = Verbs(p)
    BY <1>1, <1>10 DEF EngineKept
  <2> QED BY <1>1, <1>2, <1>5, <1>6, <1>10, <2>1 DEF EngineKept
<1>12. AddedKept(p)'
  BY <1>1, <1>2, <1>6, <1>10 DEF AddedKept
<1>13. InStep(p)'
  BY <1>1, <1>2, <1>6 DEF InStep
<1>14. TraceKept' /\ Grows
  BY <1>1, <1>2, TraceSame, UnchangedGrows
<1> QED BY <1>1, <1>2, <1>6, <1>7, <1>8, <1>9, <1>11, <1>12, <1>13, <1>14, ProgressOf
        DEF ProgramType, TableType

\* The registration that was exchanged has its slot of the engine.
LEMMA GatheredStep ==
  ASSUME IInv, NEW p \in Procs, Gathered(p)
  PROVE  IInv'
<1> DEFINE s == m_added[p][next[p]]
<1>1. /\ TypeOK /\ CallsType /\ ProgramType /\ TableType /\ VerbsType /\ SyncType
      /\ TraceKept /\ InStep(p) /\ AddedKept(p) /\ EngineKept(p) /\ TableKept(p)
  BY DEF IInv, TypeOK
<1>2. /\ at[p] = "gather"
      /\ glob'   = [glob EXCEPT ![p][id[p]] = [q \in Procs |-> Contributions(p)[q].key]]
      /\ record' = [record EXCEPT ![p][s].verb = id[p]]
      /\ id'     = [id EXCEPT ![p] = NoSlot]
      /\ \/ next[p] < Len(m_added[p]) /\ regGlobal(p, next[p] + 1)
         \/ /\ next[p] = Len(m_added[p])
            /\ Enter(p, [op |-> "barrier"])
            /\ at' = [at EXCEPT ![p] = "barrier"]
            /\ next' = next
      /\ UNCHANGED <<history, trace, pos, slotOf, locals, m_memreg, m_added, m_capacity,
                     verbs, aborting>>
  BY DEF Gathered, programVars
<1>3. /\ next[p] \in DOMAIN m_added[p] /\ s \in InUse(p) /\ m_added[p] \in Seq(Nat)
      /\ next[p] \in Nat /\ id[p] \in Nat \ Verbs(p)
      /\ DOMAIN record = Procs /\ s \in DOMAIN record[p]
  <2>1. next[p] \in DOMAIN m_added[p] /\ s \in InUse(p) /\ m_added[p] \in Seq(Nat)
    BY <1>1, <1>2 DEF AddedKept, TableType
  <2>2. next[p] \in Nat /\ id[p] \in Nat \ Verbs(p)
    BY <1>1, <1>2 DEF SyncType, EngineKept
  <2>3. s \in DOMAIN record[p]
    BY <1>1, <2>1 DEF TableKept, InUse
  <2> QED BY <1>1, <2>1, <2>2, <2>3 DEF TableType
<1>4. /\ DOMAIN record' = Procs /\ DOMAIN record'[p] = DOMAIN record[p]
      /\ record'[p][s] = [record[p][s] EXCEPT !.verb = id[p]]
      /\ \A t \in DOMAIN record[p] : t # s => record'[p][t] = record[p][t]
      /\ \A q \in Procs \ {p} : record'[q] = record[q]
  BY <1>2, <1>3
<1>5. /\ record'[p][s] \in Records /\ record'[p][s].verb = id[p]
      /\ record'[p][s].name = record[p][s].name
  <2>1. record[p][s] \in Records /\ id[p] \in Nat \cup {NoSlot}
    BY <1>1, <1>3 DEF TableType
  <2> DEFINE r == record[p][s]
  <2>2. \A v \in Nat \cup {NoSlot} : /\ [r EXCEPT !.verb = v] \in Records
                                   /\ [r EXCEPT !.verb = v].verb = v
                                   /\ [r EXCEPT !.verb = v].name = r.name
    <3> HIDE DEF r
    <3>1. r \in Records
      BY <2>1 DEF r
    <3> QED BY <3>1 DEF Records
  <2> QED BY <1>4, <2>1, <2>2
<1>6. \/ /\ next[p] < Len(m_added[p]) /\ CallsType'
         /\ next' = [next EXCEPT ![p] = next[p] + 1]
         /\ \E a \in {"agree", "failing"} : at' = [at EXCEPT ![p] = a]
      \/ /\ next[p] = Len(m_added[p]) /\ CallsType'
         /\ next' = [next EXCEPT ![p] = next[p]]
         /\ at' = [at EXCEPT ![p] = "barrier"]
  <2>1. CASE next[p] < Len(m_added[p]) /\ regGlobal(p, next[p] + 1)
    BY <1>1, <1>3, <2>1, RegGlobalEffect
  <2>2. CASE /\ next[p] = Len(m_added[p])
             /\ Enter(p, [op |-> "barrier"])
             /\ at' = [at EXCEPT ![p] = "barrier"]
             /\ next' = next
    <3>1. [op |-> "barrier"] \in CallRecords
      BY DEF CallRecords
    <3>2. CallsType'
      BY <1>1, <2>2, <3>1, EnterType
    <3>3. next' = [next EXCEPT ![p] = next[p]]
      BY <1>1, <2>2 DEF SyncType
    <3> QED BY <2>2, <3>2, <3>3
  <2> QED BY <1>2, <2>1, <2>2
<1>7. PICK a \in {"agree", "failing", "barrier"}, n \in Nat :
        /\ at' = [at EXCEPT ![p] = a] /\ next' = [next EXCEPT ![p] = n] /\ CallsType'
        /\ \/ a # "barrier" /\ next[p] < Len(m_added[p]) /\ n = next[p] + 1
           \/ a = "barrier" /\ next[p] = Len(m_added[p]) /\ n = next[p]
  <2>1. CASE /\ next[p] < Len(m_added[p]) /\ CallsType'
             /\ next' = [next EXCEPT ![p] = next[p] + 1]
             /\ \E a \in {"agree", "failing"} : at' = [at EXCEPT ![p] = a]
    <3>1. PICK a \in {"agree", "failing"} : at' = [at EXCEPT ![p] = a]
      BY <2>1
    <3>2. next[p] + 1 \in Nat /\ a \in {"agree", "failing", "barrier"} /\ a # "barrier"
      BY <1>3
    <3> QED BY <2>1, <3>1, <3>2
  <2>2. CASE /\ next[p] = Len(m_added[p]) /\ CallsType'
             /\ next' = [next EXCEPT ![p] = next[p]]
             /\ at' = [at EXCEPT ![p] = "barrier"]
    BY <1>3, <2>2
  <2> QED BY <1>6, <2>1, <2>2
<1>8. /\ SyncType' /\ at'[p] = a /\ next'[p] = n /\ id'[p] = NoSlot
      /\ \A q \in Procs \ {p} : at'[q] = at[q] /\ next'[q] = next[q] /\ id'[q] = id[q]
  <2>1. a \in Places /\ NoSlot \in Nat \cup {NoSlot}
    BY DEF Places
  <2> QED BY <1>1, <1>2, <1>7, <2>1, SyncTypeOf
<1>9. VerbsType' /\ \A q \in Procs \ {p} : Same(q)
  BY <1>1, <1>2, <1>4, <1>8 DEF VerbsType, Same
<1> HIDE DEF s
<1>10. InUse(p)' = InUse(p) /\ Pending(p)' = {} /\ Pending(p) = {id[p]}
  BY <1>2, <1>8 DEF InUse, Pending
<1>11. /\ \A t \in InUse(p) : t # s => record'[p][t].verb = record[p][t].verb
       /\ \A t \in InUse(p) : t \in DOMAIN record[p]
  BY <1>1, <1>4 DEF TableKept, InUse
<1>12. record[p][s].verb = NoSlot
  <2>1. s \in Waiting(p)
    BY <1>2, <1>3 DEF Waiting, s
  <2> QED BY <1>1, <1>3, <2>1 DEF EngineKept
<1>13. Verbs(p)' = Verbs(p) \cup {id[p]}
  <2>1. Verbs(p)' = {record'[p][t].verb : t \in InUse(p)} \ {NoSlot}
    BY <1>10 DEF Verbs
  <2>2. id[p] # NoSlot
    BY <1>3 DEF NoSlot
  <2>3. Verbs(p)' \subseteq Verbs(p) \cup {id[p]}
    <3>1. ASSUME NEW v \in Verbs(p)'
          PROVE  v \in Verbs(p) \cup {id[p]}
      <4>1. PICK t \in InUse(p) : v = record'[p][t].verb /\ v # NoSlot
        BY <2>1
      <4> QED BY <1>5, <1>11, <4>1 DEF Verbs
    <3> QED BY <3>1
  <2>4. Verbs(p) \subseteq Verbs(p)'
    <3>1. ASSUME NEW v \in Verbs(p)
          PROVE  v \in Verbs(p)'
      <4>1. PICK t \in InUse(p) : v = record[p][t].verb /\ v # NoSlot
        BY DEF Verbs
      <4>2. t # s
        BY <1>12, <4>1
      <4> QED BY <1>11, <2>1, <4>1, <4>2
    <3> QED BY <3>1
  <2>5. id[p] \in Verbs(p)'
    BY <1>3, <1>5, <2>1, <2>2
  <2> QED BY <2>3, <2>4, <2>5
<1>14. Waiting(p)' = Waiting(p) \ {s}
  <2>1. \A j, k \in DOMAIN m_added[p] : m_added[p][j] = m_added[p][k] => j = k
    BY <1>1 DEF AddedKept
  <2>2. Waiting(p) = {m_added[p][j] : j \in {k \in DOMAIN m_added[p] : next[p] <= k}}
    BY <1>2 DEF Waiting
  <2>3. CASE a # "barrier" /\ n = next[p] + 1
    <3>1. Waiting(p)' = {m_added[p][j] : j \in {k \in DOMAIN m_added[p] : next[p] + 1 <= k}}
      BY <1>2, <1>8, <2>3 DEF Waiting
    <3>2. \A k \in DOMAIN m_added[p] : (next[p] + 1 <= k) <=> (next[p] <= k /\ k # next[p])
      BY <1>3
    <3> QED BY <1>3, <2>1, <2>2, <3>1, <3>2 DEF s
  <2>4. CASE a = "barrier" /\ next[p] = Len(m_added[p])
    <3>1. Waiting(p)' = {}
      BY <1>8, <2>4 DEF Waiting
    <3>2. \A k \in DOMAIN m_added[p] : next[p] <= k => k = next[p]
      BY <1>3, <2>4
    <3> QED BY <2>2, <3>1, <3>2 DEF s
  <2> QED BY <1>7, <2>3, <2>4
<1>15. EngineKept(p)'
  <2>1. /\ BothWellFormed(verbs'[p])
        /\ SlotsInHand(verbs'[p]) = Verbs(p)' \cup Pending(p)'
    BY <1>1, <1>2, <1>10, <1>13 DEF EngineKept
  <2>2. at'[p] # "gather"
    BY <1>8
  <2>3. ASSUME NEW t \in InUse(p)
        PROVE  record'[p][t].verb = NoSlot <=> t \in Waiting(p)'
    <3>1. CASE t = s
      BY <1>3, <1>5, <1>14, <3>1 DEF NoSlot
    <3>2. CASE t # s
      BY <1>1, <1>11, <1>14, <3>2 DEF EngineKept
    <3> QED BY <3>1, <3>2
  <2>4. ASSUME NEW t \in InUse(p), NEW u \in InUse(p), t # u, record'[p][t].verb # NoSlot
        PROVE  record'[p][t].verb # record'[p][u].verb
    <3>1. \A x \in InUse(p) : record[p][x].verb # id[p]
      BY <1>3 DEF Verbs, NoSlot
    <3>2. CASE t = s
      BY <1>5, <1>11, <2>4, <3>1, <3>2
    <3>3. CASE u = s
      BY <1>5, <1>11, <2>4, <3>1, <3>3
    <3>4. CASE t # s /\ u # s
      BY <1>1, <1>11, <2>4, <3>4 DEF EngineKept
    <3> QED BY <3>2, <3>3, <3>4
  <2> QED BY <1>10, <2>1, <2>2, <2>3, <2>4 DEF EngineKept
<1>16. AddedKept(p)'
  <2>1. a # "barrier" => n \in DOMAIN m_added[p]
    BY <1>3, <1>7
  <2> QED BY <1>1, <1>2, <1>8, <1>10, <2>1 DEF AddedKept
<1>17. InStep(p)'
  BY <1>1, <1>2, <1>8 DEF InStep
<1>18. TraceKept' /\ Grows
  BY <1>1, <1>2, TraceSame, UnchangedGrows
<1>19. \A q \in Procs : \A t \in DOMAIN record'[q] : record'[q][t] \in Records
  BY <1>1, <1>4, <1>5 DEF TableType
<1> QED BY <1>1, <1>2, <1>4, <1>5, <1>7, <1>8, <1>9, <1>15, <1>16, <1>17, <1>18, <1>19, ProgressOf
        DEF ProgramType, TableType

\* A sync leaves the trace as it is, and p is in step when it is over.
LEMMA SyncIsNext ==
  ASSUME TypeOK, TraceKept, NEW p \in Procs, InStep(p),
         at[p] \in {"barrier", "vote"}, ~ aborting[p]
  PROVE  /\ pos[p] + 1 \in 1..Len(history) /\ pos[p] \in Nat
         /\ trace[(pos[p] + 1) + 1] = Dealt(m_memreg[p].global)
         /\ Votes(p) \in BOOLEAN
<1>1. /\ pos[p] \in Nat /\ Len(history) \in Nat /\ pos[p] < Len(history)
      /\ history[pos[p] + 1].do = "sync" /\ Dealt(m_memreg[p].global) = trace[pos[p] + 1]
  BY SMTT(20) DEF InStep, TypeOK, ProgramType
<1>2. pos[p] + 1 \in 1..Len(history)
  BY <1>1
<1>3. Replayed(pos[p] + 1) /\ history[pos[p] + 1] \in ProgramCalls
  <2>1. history \in Seq(ProgramCalls)
    BY DEF TypeOK, ProgramType
  <2> QED BY <1>2, <2>1, ElementOfSeq DEF TraceKept
<1>4. history[pos[p] + 1].vote \in BOOLEAN
  BY <1>1, <1>3 DEF ProgramCalls
<1> QED BY <1>1, <1>2, <1>3, <1>4 DEF Replayed, Votes

\* All keys have been exchanged.
LEMMA FencedStep ==
  ASSUME IInv, NEW p \in Procs, Fenced(p)
  PROVE  IInv'
<1>1. /\ TypeOK /\ CallsType /\ ProgramType /\ TableType /\ VerbsType /\ SyncType
      /\ TraceKept /\ InStep(p) /\ AddedKept(p) /\ EngineKept(p)
  BY DEF IInv, TypeOK
<1>2. /\ at[p] = "barrier" /\ m_added' = [m_added EXCEPT ![p] = <<>>]
      /\ SyncEngine(p, Votes(p), aborting[p])
      /\ UNCHANGED <<history, trace, slotOf, locals, m_memreg, record, m_capacity,
                     verbs, glob, id, aborting>>
  BY DEF Fenced, ClearAdded, verbsVars
<1>3. ~ aborting[p] => /\ pos[p] + 1 \in 1..Len(history) /\ pos[p] \in Nat
                       /\ trace[(pos[p] + 1) + 1] = Dealt(m_memreg[p].global)
                       /\ Votes(p) \in BOOLEAN
  BY <1>1, <1>2, SyncIsNext
<1>4. aborting[p] \in BOOLEAN /\ Votes(p) \in BOOLEAN /\ (aborting[p] => Votes(p))
  BY <1>1, <1>3 DEF SyncType, Votes
<1>5. /\ CallsType' /\ next' = [next EXCEPT ![p] = 0]
      /\ \/ Votes(p) /\ at' = [at EXCEPT ![p] = "vote"] /\ pos' = pos
         \/ ~ Votes(p) /\ at' = [at EXCEPT ![p] = "user"] /\ pos' = [pos EXCEPT ![p] = @ + 1]
  BY <1>1, <1>2, <1>4, SyncEngineEffect
<1>6. PICK a \in {"vote", "user"} : at' = [at EXCEPT ![p] = a] /\ (a = "vote" <=> Votes(p))
  <2>1. CASE Votes(p)
    BY <1>5, <2>1
  <2>2. CASE ~ Votes(p)
    BY <1>5, <2>2
  <2> QED BY <2>1, <2>2
<1>7. /\ SyncType' /\ at'[p] = a /\ next'[p] = 0 /\ id'[p] = id[p]
      /\ \A q \in Procs \ {p} : at'[q] = at[q] /\ next'[q] = next[q] /\ id'[q] = id[q]
  <2>1. a \in Places /\ id[p] \in Nat \cup {NoSlot} /\ id' = [id EXCEPT ![p] = id[p]]
    BY <1>1, <1>2 DEF Places, SyncType
  <2> QED BY <1>1, <1>2, <1>5, <1>6, <2>1, SyncTypeOf, ZenonT(30)
<1>8. \/ a = "vote" /\ pos' = pos /\ pos'[p] = pos[p]
      \/ /\ a = "user" /\ pos' = [pos EXCEPT ![p] = @ + 1]
         /\ pos'[p] = pos[p] + 1 /\ ~ aborting[p]
  <2>1. CASE Votes(p)
    BY <1>5, <1>6, <2>1
  <2>2. CASE ~ Votes(p)
    BY <1>1, <1>4, <1>5, <1>6, <2>2 DEF ProgramType
  <2> QED BY <2>1, <2>2
<1>9. /\ VerbsType' /\ m_added' \in [Procs -> Seq(Nat)] /\ m_added'[p] = <<>>
      /\ \A q \in Procs \ {p} : Same(q)
  <2>1. /\ m_added' \in [Procs -> Seq(Nat)] /\ m_added'[p] = <<>>
        /\ \A q \in Procs \ {p} : m_added'[q] = m_added[q]
    BY <1>1, <1>2 DEF TableType
  <2>2. \A q \in Procs \ {p} : pos'[q] = pos[q]
    BY <1>1, <1>8 DEF ProgramType
  <2> QED BY <1>1, <1>2, <1>7, <2>1, <2>2 DEF VerbsType, Same
<1>10. /\ InUse(p)' = InUse(p) /\ Verbs(p)' = Verbs(p) /\ Waiting(p) = {} /\ Waiting(p)' = {}
       /\ Pending(p) = {} /\ Pending(p)' = {}
  BY <1>2, <1>7, <1>9 DEF InUse, Verbs, Waiting, Pending
<1>11. EngineKept(p)'
  BY <1>1, <1>2, <1>7, <1>10 DEF EngineKept
<1>12. AddedKept(p)'
  BY <1>7, <1>9 DEF AddedKept
<1>13. InStep(p)'
  <2>1. pos[p] <= Len(history) /\ Dealt(m_memreg[p].global) = trace[pos[p] + 1]
    BY <1>1 DEF InStep
  <2>2. CASE a = "vote" /\ pos'[p] = pos[p]
    BY <1>1, <1>2, <1>7, <2>2 DEF InStep
  <2>3. CASE a = "user" /\ pos'[p] = pos[p] + 1 /\ ~ aborting[p]
    BY <1>2, <1>3, <1>7, <2>3 DEF InStep
  <2> QED BY <1>8, <2>2, <2>3
<1>14. TraceKept' /\ Grows
  BY <1>1, <1>2, TraceSame, UnchangedGrows
<1>15. \/ pos' = pos
       \/ pos' = [pos EXCEPT ![p] = @ + 1] /\ pos[p] + 1 \in 1..Len(history')
  BY <1>2, <1>3, <1>8
<1> QED BY <1>1, <1>2, <1>5, <1>7, <1>9, <1>11, <1>12, <1>13, <1>14, <1>15, ProgressOf
        DEF ProgramType, TableType

LEMMA VotedStep ==
  ASSUME IInv, NEW p \in Procs, Voted(p)
  PROVE  IInv'
<1>1. /\ TypeOK /\ CallsType /\ ProgramType /\ TableType /\ VerbsType /\ SyncType
      /\ TraceKept /\ InStep(p) /\ AddedKept(p) /\ EngineKept(p)
  BY DEF IInv, TypeOK
<1>2. /\ at[p] = "vote"
      /\ \/ at' = [at EXCEPT ![p] = "left"] /\ pos' = pos
         \/ /\ ~ aborting[p] /\ at' = [at EXCEPT ![p] = "user"]
            /\ pos' = [pos EXCEPT ![p] = @ + 1]
      /\ UNCHANGED <<calls, history, trace, slotOf, locals, m_memreg, record, m_added,
                     m_capacity, verbs, glob, next, id, aborting>>
  BY DEF Voted, tableVars, verbsVars
<1>3. ~ aborting[p] => /\ pos[p] + 1 \in 1..Len(history) /\ pos[p] \in Nat
                       /\ trace[(pos[p] + 1) + 1] = Dealt(m_memreg[p].global)
  BY <1>1, <1>2, SyncIsNext
<1>4. PICK a \in {"left", "user"} :
        /\ at' = [at EXCEPT ![p] = a]
        /\ \/ a = "left" /\ pos' = pos
           \/ ~ aborting[p] /\ a = "user" /\ pos' = [pos EXCEPT ![p] = @ + 1]
  BY <1>2, Zenon
<1>5. /\ SyncType' /\ at'[p] = a /\ next'[p] = next[p] /\ id'[p] = id[p]
      /\ \A q \in Procs \ {p} : at'[q] = at[q]
  <2>1. /\ a \in Places /\ next[p] \in Nat /\ id[p] \in Nat \cup {NoSlot}
        /\ next' = [next EXCEPT ![p] = next[p]] /\ id' = [id EXCEPT ![p] = id[p]]
    BY <1>1, <1>2 DEF Places, SyncType
  <2>2. SyncType /\ at' = [at EXCEPT ![p] = a] /\ aborting' = aborting
    BY <1>1, <1>2, <1>4
  <2> QED BY <2>1, <2>2, SyncTypeOf, ZenonT(30)
<1>6. \/ a = "left" /\ pos'[p] = pos[p]
      \/ ~ aborting[p] /\ a = "user" /\ pos'[p] = pos[p] + 1
  BY <1>1, <1>4 DEF ProgramType
<1>7. CallsType' /\ VerbsType' /\ \A q \in Procs \ {p} : Same(q)
  <2>1. \A q \in Procs \ {p} : pos'[q] = pos[q]
    BY <1>1, <1>4 DEF ProgramType
  <2> QED BY <1>1, <1>2, <1>5, <2>1, CallsSame DEF VerbsType, Same
<1>8. /\ m_added[p] = <<>> /\ InUse(p)' = InUse(p) /\ Verbs(p)' = Verbs(p)
      /\ Pending(p) = {} /\ Pending(p)' = {}
  BY <1>1, <1>2, <1>5 DEF AddedKept, InUse, Verbs, Pending
<1>9. Waiting(p) = {} /\ Waiting(p)' = {}
  BY <1>2, <1>8 DEF Waiting
<1>10. EngineKept(p)'
  BY <1>1, <1>2, <1>5, <1>8, <1>9 DEF EngineKept
<1>11. AddedKept(p)'
  <2>1. next[p] = 0
    BY <1>1, <1>2 DEF AddedKept
  <2> QED BY <1>2, <1>5, <1>8, <2>1 DEF AddedKept
<1>12. InStep(p)'
  <2>1. CASE a = "left" /\ pos'[p] = pos[p]
    BY <1>1, <1>2, <1>5, <2>1 DEF InStep
  <2>2. CASE ~ aborting[p] /\ a = "user" /\ pos'[p] = pos[p] + 1
    BY <1>2, <1>3, <1>5, <2>2 DEF InStep
  <2> QED BY <1>6, <2>1, <2>2
<1>13. TraceKept' /\ Grows
  BY <1>1, <1>2, TraceSame, UnchangedGrows
<1>14. \/ pos' = pos
       \/ pos' = [pos EXCEPT ![p] = @ + 1] /\ pos[p] + 1 \in 1..Len(history')
  BY <1>2, <1>3, <1>4
<1> QED BY <1>1, <1>2, <1>5, <1>7, <1>10, <1>11, <1>12, <1>13, <1>14, ProgressOf
        DEF ProgramType, TableType

----------------------------------------------------------------------------
(* The theorems *)

LEMMA FirstRegisters ==
  LET reg == Reserve(EmptyRegister, 1) IN
  /\ reg \in Registers /\ WellFormed(reg) /\ InHand(reg) = {}
  /\ Dealt(reg) = [free |-> <<>>, min |-> 0]
<1> DEFINE reg == Reserve(EmptyRegister, 1)
<1>1. EmptyRegister \in Registers /\ EmptyRegister.free = <<>> /\ EmptyRegister.min = 0
  BY DEF EmptyRegister, Registers
<1>2. reg \in Registers /\ reg.free = <<>> /\ reg.min = 0
  BY <1>1, ReserveKeeps
<1> HIDE DEF reg
<1>3. WellFormed(reg) /\ InHand(reg) = {}
  BY <1>2 DEF WellFormed, InHand
<1>4. Dealt(reg) = [free |-> <<>>, min |-> 0]
  BY <1>2 DEF Dealt
<1> QED BY <1>2, <1>3, <1>4 DEF reg

LEMMA InitInvariant == Init => IInv
<1> SUFFICES ASSUME Init PROVE IInv
  OBVIOUS
<1> DEFINE reg == Reserve(EmptyRegister, 1)
<1>1. /\ reg \in Registers /\ WellFormed(reg) /\ InHand(reg) = {}
      /\ Dealt(reg) = [free |-> <<>>, min |-> 0]
  BY FirstRegisters
<1> HIDE DEF reg
<1>2. /\ m_memreg = [p \in Procs |-> [local |-> reg, global |-> reg]] /\ verbs = m_memreg
      /\ calls = [p \in Procs |-> <<>>] /\ history = <<>>
      /\ trace = <<[free |-> <<>>, min |-> 0]>>
      /\ pos = [p \in Procs |-> 0] /\ locals = [p \in Procs |-> 0]
      /\ slotOf = [p \in Procs |-> <<>>] /\ record = [p \in Procs |-> <<>>]
      /\ m_added = [p \in Procs |-> <<>>] /\ m_capacity = [p \in Procs |-> 1]
      /\ glob = [p \in Procs |-> <<>>] /\ at = [p \in Procs |-> "user"]
      /\ next = [p \in Procs |-> 0] /\ id = [p \in Procs |-> NoSlot]
      /\ aborting = [p \in Procs |-> FALSE]
  BY DEF Init, reg
<1> DEFINE both == [local |-> reg, global |-> reg]
<1>3. both \in CombinedRegisters /\ BothWellFormed(both) /\ SlotsInHand(both) = {}
  BY <1>1 DEF CombinedRegisters, BothWellFormed, SlotsInHand
<1>4. ASSUME NEW p \in Procs
      PROVE  /\ m_memreg[p] = both /\ verbs[p] = both
             /\ slotOf[p] = <<>> /\ record[p] = <<>> /\ m_added[p] = <<>>
             /\ pos[p] = 0 /\ at[p] = "user" /\ next[p] = 0 /\ id[p] = NoSlot
             /\ InUse(p) = {} /\ Verbs(p) = {} /\ Pending(p) = {} /\ Waiting(p) = {}
  BY <1>2 DEF InUse, Verbs, Pending, Waiting
<1> HIDE DEF both
<1>5. TypeOK
  <2>1. CallsType
    <3> DEFINE S == CallRecords
    <3> HIDE DEF S
    <3>1. <<>> \in Seq(S)
      OBVIOUS
    <3>2. calls \in [Procs -> Seq(S)]
      BY <1>2, <3>1
    <3> QED BY <3>2 DEF CallsType, S
  <2>2. ProgramType
    <3>1. history \in Seq(ProgramCalls) /\ Len(history) <= MaxCalls
      BY <1>2
    <3>2. trace \in Seq([free : Seq(Nat), min : Nat])
      BY <1>2
    <3>3. pos \in [Procs -> 0..MaxCalls] /\ locals \in [Procs -> 0..MaxLocal]
      BY <1>2
    <3>4. /\ DOMAIN slotOf = Procs
          /\ \A p \in Procs : DOMAIN slotOf[p] \subseteq Int /\ InUse(p) \subseteq Nat
      BY <1>2, <1>4
    <3> QED BY <3>1, <3>2, <3>3, <3>4 DEF ProgramType
  <2>3. TableType
    BY <1>2, <1>3 DEF TableType, both
  <2>4. VerbsType
    BY <1>2, <1>3 DEF VerbsType, both
  <2>5. SyncType
    BY <1>2 DEF SyncType, Places
  <2> QED BY <2>1, <2>2, <2>3, <2>4, <2>5 DEF TypeOK
<1>6. TraceKept
  BY <1>2 DEF TraceKept
<1>7. ASSUME NEW p \in Procs
      PROVE  NamesKept(p) /\ InStep(p) /\ TableKept(p) /\ AddedKept(p) /\ EngineKept(p)
  <2>1. NamesKept(p) /\ AddedKept(p)
    BY <1>4 DEF NamesKept, AddedKept
  <2>2. InStep(p)
    BY <1>1, <1>2, <1>4 DEF InStep, both
  <2>3. TableKept(p)
    <3>1. BothWellFormed(m_memreg[p]) /\ SlotsInHand(m_memreg[p]) = InUse(p)
      BY <1>3, <1>4
    <3>2. DOMAIN slotOf[p] = {}
      BY <1>4
    <3> QED BY <3>1, <3>2 DEF TableKept
  <2>4. EngineKept(p)
    <3>1. BothWellFormed(verbs[p]) /\ SlotsInHand(verbs[p]) = Verbs(p) \cup Pending(p)
      BY <1>3, <1>4
    <3>2. at[p] # "gather"
      BY <1>4
    <3> QED BY <1>4, <3>1, <3>2 DEF EngineKept
  <2> QED BY <2>1, <2>2, <2>3, <2>4
<1> QED BY <1>5, <1>6, <1>7 DEF IInv

LEMMA StutteringStep ==
  ASSUME IInv, UNCHANGED vars
  PROVE  IInv'
<1>1. TypeOK' /\ TraceKept'
  <2>1. TypeOK'
    BY DEF IInv, TypeOK, CallsType, ProgramType, TableType, VerbsType, SyncType, InUse,
           vars, programVars, tableVars, verbsVars, syncVars
  <2>2. TraceKept'
    BY TraceSame DEF IInv, vars, programVars
  <2> QED BY <2>1, <2>2
<1>2. ASSUME NEW p \in Procs
      PROVE  /\ NamesKept(p)' /\ InStep(p)'
             /\ TableKept(p)' /\ AddedKept(p)' /\ EngineKept(p)'
  <2>1. Same(p)
    BY DEF Same, vars, programVars, tableVars, verbsVars, syncVars
  <2>2. TypeOK /\ NamesKept(p) /\ InStep(p) /\ Kept(p)
    BY DEF IInv, Kept
  <2>3. Grows
    BY <2>2, UnchangedGrows DEF vars, programVars
  <2> QED BY <2>1, <2>2, <2>3, OthersKept, OthersInStep DEF Kept
<1> QED BY <1>1, <1>2 DEF IInv

LEMMA StepInvariant == IInv /\ [Next]_vars => IInv'
<1> SUFFICES ASSUME IInv, [Next]_vars PROVE IInv'
  OBVIOUS
<1>1. CASE UNCHANGED vars
  BY <1>1, StutteringStep
<1>2. ASSUME NEW p \in Procs, Program(p)
      PROVE  IInv'
  BY <1>2, AddGlobalStep, RemoveGlobalStep, AddLocalStep, RemoveLocalStep, ResizeStep,
     SyncCallStep, AbortStep DEF Program
<1>3. ASSUME NEW p \in Procs, Sync(p)
      PROVE  IInv'
  <2>1. CASE Agreed(p)
    BY <2>1, AgreedStep, FailingStep
  <2>2. CASE Failing(p)
    BY <2>2, FailingStep
  <2>3. CASE Gathered(p)
    BY <2>3, GatheredStep
  <2>4. CASE Fenced(p)
    BY <2>4, FencedStep
  <2>5. CASE Voted(p)
    BY <2>5, VotedStep
  <2> QED BY <1>3, <2>1, <2>2, <2>3, <2>4, <2>5 DEF Sync
<1> QED BY <1>1, <1>2, <1>3 DEF Next

\* The inductive invariant of memory registration: every process has replayed the
\* same history of its global register, and no slot of either register is lost.
THEOREM RegistrationInvariant == Spec => []IInv
BY InitInvariant, StepInvariant, PTL DEF Spec

\* Every variable keeps its type.
THEOREM RegistrationTypeCorrect == Spec => []TypeOK
<1>1. IInv => TypeOK
  BY DEF IInv
<1> QED BY <1>1, RegistrationInvariant, PTL

\* What the comment of CombinedMemoryRegister promises: a global registration has
\* the same slot on all processes, however they reserve, run out of memory, register
\* local memory and return early.
THEOREM GlobalSlotsAgree == Spec => []SlotsAgree
<1>1. IInv => SlotsAgree
  <2> SUFFICES ASSUME IInv, NEW p \in Procs, NEW q \in Procs,
                      NEW n \in DOMAIN slotOf[p] \cap DOMAIN slotOf[q], n > 0
               PROVE  slotOf[p][n] = slotOf[q][n]
    BY DEF SlotsAgree
  <2>1. NamesKept(p) /\ NamesKept(q)
    BY DEF IInv
  <2>2. n \in Int
    BY DEF IInv, TypeOK, ProgramType
  <2> QED BY <2>1, <2>2 DEF NamesKept
<1> QED BY <1>1, RegistrationInvariant, PTL

\* A slot of the table is the registration that the program thinks it is, and no
\* two registrations share a slot of the engine.
THEOREM SlotsAreDistinct == Spec => []SlotsDiffer
<1>1. IInv => SlotsDiffer
  BY DEF IInv, TableKept, EngineKept, SlotsDiffer
<1> QED BY <1>1, RegistrationInvariant, PTL

\* Removing a registration gives its slots back, whether a sync has registered it
\* or not.
THEOREM NoSlotLeaks == Spec => []NothingLeaks
<1>1. IInv => NothingLeaks
  BY DEF IInv, TableKept, EngineKept, NothingLeaks
<1> QED BY <1>1, RegistrationInvariant, PTL

----------------------------------------------------------------------------
(* A registration that a sync has passed has a slot of the engine, in the   *)
(* terms of MemoryTable: no sync clears m_added before every record in it   *)
(* has one, and nothing joins the list between the calls of the program.    *)

\* What waits in m_added was registered after the last sync that p completed.
Fresh(p) ==
  \A i \in DOMAIN m_added[p] : \A k \in 1..pos[p] :
    record[p][m_added[p][i]].name <= k => history[k].do # "sync"

\* The list and the names under which its slots are recorded, as a step leaves
\* them: what is in it was there before, or has just been registered.
Joins(p) ==
  \A i \in DOMAIN m_added'[p] :
    LET s == m_added'[p][i] IN
    \/ /\ \E j \in DOMAIN m_added[p] : m_added[p][j] = s
       /\ record'[p][s].name = record[p][s].name
    \/ record'[p][s].name = pos[p] + 1 /\ pos'[p] = pos[p] + 1

\* A process completes one call at most, and a sync only with an empty list.
Advances(p) ==
  \/ pos'[p] = pos[p]
  \/ /\ pos'[p] = pos[p] + 1
     /\ m_added'[p] = <<>> \/ history'[pos[p] + 1].do # "sync"

Extends == \A k \in 1..Len(history) : history'[k] = history[k]

LEMMA FreshStep ==
  ASSUME TypeOK, NEW p \in Procs, InStep(p), Fresh(p), Joins(p), Advances(p), Extends
  PROVE  Fresh(p)'
<1>1. pos[p] \in Nat /\ Len(history) \in Nat /\ pos[p] <= Len(history)
  BY DEF TypeOK, ProgramType, InStep
<1>2. ASSUME NEW i \in DOMAIN m_added'[p], NEW k \in 1..pos'[p],
             record'[p][m_added'[p][i]].name <= k
      PROVE  history'[k].do # "sync"
  <2>0. m_added'[p] # <<>>
    BY <1>2
  <2>1. CASE k = pos[p] + 1
    BY <1>1, <1>2, <2>0, <2>1 DEF Advances
  <2>2. CASE k # pos[p] + 1
    <3>1. k \in 1..pos[p] /\ k \in 1..Len(history)
      BY <1>1, <1>2, <2>2 DEF Advances
    <3>2. ~ record'[p][m_added'[p][i]].name = pos[p] + 1
      BY <1>1, <1>2, <3>1
    <3>3. PICK j \in DOMAIN m_added[p] :
            /\ m_added[p][j] = m_added'[p][i]
            /\ record'[p][m_added'[p][i]].name = record[p][m_added[p][j]].name
      BY <3>2 DEF Joins
    <3>4. history[k].do # "sync"
      BY <1>2, <3>1, <3>3 DEF Fresh
    <3> QED BY <3>1, <3>4 DEF Extends
  <2> QED BY <2>1, <2>2
<1> QED BY <1>2 DEF Fresh

----------------------------------------------------------------------------
(* Every action takes such a step, and disturbs no other process *)

Takes(p) == Joins(p) /\ Advances(p) /\ Extends

\* The list, the records and the place in the program of the others.
Rest(p) ==
  \A q \in Procs \ {p} : /\ m_added'[q] = m_added[q] /\ record'[q] = record[q]
                        /\ pos'[q] = pos[q]

LEMMA CollectiveExtends ==
  ASSUME TypeOK, NEW p \in Procs, NEW c, Collective(p, c)
  PROVE  Extends
<1>1. history \in Seq(ProgramCalls)
  BY DEF TypeOK, ProgramType
<1>2. CASE history' = history
  BY <1>1, <1>2 DEF Extends
<1>3. CASE history' = Append(history, c)
  BY <1>1, <1>3 DEF Extends
<1> QED BY <1>2, <1>3 DEF Collective

LEMMA CollectiveAt ==
  ASSUME TypeOK, NEW p \in Procs, InStep(p), NEW c, Collective(p, c)
  PROVE  history'[pos[p] + 1] = c
BY DEF Collective, InStep, TypeOK, ProgramType

\* Nothing joins a list that stays as it is, under records that do.
LEMMA NothingJoins ==
  ASSUME NEW p \in Procs,
         m_added'[p] = m_added[p] \/ m_added'[p] = <<>>,
         \A i \in DOMAIN m_added[p] :
           record'[p][m_added[p][i]].name = record[p][m_added[p][i]].name
  PROVE  Joins(p)
BY DEF Joins

LEMMA AddGlobalTakes ==
  ASSUME IInv, NEW p \in Procs, addGlobal(p)
  PROVE  Takes(p) /\ Rest(p)
<1> DEFINE name == pos[p] + 1
           slot == toGlobal(NewSlot(m_memreg[p].global))
           c    == [do |-> "register"]
           r    == [name |-> name, verb |-> NoSlot]
<1>1. /\ Collective(p, c)
      /\ record'   = [record EXCEPT ![p] = Bind(@, slot, r)]
      /\ m_added'  = [m_added EXCEPT ![p] = Append(@, slot)]
      /\ pos'      = [pos EXCEPT ![p] = name]
  BY DEF addGlobal
<1>2. /\ TypeOK /\ InStep(p) /\ TableKept(p) /\ AddedKept(p) /\ pos \in [Procs -> 0..MaxCalls]
      /\ m_added \in [Procs -> Seq(Nat)] /\ DOMAIN record = Procs
      /\ m_memreg[p] \in CombinedRegisters
  BY DEF IInv, TypeOK, ProgramType, TableType
<1>3. slot \notin InUse(p)
  BY <1>2, AddGlobalDeals DEF TableKept
<1> HIDE DEF slot
<1>4. Extends /\ history'[pos[p] + 1] = c
  BY <1>1, <1>2, CollectiveExtends, CollectiveAt
<1>5. Advances(p)
  BY <1>1, <1>2, <1>4 DEF Advances
<1>6. ASSUME NEW i \in DOMAIN m_added'[p]
      PROVE  \/ /\ \E j \in DOMAIN m_added[p] : m_added[p][j] = m_added'[p][i]
                /\ record'[p][m_added'[p][i]].name = record[p][m_added'[p][i]].name
             \/ record'[p][m_added'[p][i]].name = pos[p] + 1 /\ pos'[p] = pos[p] + 1
  <2>1. /\ m_added[p] \in Seq(Nat) /\ m_added'[p] = Append(m_added[p], slot)
        /\ record'[p] = Bind(record[p], slot, r) /\ pos'[p] = pos[p] + 1
    BY <1>1, <1>2
  <2>2. CASE i \in DOMAIN m_added[p]
    <3>1. m_added'[p][i] = m_added[p][i] /\ m_added[p][i] \in InUse(p)
      BY <1>2, <2>1, <2>2 DEF AddedKept
    <3>2. m_added'[p][i] # slot /\ m_added'[p][i] \in DOMAIN record[p]
      BY <1>2, <1>3, <3>1 DEF TableKept, InUse
    <3> QED BY <2>1, <2>2, <3>1, <3>2 DEF Bind
  <2>3. CASE i \notin DOMAIN m_added[p]
    <3>1. m_added'[p][i] = slot
      BY <2>1, <2>3
    <3> QED BY <2>1, <3>1 DEF Bind
  <2> QED BY <2>2, <2>3
<1>7. Joins(p)
  BY <1>6 DEF Joins
<1>8. Rest(p)
  BY <1>1, <1>2 DEF Rest
<1> QED BY <1>4, <1>5, <1>7, <1>8 DEF Takes

LEMMA AddLocalTakes ==
  ASSUME IInv, NEW p \in Procs, addLocal(p)
  PROVE  Takes(p) /\ Rest(p)
<1> DEFINE slot == toLocal(NewSlot(m_memreg[p].local))
           r    == [name |-> 0 - locals[p] - 1, verb |-> toLocal(NewSlot(verbs[p].local))]
<1>1. /\ record' = [record EXCEPT ![p] = Bind(@, slot, r)]
      /\ UNCHANGED <<history, m_added, pos>>
  BY DEF addLocal
<1>2. /\ TableKept(p) /\ AddedKept(p) /\ DOMAIN record = Procs
      /\ m_memreg[p] \in CombinedRegisters
  BY DEF IInv, TypeOK, ProgramType, TableType
<1>3. slot \notin InUse(p)
  BY <1>2, AddLocalDeals DEF TableKept
<1> HIDE DEF slot, r
<1>4. ASSUME NEW i \in DOMAIN m_added[p]
      PROVE  record'[p][m_added[p][i]].name = record[p][m_added[p][i]].name
  <2>1. m_added[p][i] \in InUse(p)
    BY <1>2 DEF AddedKept
  <2>2. m_added[p][i] # slot /\ m_added[p][i] \in DOMAIN record[p]
    BY <1>2, <1>3, <2>1 DEF TableKept, InUse
  <2> QED BY <1>1, <1>2, <2>2 DEF Bind
<1>5. Joins(p)
  BY <1>1, <1>4, NothingJoins
<1> QED BY <1>1, <1>2, <1>5 DEF Takes, Advances, Extends, Rest

\* Erasing a slot from the list adds none.
LEMMA RemoveJoins ==
  ASSUME IInv, NEW p \in Procs, NEW name \in DOMAIN slotOf[p], remove(p, name)
  PROVE  Joins(p) /\ record' = record /\ \A q \in Procs \ {p} : m_added'[q] = m_added[q]
<1> DEFINE slot == slotOf[p][name]
<1>1. RemoveBelow(p, slot) /\ record' = record
  BY DEF remove
<1>2. m_added \in [Procs -> Seq(Nat)] /\ AddedKept(p)
  BY DEF IInv, TypeOK, TableType
<1> HIDE DEF slot
<1>3. CASE slot \in Range(m_added[p])
  <2>1. m_added' = [m_added EXCEPT ![p] = Erase(m_added[p], slot)]
    BY <1>1, <1>3 DEF RemoveBelow
  <2>2. /\ m_added'[p] = Erase(m_added[p], slot)
        /\ \A q \in Procs \ {p} : m_added'[q] = m_added[q]
    BY <1>2, <2>1
  <2>3. \A i, j \in DOMAIN m_added[p] : m_added[p][i] = m_added[p][j] => i = j
    BY <1>2 DEF AddedKept
  <2>4. {m_added'[p][i] : i \in DOMAIN m_added'[p]}
           = {m_added[p][i] : i \in DOMAIN m_added[p]} \ {slot}
    <3>1. m_added[p] \in Seq(Nat)
      BY <1>2
    <3>2. {Erase(m_added[p], slot)[i] : i \in DOMAIN Erase(m_added[p], slot)}
             = {m_added[p][i] : i \in DOMAIN m_added[p]} \ {slot}
      BY <1>3, <2>3, <3>1, EraseRemoves
    <3> QED BY <2>2, <3>2
  <2>5. \A i \in DOMAIN m_added'[p] : \E j \in DOMAIN m_added[p] : m_added[p][j] = m_added'[p][i]
    BY <2>4
  <2> QED BY <1>1, <2>2, <2>5 DEF Joins
<1>4. CASE slot \notin Range(m_added[p])
  <2>1. m_added' = m_added
    BY <1>1, <1>4 DEF RemoveBelow
  <2> QED BY <1>1, <2>1, NothingJoins
<1> QED BY <1>3, <1>4

LEMMA RemoveGlobalTakes ==
  ASSUME IInv, NEW p \in Procs, removeGlobal(p)
  PROVE  Takes(p) /\ Rest(p)
<1>1. PICK name \in DOMAIN slotOf[p] :
        /\ remove(p, name)
        /\ Collective(p, [do |-> "deregister", name |-> name])
        /\ pos' = [pos EXCEPT ![p] = @ + 1]
  BY DEF removeGlobal
<1>2. TypeOK /\ InStep(p) /\ pos \in [Procs -> 0..MaxCalls]
  BY DEF IInv, TypeOK, ProgramType
<1>3. Joins(p) /\ record' = record /\ \A q \in Procs \ {p} : m_added'[q] = m_added[q]
  BY <1>1, RemoveJoins
<1>4. Extends /\ history'[pos[p] + 1] = [do |-> "deregister", name |-> name]
  BY <1>1, <1>2, CollectiveExtends, CollectiveAt
<1> QED BY <1>1, <1>2, <1>3, <1>4 DEF Takes, Advances, Rest

LEMMA RemoveLocalTakes ==
  ASSUME IInv, NEW p \in Procs, removeLocal(p)
  PROVE  Takes(p) /\ Rest(p)
<1>1. PICK name \in DOMAIN slotOf[p] : remove(p, name) /\ UNCHANGED <<history, trace, pos>>
  BY DEF removeLocal
<1>2. Joins(p) /\ record' = record /\ \A q \in Procs \ {p} : m_added'[q] = m_added[q]
  BY <1>1, RemoveJoins
<1> QED BY <1>1, <1>2 DEF Takes, Advances, Extends, Rest

LEMMA ResizeTakes ==
  ASSUME IInv, NEW p \in Procs, resizeMemreg(p)
  PROVE  Takes(p) /\ Rest(p)
<1>1. UNCHANGED <<history, pos, record, m_added>>
  BY DEF resizeMemreg, reserve, ResizeAdded, programVars
<1>2. Joins(p)
  BY <1>1, NothingJoins
<1> QED BY <1>1, <1>2 DEF Takes, Advances, Extends, Rest

\* What starts a sync: nothing is left to register, or the call goes on.
LEMMA SyncStartTakes ==
  ASSUME IInv, NEW p \in Procs, UNCHANGED tableVars, Extends,
         NEW vote, NEW leaving, SyncStart(p, vote, leaving)
  PROVE  Takes(p) /\ Rest(p)
<1>1. pos \in [Procs -> 0..MaxCalls] /\ m_added' = m_added /\ record' = record
  BY DEF IInv, TypeOK, ProgramType, tableVars
<1>2. \/ pos' = pos
      \/ m_added[p] = <<>> /\ pos' = [pos EXCEPT ![p] = @ + 1]
  BY DEF SyncStart, SyncEngine
<1>3. Joins(p)
  BY <1>1, NothingJoins
<1> QED BY <1>1, <1>2, <1>3 DEF Takes, Advances, Rest

LEMMA SyncCallTakes ==
  ASSUME IInv, NEW p \in Procs, sync(p) \/ abort(p)
  PROVE  Takes(p) /\ Rest(p)
<1>1. TypeOK
  BY DEF IInv
<1>2. Extends
  BY <1>1, CollectiveExtends DEF sync, abort, Extends
<1>3. UNCHANGED tableVars /\ \E vote, leaving \in BOOLEAN : SyncStart(p, vote, leaving)
  BY DEF sync, abort
<1> QED BY <1>2, <1>3, SyncStartTakes

\* Until the barrier has been passed, a sync only gives records their slot of the
\* engine; then it empties the list, and only then it returns.
LEMMA SyncTakes ==
  ASSUME IInv, NEW p \in Procs, Sync(p)
  PROVE  Takes(p) /\ Rest(p)
<1>1. /\ pos \in [Procs -> 0..MaxCalls] /\ m_added \in [Procs -> Seq(Nat)]
      /\ DOMAIN record = Procs /\ AddedKept(p) /\ TableKept(p)
  BY DEF IInv, TypeOK, ProgramType, TableType
<1>2. CASE Agreed(p) \/ Failing(p)
  <2>1. UNCHANGED <<history, pos, record, m_added>>
    BY <1>2 DEF Agreed, Failing, programVars, tableVars
  <2>2. Joins(p)
    BY <2>1, NothingJoins
  <2> QED BY <2>1, <2>2 DEF Takes, Advances, Extends, Rest
<1>3. CASE Gathered(p)
  <2> DEFINE s == m_added[p][next[p]]
  <2>1. /\ record' = [record EXCEPT ![p][s].verb = id[p]]
        /\ UNCHANGED <<history, pos, m_added>> /\ at[p] = "gather"
    BY <1>3 DEF Gathered, programVars
  <2>2. s \in DOMAIN record[p]
    <3>1. s \in InUse(p)
      BY <1>1, <2>1 DEF AddedKept
    <3> QED BY <1>1, <3>1 DEF TableKept, InUse
  <2> HIDE DEF s
  <2>3. record'[p] = [record[p] EXCEPT ![s].verb = id[p]]
    BY <1>1, <2>1
  <2>4. ASSUME NEW i \in DOMAIN m_added[p]
        PROVE  record'[p][m_added[p][i]].name = record[p][m_added[p][i]].name
    <3>0. m_added[p][i] \in InUse(p)
      BY <1>1 DEF AddedKept
    <3>1. m_added[p][i] \in DOMAIN record[p]
      BY <1>1, <3>0 DEF TableKept, InUse
    <3>2. CASE m_added[p][i] = s
      <4>1. record'[p][s] = [record[p][s] EXCEPT !.verb = id[p]]
        BY <2>2, <2>3
      <4>2. record[p][s] \in Records
        BY <2>2 DEF IInv, TypeOK, TableType
      <4> QED BY <3>2, <4>1, <4>2 DEF Records
    <3>3. CASE m_added[p][i] # s
      BY <2>3, <3>1, <3>3
    <3> QED BY <3>2, <3>3
  <2>5. Joins(p)
    BY <2>1, <2>4, NothingJoins
  <2> QED BY <1>1, <2>1, <2>5 DEF Takes, Advances, Extends, Rest
<1>4. CASE Fenced(p)
  <2>1. /\ m_added' = [m_added EXCEPT ![p] = <<>>] /\ UNCHANGED <<history, record>>
        /\ pos' = pos \/ pos' = [pos EXCEPT ![p] = @ + 1]
    BY <1>4 DEF Fenced, ClearAdded, SyncEngine
  <2>2. m_added'[p] = <<>>
    BY <1>1, <2>1
  <2>3. Joins(p)
    BY <2>1, <2>2, NothingJoins
  <2> QED BY <1>1, <2>1, <2>2, <2>3 DEF Takes, Advances, Extends, Rest
<1>5. CASE Voted(p)
  <2>1. /\ UNCHANGED <<history, record, m_added>> /\ m_added[p] = <<>>
        /\ pos' = pos \/ pos' = [pos EXCEPT ![p] = @ + 1]
    BY <1>1, <1>5 DEF Voted, tableVars, AddedKept
  <2>2. Joins(p)
    BY <2>1, NothingJoins
  <2> QED BY <1>1, <2>1, <2>2 DEF Takes, Advances, Extends, Rest
<1> QED BY <1>2, <1>3, <1>4, <1>5 DEF Sync

----------------------------------------------------------------------------
(* The theorem *)

FreshInv == \A p \in Procs : Fresh(p)

LEMMA FreshFirst == Init => FreshInv
BY DEF Init, FreshInv, Fresh

LEMMA FreshNext == IInv /\ FreshInv /\ [Next]_vars => FreshInv'
<1> SUFFICES ASSUME IInv, FreshInv, [Next]_vars PROVE FreshInv'
  OBVIOUS
<1>1. CASE UNCHANGED vars
  BY <1>1 DEF vars, programVars, tableVars, FreshInv, Fresh
<1>2. ASSUME NEW p \in Procs, Program(p) \/ Sync(p)
      PROVE  FreshInv'
  <2>1. Takes(p) /\ Rest(p)
    BY <1>2, AddGlobalTakes, AddLocalTakes, RemoveGlobalTakes, RemoveLocalTakes,
       ResizeTakes, SyncCallTakes, SyncTakes DEF Program
  <2>2. Fresh(p)'
    BY <2>1, FreshStep DEF IInv, FreshInv, Takes
  <2>3. ASSUME NEW q \in Procs \ {p}
        PROVE  Fresh(q)'
    <3>1. /\ m_added'[q] = m_added[q] /\ record'[q] = record[q] /\ pos'[q] = pos[q]
          /\ Fresh(q) /\ Extends
      BY <2>1 DEF Rest, FreshInv, Takes
    <3>2. pos[q] \in Nat /\ pos[q] <= Len(history) /\ Len(history) \in Nat
      BY DEF IInv, TypeOK, ProgramType, InStep
    <3>3. \A k \in 1..pos[q] : history'[k] = history[k]
      BY <3>1, <3>2 DEF Extends
    <3> QED BY <3>1, <3>3 DEF Fresh
  <2> QED BY <2>2, <2>3 DEF FreshInv
<1> QED BY <1>1, <1>2 DEF Next

\* MemoryTable::sync registers all that has been added since the sync before: put
\* and get never find a record without its slot of the engine once a sync, in
\* whichever mode, has followed the registration.
THEOREM SyncRegisters == Spec => []RegisteredBySync
<1>1. IInv /\ FreshInv => RegisteredBySync
  <2> SUFFICES ASSUME IInv, FreshInv, NEW p \in Procs, NEW n \in DOMAIN slotOf[p],
                      NEW k \in n..pos[p], k > 0, history[k].do = "sync",
                      record[p][slotOf[p][n]].verb = NoSlot
               PROVE  FALSE
    BY DEF RegisteredBySync
  <2>1. slotOf[p][n] \in Waiting(p)
    BY DEF IInv, EngineKept, InUse
  <2>2. PICK i \in DOMAIN m_added[p] : m_added[p][i] = slotOf[p][n]
    BY <2>1 DEF Waiting
  <2>3. record[p][m_added[p][i]].name = n
    BY <2>2 DEF IInv, TableKept
  <2>4. n \in Int /\ pos[p] \in Nat
    BY DEF IInv, TypeOK, ProgramType
  <2>5. k \in 1..pos[p] /\ n <= k
    BY <2>4
  <2> QED BY <2>3, <2>5 DEF FreshInv, Fresh
<1>2. Spec => [](IInv /\ FreshInv)
  BY InitInvariant, StepInvariant, FreshFirst, FreshNext, PTL DEF Spec
<1> QED BY <1>1, <1>2, PTL
=============================================================================
