--------------------------- MODULE MemoryRegister ---------------------------
(***************************************************************************)
(* MemoryRegister and CombinedMemoryRegister of src/src/common/memreg.hpp: *)
(* which slot number a registration gets.  The records kept in the slots   *)
(* belong to the user of the register.                                     *)
(***************************************************************************)
EXTENDS Integers, Sequences

\* m_slots.size(), the stack m_free, and m_minNewSlotNr.
Registers     == [size : Nat, free : Seq(Nat), min : Nat]
EmptyRegister == [size |-> 0, free |-> <<>>, min |-> 0]

\* What add and remove rely on: m_free holds slots below m_minNewSlotNr, each once.
WellFormed(reg) ==
  /\ \A i \in DOMAIN reg.free : reg.free[i] < reg.min
  /\ \A i, j \in DOMAIN reg.free : reg.free[i] = reg.free[j] => i = j

\* Slots that have been dealt out and not been given back.
InHand(reg) == (0..reg.min - 1) \ {reg.free[i] : i \in DOMAIN reg.free}

\* Variant: m_minNewSlotNr is the last slot that was used.
LastSlot(reg) == IF reg.free = <<>> THEN reg.min - 1 ELSE reg.free[Len(reg.free)]
\* The slot that add() returns: the top of the stack, or a slot never used.
NewSlot(reg) == IF reg.free = <<>> THEN reg.min ELSE reg.free[Len(reg.free)]

Add(reg) ==
  IF reg.free = <<>>
  THEN [reg EXCEPT !.min = @ + 1]
  ELSE [reg EXCEPT !.free = SubSeq(@, 1, Len(@) - 1)]

\* Variant: a removed slot is put on the stack even if it is the last one, and
\* dealt out as never used as well.
RemoveBoth(reg, slot) ==
  [reg EXCEPT !.free = Append(@, slot),
              !.min = IF slot = @ - 1 THEN @ - 1 ELSE @]
Remove(reg, slot) ==
  IF slot = reg.min - 1
  THEN [reg EXCEPT !.min = @ - 1]
  ELSE [reg EXCEPT !.free = Append(@, slot)]

\* Variant: the new, larger stack of free slots starts empty.
ReserveForget(reg, newSize) ==
  [reg EXCEPT !.size = IF @ < newSize \/ reg.min <= newSize THEN newSize ELSE reg.min,
              !.free = <<>>]
\* Growing, or shrinking as far as the slots dealt out allow.
Reserve(reg, newSize) ==
  [reg EXCEPT !.size =
     IF @ < newSize \/ reg.min <= newSize THEN newSize ELSE reg.min]

----------------------------------------------------------------------------
(* CombinedMemoryRegister: local and global slots, told apart by parity. *)

CombinedRegisters == [local : Registers, global : Registers]

isLocalSlot(slot) == slot % 2 = 1
toGlobal(s)       == 2 * s
toLocal(s)        == 2 * s + 1

BothWellFormed(c) == WellFormed(c.local) /\ WellFormed(c.global)

\* Slots of both kinds in hand.
SlotsInHand(c) == {toGlobal(s) : s \in InHand(c.global)}
                    \cup {toLocal(s) : s \in InHand(c.local)}

removeReg(c, slot) ==
  IF isLocalSlot(slot)
  THEN [c EXCEPT !.local = Remove(@, (slot - 1) \div 2)]
  ELSE [c EXCEPT !.global = Remove(@, slot \div 2)]
=============================================================================
