----------------------------- MODULE SortProofs -----------------------------
(***************************************************************************)
(* Sorting of messages implements Winners: for any areas, however they     *)
(* overlap and touch, any size of a block and any priorities, what         *)
(* MessageSort gives out, keeps and answers is what Winners promises.      *)
(*                                                                         *)
(* Live regions do not touch, so that an address is in at most one block   *)
(* of one region; what is pending there is what this block holds.  A write *)
(* raises the marks of a run of blocks, popWrite clears a run of equal     *)
(* marks, and regions merge only while there are no marks at all.          *)
(***************************************************************************)
EXTENDS MessageSort, FiniteSetTheorems, TLAPS

----------------------------------------------------------------------------
(* The inductive invariant *)

Regions == [region : Nat, base : Nat, size : Nat \ {0}]
Memories == UNION {[0 .. n - 1 -> Nat] : n \in Nat}
Pushed == [min : Nat, max : Nat, memory : Memories]

\* A region is live under its number; live regions do not touch.
RegionsOK ==
  /\ m_regions \in Seq(Regions)
  /\ IsFiniteSet(m_sortedRegions)
  /\ \A r \in m_sortedRegions : /\ r \in Regions /\ End(r) <= Memory
                                /\ r.region < Len(m_regions)
                                /\ m_regions[r.region + 1] = r
  /\ \A q, r \in m_sortedRegions : q # r => End(q) < r.base \/ End(r) < q.base

\* The area of a slot is in a live region, to which it is redirected.
Within(s, r) ==
  /\ m_slotToRegion[s] = [region |-> r.region, offset |-> m_memslots[s].base - r.base]
  /\ r.base <= m_memslots[s].base
  /\ End(m_memslots[s]) <= End(r)
SlotsOK ==
  /\ DOMAIN m_slotToRegion = SlotsOf
  /\ \A s \in SlotsOf : InUse(s) =>
       /\ m_memslots[s].base \in Nat /\ m_memslots[s].size \in Nat \ {0}
       /\ \E r \in m_sortedRegions : Within(s, r)

\* The writes of a region are from m_min to m_max, or there are none.
NoneIn(w) == w.min = NoMin /\ w.max = 0 /\ \A i \in DOMAIN w.memory : w.memory[i] = 0
SomeIn(w) ==
  /\ w.min <= w.max
  /\ w.min \in DOMAIN w.memory /\ w.max \in DOMAIN w.memory
  /\ w.memory[w.min] # 0
  /\ \A i \in DOMAIN w.memory : w.memory[i] # 0 => i \in w.min .. w.max
Blocks(r) == 0 .. (r.size \div Grain) - 1
WritesOK ==
  /\ m_writes \in Seq(Pushed) /\ Len(m_writes) = Len(m_regions)
  /\ \A i \in DOMAIN m_writes : NoneIn(m_writes[i]) \/ SomeIn(m_writes[i])
  /\ \A r \in m_sortedRegions : DOMAIN m_writes[r.region + 1].memory = Blocks(r)

\* Regions with writes are dirty, and what is dirty is live.
DirtyOK ==
  /\ \A d \in m_dirty : \E r \in m_sortedRegions : r.region = d
  /\ \A i \in DOMAIN m_writes : SomeIn(m_writes[i]) => i - 1 \in m_dirty

SortIInv == RegionsOK /\ SlotsOK /\ WritesOK /\ DirtyOK

----------------------------------------------------------------------------
(* Blocks *)

LEMMA ProductsGrow ==
  ASSUME NEW g \in Nat \ {0}, NEW i \in Int, NEW j \in Int
  PROVE  /\ i * g \in Int /\ (i + 1) * g = i * g + g
         /\ (i + j) * g = i * g + j * g
         /\ i <= j => i * g <= j * g
         /\ i < j => i * g + g <= j * g
  OBVIOUS

LEMMA Division ==
  ASSUME NEW x \in Int, NEW g \in Nat \ {0}
  PROVE  /\ x \div g \in Int /\ x % g \in 0 .. (g - 1)
         /\ x = (x \div g) * g + (x % g)
  OBVIOUS

LEMMA WholeBlocks ==
  ASSUME NEW x \in Int, NEW g \in Nat \ {0}, NEW i \in Int
  PROVE  /\ x \in (i * g) .. (i * g + g - 1) <=> i = x \div g
         /\ i < x \div g => i * g + g <= x
         /\ i * g <= x => i <= x \div g
<1> DEFINE d == x \div g
           m == x % g
<1>1. d \in Int /\ m \in 0 .. (g - 1) /\ x = d * g + m  BY Division
<1> HIDE DEF d, m
<1>2. /\ i * g \in Int /\ d * g \in Int
      /\ i < d => i * g + g <= d * g
      /\ d < i => d * g + g <= i * g
  BY <1>1, ProductsGrow
<1>3. x \in (i * g) .. (i * g + g - 1) <=> i = d
  BY <1>1, <1>2
<1>4. (i < d => i * g + g <= x) /\ (i * g <= x => i <= d)
  BY <1>1, <1>2
<1> QED  BY <1>3, <1>4 DEF d

LEMMA RoundedUp ==
  ASSUME NEW x \in Nat
  PROVE  /\ ToBlock(x) \in 0 .. (Grain - 1)
         /\ x + ToBlock(x) = ((x + ToBlock(x)) \div Grain) * Grain
<1>1. Grain \in Nat \ {0}  BY SortAssumption
<1> DEFINE m == x % Grain
           d == x \div Grain
<1>2. d \in Int /\ m \in 0 .. (Grain - 1) /\ x = d * Grain + m  BY <1>1, Division
<1>3. CASE m = 0
  <2>1. ToBlock(x) = 0
    <3>1. (Grain - 0) % Grain = 0  BY <1>1
    <3> QED  BY <1>3, <3>1 DEF ToBlock
  <2>2. x + ToBlock(x) = x /\ x = d * Grain  BY <1>1, <1>2, <1>3, <2>1
  <2> QED  BY <1>1, <2>1, <2>2
<1>4. CASE m # 0
  <2>1. ToBlock(x) = Grain - m
    <3>1. Grain - m \in 1 .. (Grain - 1)  BY <1>1, <1>2, <1>4
    <3>2. (Grain - m) % Grain = Grain - m  BY <1>1, <3>1
    <3> QED  BY <3>2 DEF ToBlock
  <2>2. x + ToBlock(x) = d * Grain + Grain  BY <1>1, <1>2, <2>1
  <2>3. d * Grain + Grain = (d + 1) * Grain  BY <1>1, <1>2, ProductsGrow
  <2>4. PICK y : y = x + ToBlock(x)  OBVIOUS
  <2>5. y \in Int /\ y = (d + 1) * Grain /\ d + 1 \in Int
    BY <1>1, <1>2, <2>1, <2>2, <2>3, <2>4
  <2>6. y \div Grain = d + 1
    <3>1. y \in ((d + 1) * Grain) .. ((d + 1) * Grain + Grain - 1)  BY <1>1, <2>5
    <3> QED  BY <1>1, <2>5, <3>1, WholeBlocks
  <2> QED  BY <1>1, <1>2, <1>4, <2>1, <2>4, <2>5, <2>6
<1> QED  BY <1>3, <1>4

LEMMA MinIs ==
  ASSUME NEW S \in SUBSET Int, IsFiniteSet(S), S # {}
  PROVE  Min(S) \in S /\ \A x \in S : Min(S) <= x
<1> DEFINE Below(x) == {y \in S : y < x}
           T == {Below(x) : x \in S}
<1>1. T \subseteq FiniteSubsetsOf(S)
  BY FS_Subset DEF FiniteSubsetsOf
<1>2. PICK U \in T : \A V \in T : ~ (<<V, U>> \in StrictSubsetOrdering(S))
  <2>1. IsWellFoundedOn(StrictSubsetOrdering(S), FiniteSubsetsOf(S))
    BY FS_StrictSubsetOrderingWellFounded
  <2>2. T # {}  OBVIOUS
  <2> HIDE DEF T
  <2> QED  BY <1>1, <2>1, <2>2, WFMin
<1>3. PICK x \in S : U = Below(x)  OBVIOUS
<1>4. \A y \in S : x <= y
  <2> SUFFICES ASSUME NEW y \in S, y < x PROVE FALSE  OBVIOUS
  <2>1. Below(y) \in T  OBVIOUS
  <2>2. Below(y) \subseteq U /\ y \in U /\ y \notin Below(y)
    <3>1. x \in Int /\ y \in Int /\ \A z \in S : z \in Int  OBVIOUS
    <3>2. \A z \in S : z < y => z < x  BY <3>1
    <3>3. ~ (y < y)  BY <3>1
    <3> HIDE DEF T
    <3> QED  BY <1>3, <3>2, <3>3
  <2>3. U \subseteq S  BY <1>3
  <2> QED  BY <1>2, <2>1, <2>2, <2>3 DEF StrictSubsetOrdering
<1> QED  BY <1>4 DEF Min

LEMMA MaxIs ==
  ASSUME NEW S \in SUBSET Int, IsFiniteSet(S), S # {}
  PROVE  Max(S) \in S /\ \A x \in S : x <= Max(S)
<1> DEFINE Above(x) == {y \in S : y > x}
           T == {Above(x) : x \in S}
<1>1. T \subseteq FiniteSubsetsOf(S)
  BY FS_Subset DEF FiniteSubsetsOf
<1>2. PICK U \in T : \A V \in T : ~ (<<V, U>> \in StrictSubsetOrdering(S))
  <2>1. IsWellFoundedOn(StrictSubsetOrdering(S), FiniteSubsetsOf(S))
    BY FS_StrictSubsetOrderingWellFounded
  <2>2. T # {}  OBVIOUS
  <2> HIDE DEF T
  <2> QED  BY <1>1, <2>1, <2>2, WFMin
<1>3. PICK x \in S : U = Above(x)  OBVIOUS
<1>4. \A y \in S : y <= x
  <2> SUFFICES ASSUME NEW y \in S, y > x PROVE FALSE  OBVIOUS
  <2>1. Above(y) \in T  OBVIOUS
  <2>2. Above(y) \subseteq U /\ y \in U /\ y \notin Above(y)
    <3>1. x \in Int /\ y \in Int /\ \A z \in S : z \in Int  OBVIOUS
    <3>2. \A z \in S : z > y => z > x  BY <3>1
    <3>3. ~ (y > y)  BY <3>1
    <3> HIDE DEF T
    <3> QED  BY <1>3, <3>2, <3>3
  <2>3. U \subseteq S  BY <1>3
  <2> QED  BY <1>2, <2>1, <2>2, <2>3 DEF StrictSubsetOrdering
<1> QED  BY <1>4 DEF Max

----------------------------------------------------------------------------
(* What is pending at an address is what its block holds *)

Block(r, i) == BlockBytes(r.base + i * Grain, 1)

LEMMA BlockWithin ==
  ASSUME NEW r \in Regions, NEW i \in Blocks(r), NEW b \in Block(r, i)
  PROVE  /\ b \in Int /\ i \in Nat
         /\ i = (b - r.base) \div Grain
         /\ r.base <= b /\ b < End(r)
         /\ i <= r.size
<1>1. Grain \in Nat \ {0} /\ r.base \in Nat /\ r.size \in Nat \ {0}
  BY SortAssumption DEF Regions
<1> DEFINE z == r.size
<1>0. z \in Int /\ Grain \in Nat \ {0}  BY <1>1
<1>2. r.size \div Grain \in Int /\ i \in Nat /\ i < r.size \div Grain
  <2>1. r.size \div Grain \in Int
    <3> HIDE DEF z
    <3>1. z \div Grain \in Int  BY ONLY <1>0, Division
    <3> QED  BY <3>1 DEF z
  <2> QED  BY <2>1 DEF Blocks
<1>3. i * Grain \in Nat /\ i * Grain + Grain <= r.size /\ i <= i * Grain
  <2>1. i * Grain + Grain <= r.size
    <3>1. i < z \div Grain /\ i \in Int  BY <1>2
    <3> HIDE DEF z
    <3>2. i * Grain + Grain <= z  BY ONLY <1>0, <3>1, WholeBlocks
    <3> QED  BY <3>2 DEF z
  <2>2. i * Grain \in Int /\ 0 * Grain <= i * Grain  BY <1>1, <1>2, ProductsGrow
  <2>3. i <= i * Grain  BY <1>1, <1>2
  <2> QED  BY <1>1, <1>2, <2>1, <2>2, <2>3
<1>4. b \in (r.base + i * Grain) .. (r.base + i * Grain + Grain - 1)
  <2>1. 1 * Grain = Grain  BY <1>1
  <2> QED  BY <2>1 DEF Block, BlockBytes
<1>5. /\ b \in Int /\ r.base <= b /\ b < r.base + r.size
      /\ b - r.base \in (i * Grain) .. (i * Grain + Grain - 1)
  BY <1>1, <1>2, <1>3, <1>4
<1>6. i = (b - r.base) \div Grain
  <2>1. b - r.base \in Int /\ i \in Int  BY <1>1, <1>2, <1>5
  <2> QED  BY <2>1, <1>1, <1>5, WholeBlocks
<1> QED  BY <1>1, <1>2, <1>3, <1>5, <1>6 DEF End

LEMMA BlockAt ==
  ASSUME NEW r \in Regions, NEW i \in Int, NEW b \in Int, i = (b - r.base) \div Grain
  PROVE  b \in Block(r, i)
<1>1. Grain \in Nat \ {0} /\ r.base \in Nat  BY SortAssumption DEF Regions
<1>2. b - r.base \in (i * Grain) .. (i * Grain + Grain - 1)
  <2>1. b - r.base \in Int  BY <1>1
  <2> QED  BY <2>1, <1>1, WholeBlocks
<1>3. i * Grain \in Int /\ 1 * Grain = Grain  BY <1>1, ProductsGrow
<1>4. b \in (r.base + i * Grain) .. (r.base + i * Grain + Grain - 1)
  BY <1>1, <1>2, <1>3
<1> QED  BY <1>3, <1>4 DEF Block, BlockBytes

LEMMA OneBlock ==
  ASSUME RegionsOK, NEW q \in m_sortedRegions, NEW r \in m_sortedRegions,
         NEW j \in Blocks(q), NEW i \in Blocks(r),
         NEW b \in Block(q, j), b \in Block(r, i)
  PROVE  q = r /\ j = i
<1>1. q \in Regions /\ r \in Regions  BY DEF RegionsOK
<1>2. /\ b \in Int /\ q.base <= b /\ b < End(q) /\ j = (b - q.base) \div Grain
      /\ r.base <= b /\ b < End(r) /\ i = (b - r.base) \div Grain
  BY <1>1, BlockWithin
<1>3. /\ q.base \in Int /\ End(q) \in Int /\ r.base \in Int /\ End(r) \in Int
  BY <1>1 DEF Regions, End
<1>4. q = r
  <2>1. SUFFICES ASSUME End(q) < r.base \/ End(r) < q.base PROVE FALSE
    BY DEF RegionsOK
  <2> QED  BY <1>2, <1>3, <2>1
<1> QED  BY <1>2, <1>4

Mark(r, i) == m_writes[r.region + 1].memory[i]

LEMMA MarkType ==
  ASSUME RegionsOK, WritesOK, NEW r \in m_sortedRegions
  PROVE  /\ r.region \in Nat /\ r.region + 1 \in DOMAIN m_writes
         /\ m_writes[r.region + 1] \in Pushed
         /\ DOMAIN m_writes[r.region + 1].memory = Blocks(r)
         /\ \A i \in Blocks(r) : Mark(r, i) \in Nat
<1>1. r \in Regions /\ r.region < Len(m_regions)  BY DEF RegionsOK
<1>2. r.region \in Nat /\ r.region + 1 \in 1 .. Len(m_writes)
  <2>1. Len(m_writes) \in Nat /\ Len(m_writes) = Len(m_regions)  BY DEF WritesOK
  <2>2. r.region \in Nat  BY <1>1 DEF Regions
  <2> QED  BY <1>1, <2>1, <2>2
<1>3. r.region + 1 \in DOMAIN m_writes /\ m_writes[r.region + 1] \in Pushed
  BY <1>2 DEF WritesOK
<1>4. DOMAIN m_writes[r.region + 1].memory = Blocks(r)  BY DEF WritesOK
<1>5. m_writes[r.region + 1].memory \in Memories  BY <1>3 DEF Pushed
<1>6. PICK n \in Nat : m_writes[r.region + 1].memory \in [0 .. n - 1 -> Nat]
  BY <1>5 DEF Memories
<1> QED  BY <1>2, <1>3, <1>4, <1>6 DEF Mark

LEMMA AddressesFit ==
  ASSUME RegionsOK, NEW r \in m_sortedRegions, NEW i \in Blocks(r), NEW b \in Block(r, i)
  PROVE  i \in 0 .. Memory /\ b \in 0 .. (Memory - 1)
<1>1. r \in Regions /\ End(r) <= Memory  BY DEF RegionsOK
<1>2. b \in Int /\ i \in Nat /\ r.base <= b /\ b < End(r) /\ i <= r.size
  BY <1>1, BlockWithin
<1>3. r.base \in Nat /\ r.size \in Nat /\ Memory \in Nat /\ End(r) = r.base + r.size
  BY <1>1, SortAssumption DEF Regions, End
<1> QED  BY <1>1, <1>2, <1>3

LEMMA PendingIs ==
  ASSUME RegionsOK, WritesOK, NEW r \in m_sortedRegions, NEW i \in Blocks(r),
         NEW b \in Block(r, i)
  PROVE  PendingAt(b) = Mark(r, i) - 1
<1>1. BlocksAt(b) = {<<r, i>>}
  <2>1. ASSUME NEW p \in BlocksAt(b) PROVE p = <<r, i>>
    <3>1. PICK q \in m_sortedRegions, j \in 0 .. Memory : p = <<q, j>>  BY DEF BlocksAt
    <3>2. j \in DOMAIN m_writes[q.region + 1].memory /\ b \in Block(q, j)
      BY <3>1 DEF BlocksAt, Block
    <3>3. j \in Blocks(q)  BY <3>2, MarkType
    <3>4. q = r /\ j = i  BY <3>2, <3>3, OneBlock
    <3> QED  BY <3>1, <3>4
  <2>2. <<r, i>> \in BlocksAt(b)
    <3>1. i \in 0 .. Memory  BY AddressesFit
    <3>2. i \in DOMAIN m_writes[r.region + 1].memory  BY MarkType
    <3> QED  BY <3>1, <3>2 DEF BlocksAt, Block
  <2> QED  BY <2>1, <2>2
<1>2. PendingAt(b) = Max({-1, Mark(r, i) - 1})
  <2>1. {m_writes[p[1].region + 1].memory[p[2]] - 1 : p \in {<<r, i>>}} = {Mark(r, i) - 1}
    BY DEF Mark
  <2>2. {-1} \cup {Mark(r, i) - 1} = {-1, Mark(r, i) - 1}  OBVIOUS
  <2> QED  BY <1>1, <2>1, <2>2 DEF PendingAt
<1>3. Mark(r, i) \in Nat  BY MarkType
<1>4. PICK m : m = Mark(r, i) - 1  OBVIOUS
<1>5. m \in Int /\ -1 <= m  BY <1>3, <1>4
<1>6. {-1, m} \subseteq Int /\ IsFiniteSet({-1, m})
  <2>1. IsFiniteSet({-1})  BY FS_Singleton
  <2>2. IsFiniteSet({-1} \cup {m})  BY <2>1, FS_AddElement
  <2>3. {-1, m} = {-1} \cup {m}  OBVIOUS
  <2> QED  BY <1>5, <2>2, <2>3
<1>7. Max({-1, m}) \in {-1, m} /\ m <= Max({-1, m})  BY <1>6, MaxIs
<1>8. Max({-1, m}) = m  BY <1>5, <1>7
<1> QED  BY <1>2, <1>4, <1>8

LEMMA NonePending ==
  ASSUME RegionsOK, WritesOK, NEW b,
         \A r \in m_sortedRegions : \A i \in Blocks(r) : b \notin Block(r, i)
  PROVE  PendingAt(b) = -1
<1>1. BlocksAt(b) = {}
  <2>1. SUFFICES ASSUME NEW p \in BlocksAt(b) PROVE FALSE  OBVIOUS
  <2>2. PICK q \in m_sortedRegions, j \in 0 .. Memory : p = <<q, j>>  BY DEF BlocksAt
  <2>3. j \in DOMAIN m_writes[q.region + 1].memory /\ b \in Block(q, j)
    BY <2>2, <2>1 DEF BlocksAt, Block
  <2> QED  BY <2>3, MarkType
<1>2. PendingAt(b) = Max({-1})
  <2>1. {-1} \cup {m_writes[p[1].region + 1].memory[p[2]] - 1 : p \in {}} = {-1}  OBVIOUS
  <2> QED  BY <1>1, <2>1 DEF PendingAt
<1>3. Max({-1}) \in {-1}
  BY MaxIs, FS_Singleton, {-1} \subseteq Int
<1> QED  BY <1>2, <1>3

\* So much of it is read off the memory of the regions.
PendingRight ==
  \A b \in 0 .. (Memory - 1) :
    /\ \A r \in m_sortedRegions : \A i \in Blocks(r) :
         b \in Block(r, i) => PendingAt(b) = Mark(r, i) - 1
    /\ (\A r \in m_sortedRegions : \A i \in Blocks(r) : b \notin Block(r, i)) =>
         PendingAt(b) = -1
AnswersRight ==
  AllAnswers = Win!Answers([b \in 0 .. Memory - 1 |-> PendingAt(b)], Registered)
Quiet == \A i \in DOMAIN m_writes : NoneIn(m_writes[i])
QuietRight == Quiet => \A b \in 0 .. (Memory - 1) : PendingAt(b) = -1
Shown == /\ PendingRight /\ QuietRight /\ AnswersRight
         /\ Registered \subseteq 0 .. (Memory - 1)

LEMMA SlotWithin ==
  ASSUME SortIInv, NEW s \in SlotsOf, InUse(s)
  PROVE  /\ m_memslots[s].base \in Nat /\ m_memslots[s].size \in Nat \ {0}
         /\ End(m_memslots[s]) = m_memslots[s].base + m_memslots[s].size
         /\ \E r \in m_sortedRegions :
              /\ r \in Regions /\ r.base \in Nat /\ r.size \in Nat
              /\ m_slotToRegion[s].region = r.region
              /\ m_slotToRegion[s].offset = m_memslots[s].base - r.base
              /\ r.base <= m_memslots[s].base
              /\ End(m_memslots[s]) <= r.base + r.size
              /\ r.base + r.size <= Memory
<1>1. PICK r \in m_sortedRegions : Within(s, r)  BY DEF SortIInv, SlotsOK
<1>2. r \in Regions /\ End(r) <= Memory  BY DEF SortIInv, RegionsOK
<1>3. m_memslots[s].base \in Nat /\ m_memslots[s].size \in Nat \ {0}
  BY DEF SortIInv, SlotsOK
<1> QED  BY <1>1, <1>2, <1>3 DEF Within, End, Regions

LEMMA RegisteredFit ==
  ASSUME SortIInv
  PROVE  Registered \subseteq 0 .. (Memory - 1)
<1>1. SUFFICES ASSUME NEW s \in SlotsOf, InUse(s), NEW b \in AreaOf(s)
               PROVE b \in 0 .. (Memory - 1)
  BY DEF Registered
<1>2. b \in m_memslots[s].base .. (End(m_memslots[s]) - 1)  BY DEF AreaOf
<1>3. Memory \in Nat  BY SortAssumption
<1>4. m_memslots[s].base \in Nat /\ End(m_memslots[s]) \in Nat /\ End(m_memslots[s]) <= Memory
  BY <1>1, <1>3, SlotWithin
<1> QED  BY <1>2, <1>3, <1>4

LEMMA CanWriteRight ==
  ASSUME SortIInv, NEW s \in SlotsOf, InUse(s), NEW b \in AreaOf(s), NEW id \in MsgIds
  PROVE  canWrite(id, s, b - m_memslots[s].base) <=> id > PendingAt(b)
<1>1. b \in m_memslots[s].base .. (End(m_memslots[s]) - 1)  BY DEF AreaOf
<1>2. PICK r \in m_sortedRegions :
        /\ r \in Regions /\ r.base \in Nat /\ r.size \in Nat
        /\ m_slotToRegion[s].region = r.region
        /\ m_slotToRegion[s].offset = m_memslots[s].base - r.base
        /\ r.base <= m_memslots[s].base
        /\ End(m_memslots[s]) <= r.base + r.size
  BY <1>1, SlotWithin
<1>3. /\ m_memslots[s].base \in Nat /\ m_memslots[s].size \in Nat
      /\ End(m_memslots[s]) = m_memslots[s].base + m_memslots[s].size
  BY SlotWithin
<1>4. id \in Nat  BY SortAssumption
<1>5. b \in Int /\ r.base <= b /\ b < r.base + r.size
  BY <1>1, <1>2, <1>3
<1>6. m_slotToRegion[s].offset + (b - m_memslots[s].base) = b - r.base
  <2>1. PICK x, y : x = m_memslots[s].base /\ y = r.base  OBVIOUS
  <2>2. x \in Int /\ y \in Int  BY <1>2, <1>3, <2>1
  <2>3. (x - y) + (b - x) = b - y  BY ONLY <1>5, <2>2
  <2> QED  BY <1>2, <2>1, <2>3
<1> DEFINE i == (b - r.base) \div Grain
<1>7. i \in Nat
  <2>1. b - r.base \in Nat /\ Grain \in Nat \ {0}  BY <1>2, <1>5, SortAssumption
  <2>2. PICK x : x = b - r.base  OBVIOUS
  <2>3. x \in Nat  BY <2>1, <2>2
  <2>4. x \div Grain \in Int  BY <2>1, <2>3, Division
  <2>5. 0 * Grain <= x /\ 0 \in Int  BY <2>1, <2>3
  <2>6. 0 <= x \div Grain  BY <2>1, <2>3, <2>5, WholeBlocks
  <2> QED  BY <2>2, <2>4, <2>6
<1>8. b \in Block(r, i)
  <2>1. i \in Int  BY <1>7
  <2> HIDE DEF i
  <2>2. i = (b - r.base) \div Grain  BY DEF i
  <2> QED  BY <2>1, <2>2, <1>2, <1>5, BlockAt
<1>9. canWrite(id, s, b - m_memslots[s].base) <=> i \notin Blocks(r) \/ id >= Mark(r, i)
  <2>1. DOMAIN m_writes[r.region + 1].memory = Blocks(r)  BY MarkType DEF SortIInv
  <2> QED  BY <2>1, <1>2, <1>6 DEF canWrite, Mark
<1> HIDE DEF i
<1>10. CASE i \in Blocks(r)
  <2>1. PendingAt(b) = Mark(r, i) - 1  BY <1>8, <1>10, PendingIs DEF SortIInv
  <2>2. Mark(r, i) \in Nat  BY <1>10, MarkType DEF SortIInv
  <2> QED  BY <1>4, <1>9, <1>10, <2>1, <2>2
<1>11. CASE i \notin Blocks(r)
  <2>1. ASSUME NEW q \in m_sortedRegions, NEW j \in Blocks(q), b \in Block(q, j)
        PROVE FALSE
    <3>1. q \in Regions /\ r \in Regions  BY DEF SortIInv, RegionsOK
    <3>2. q.base <= b /\ b < End(q) /\ j = (b - q.base) \div Grain
      BY <2>1, <3>1, BlockWithin
    <3>3. q.base \in Int /\ End(q) \in Int /\ End(r) = r.base + r.size
      BY <3>1 DEF Regions, End
    <3>4. ~ (End(q) < r.base) /\ ~ (End(r) < q.base)
      BY <1>2, <1>5, <3>2, <3>3
    <3>5. q = r  BY <3>4 DEF SortIInv, RegionsOK
    <3> QED  BY <1>11, <3>2, <3>5 DEF i
  <2>2. PendingAt(b) = -1  BY <2>1, NonePending DEF SortIInv
  <2> QED  BY <1>4, <1>9, <1>11, <2>2
<1> QED  BY <1>10, <1>11

LEMMA ShownRight ==
  ASSUME SortIInv
  PROVE  Shown
<1>1. PendingRight  BY PendingIs, NonePending DEF PendingRight, SortIInv
<1>2. Registered \subseteq 0 .. (Memory - 1)  BY RegisteredFit
<1>3. AnswersRight
  <2> DEFINE pend == [b \in 0 .. Memory - 1 |-> PendingAt(b)]
  <2>1. ASSUME NEW s \in SlotsOf, InUse(s), NEW b \in AreaOf(s), NEW id \in MsgIds
        PROVE  /\ canWrite(id, s, b - m_memslots[s].base) = (id > pend[b])
               /\ b \in Registered
    <3>1. b \in Registered  BY <2>1 DEF Registered
    <3>2. b \in 0 .. Memory - 1  BY <1>2, <3>1
    <3>3. pend[b] = PendingAt(b)  BY <3>2
    <3>4. canWrite(id, s, b - m_memslots[s].base) <=> id > pend[b]
      BY <2>1, <3>3, CanWriteRight
    <3>5. canWrite(id, s, b - m_memslots[s].base) \in BOOLEAN /\ (id > pend[b]) \in BOOLEAN
      BY DEF canWrite
    <3> QED  BY <3>1, <3>4, <3>5
  <2> HIDE DEF pend
  <2>2. ASSUME NEW x \in AllAnswers PROVE x \in Win!Answers(pend, Registered)
    <3>1. PICK s \in SlotsOf :
            /\ InUse(s)
            /\ \E id \in MsgIds, b \in AreaOf(s) :
                 x = <<id, b, canWrite(id, s, b - m_memslots[s].base)>>
      BY <2>2 DEF AllAnswers
    <3>3. PICK id \in MsgIds, b \in AreaOf(s) :
            x = <<id, b, canWrite(id, s, b - m_memslots[s].base)>>
      BY <3>1
    <3>2. x = <<id, b, id > pend[b]>> /\ b \in Registered  BY <2>1, <3>1, <3>3
    <3> QED  BY <3>2 DEF Win!Answers
  <2>3. ASSUME NEW x \in Win!Answers(pend, Registered) PROVE x \in AllAnswers
    <3>1. PICK id \in MsgIds, b \in Registered : x = <<id, b, id > pend[b]>>
      BY <2>3 DEF Win!Answers
    <3>2. PICK s \in SlotsOf : InUse(s) /\ b \in AreaOf(s)  BY <3>1 DEF Registered
    <3>3. x = <<id, b, canWrite(id, s, b - m_memslots[s].base)>>  BY <2>1, <3>1, <3>2
    <3> QED  BY <3>2, <3>3 DEF AllAnswers
  <2> QED  BY <2>2, <2>3 DEF AnswersRight, pend
<1>4. QuietRight
  <2>1. SUFFICES ASSUME Quiet, NEW b \in 0 .. (Memory - 1) PROVE PendingAt(b) = -1
    BY DEF QuietRight
  <2>2. ASSUME NEW r \in m_sortedRegions, NEW i \in Blocks(r) PROVE Mark(r, i) = 0
    <3>1. /\ r.region + 1 \in DOMAIN m_writes
          /\ DOMAIN m_writes[r.region + 1].memory = Blocks(r)
      BY MarkType DEF SortIInv
    <3> QED  BY <2>1, <3>1 DEF Quiet, NoneIn, Mark
  <2> QED  BY <1>1, <2>2 DEF PendingRight
<1> QED  BY <1>1, <1>2, <1>3, <1>4 DEF Shown

----------------------------------------------------------------------------
(* The actions preserve the invariant *)

LEMMA SequenceOf ==
  ASSUME NEW S, NEW n \in Nat, NEW f \in [1 .. n -> S]
  PROVE  f \in Seq(S) /\ Len(f) = n /\ DOMAIN f = 1 .. n
  OBVIOUS

LEMMA WritesSequence ==
  ASSUME RegionsOK, WritesOK
  PROVE  /\ Len(m_writes) \in Nat /\ DOMAIN m_writes = 1 .. Len(m_writes)
         /\ m_writes \in [1 .. Len(m_writes) -> Pushed]
  BY DEF WritesOK

\* What lies outside m_writes and m_dirty stays.
LEMMA RestStays ==
  ASSUME SortIInv, UNCHANGED <<m_memslots, m_sortedRegions, m_regions, m_slotToRegion>>
  PROVE  RegionsOK' /\ SlotsOK'
  BY DEF SortIInv, RegionsOK, SlotsOK, SlotsOf, InUse, Within, End

LEMMA RangeStep ==
  ASSUME SortIInv, NEW range, setSlotRange(range)
  PROVE  SortIInv'
<1>1. UNCHANGED <<m_sortedRegions, m_regions, m_writes, m_dirty>>  BY DEF setSlotRange
<1>2. RegionsOK'  BY <1>1 DEF SortIInv, RegionsOK
<1>3. WritesOK' /\ DirtyOK'  BY <1>1 DEF SortIInv, WritesOK, DirtyOK
<1>4. SlotsOK'
  <2>1. SlotsOf' = 0 .. range - 1 /\ DOMAIN m_slotToRegion' = 0 .. range - 1
    BY DEF setSlotRange, SlotsOf
  <2>2. ASSUME NEW s \in SlotsOf', InUse(s)'
        PROVE  /\ s \in SlotsOf /\ InUse(s) /\ m_memslots'[s] = m_memslots[s]
               /\ m_slotToRegion'[s] = m_slotToRegion[s]
    BY <2>1, <2>2 DEF setSlotRange, SlotsOf, InUse
  <2>3. ASSUME NEW s \in SlotsOf', InUse(s)'
        PROVE  /\ m_memslots'[s].base \in Nat /\ m_memslots'[s].size \in Nat \ {0}
               /\ \E r \in m_sortedRegions' : Within(s, r)'
    <3>1. /\ s \in SlotsOf /\ InUse(s) /\ m_memslots'[s] = m_memslots[s]
          /\ m_slotToRegion'[s] = m_slotToRegion[s]
      BY <2>2, <2>3
    <3>2. PICK r \in m_sortedRegions : Within(s, r)  BY <3>1 DEF SortIInv, SlotsOK
    <3>3. Within(s, r)'  BY <3>1, <3>2 DEF Within
    <3>4. m_memslots[s].base \in Nat /\ m_memslots[s].size \in Nat \ {0}
      BY <3>1 DEF SortIInv, SlotsOK
    <3> QED  BY <1>1, <3>1, <3>3, <3>4
  <2> QED  BY <2>1, <2>3 DEF SlotsOK
<1> QED  BY <1>2, <1>3, <1>4 DEF SortIInv

LEMMA DelStep ==
  ASSUME SortIInv, NEW id \in SlotsOf, delRegister(id)
  PROVE  SortIInv'
<1>1. UNCHANGED <<m_sortedRegions, m_regions, m_writes, m_dirty>>  BY DEF delRegister
<1>2. RegionsOK'  BY <1>1 DEF SortIInv, RegionsOK
<1>3. WritesOK' /\ DirtyOK'  BY <1>1 DEF SortIInv, WritesOK, DirtyOK
<1>4. SlotsOK'
  <2>1. /\ SlotsOf' = SlotsOf /\ DOMAIN m_slotToRegion' = DOMAIN m_slotToRegion
        /\ m_memslots'[id] = NoArea
        /\ \A s \in SlotsOf : s # id => m_memslots'[s] = m_memslots[s]
        /\ \A s \in DOMAIN m_slotToRegion : s # id => m_slotToRegion'[s] = m_slotToRegion[s]
    BY DEF delRegister, SlotsOf
  <2>2. DOMAIN m_slotToRegion = SlotsOf  BY DEF SortIInv, SlotsOK
  <2>3. ASSUME NEW s \in SlotsOf', InUse(s)'
        PROVE  /\ m_memslots'[s].base \in Nat /\ m_memslots'[s].size \in Nat \ {0}
               /\ \E r \in m_sortedRegions' : Within(s, r)'
    <3>1. s \in SlotsOf /\ s # id  BY <2>1, <2>3 DEF InUse
    <3>2. /\ InUse(s) /\ m_memslots'[s] = m_memslots[s]
          /\ m_slotToRegion'[s] = m_slotToRegion[s]
      BY <2>1, <2>2, <2>3, <3>1 DEF InUse
    <3>3. PICK r \in m_sortedRegions : Within(s, r)  BY <3>1, <3>2 DEF SortIInv, SlotsOK
    <3>4. Within(s, r)'  BY <3>2, <3>3 DEF Within
    <3>5. m_memslots[s].base \in Nat /\ m_memslots[s].size \in Nat \ {0}
      BY <3>1, <3>2 DEF SortIInv, SlotsOK
    <3> QED  BY <1>1, <3>2, <3>4, <3>5
  <2> QED  BY <2>1, <2>2, <2>3 DEF SlotsOK
<1> QED  BY <1>2, <1>3, <1>4 DEF SortIInv

LEMMA NoWrites ==
  ASSUME SortIInv, \A d \in m_dirty : ~ HasWrites(d)
  PROVE  \A i \in DOMAIN m_writes : NoneIn(m_writes[i])
<1> SUFFICES ASSUME NEW i \in DOMAIN m_writes, SomeIn(m_writes[i]) PROVE FALSE
  BY DEF SortIInv, WritesOK
<1>1. i - 1 \in m_dirty  BY DEF SortIInv, DirtyOK
<1>2. (i - 1) + 1 = i  BY WritesSequence DEF SortIInv
<1> QED  BY <1>1, <1>2 DEF HasWrites, SomeIn

LEMMA EmptyStep ==
  ASSUME SortIInv, popNothing
  PROVE  SortIInv'
<1>1. \A i \in DOMAIN m_writes : NoneIn(m_writes[i])  BY NoWrites DEF popNothing
<1>2. /\ m_writes' = m_writes /\ m_dirty' = {}
      /\ UNCHANGED <<m_memslots, m_sortedRegions, m_regions, m_slotToRegion>>
  BY DEF popNothing
<1>3. RegionsOK' /\ SlotsOK'  BY <1>2, RestStays
<1>4. WritesOK'  BY <1>2 DEF SortIInv, WritesOK
<1>5. DirtyOK'
  <2>1. ASSUME NEW w, NoneIn(w), SomeIn(w) PROVE FALSE
    BY <2>1 DEF NoneIn, SomeIn
  <2> QED  BY <1>1, <1>2, <2>1 DEF DirtyOK
<1> QED  BY <1>3, <1>4, <1>5 DEF SortIInv

LEMMA ClearStep ==
  ASSUME SortIInv, clear_
  PROVE  SortIInv' /\ \A i \in DOMAIN m_writes' : NoneIn(m_writes'[i])
<1>1. /\ m_dirty' = {}
      /\ UNCHANGED <<m_memslots, m_sortedRegions, m_regions, m_slotToRegion>>
  BY DEF clear_
<1>2. RegionsOK' /\ SlotsOK'  BY <1>1, RestStays
<1> DEFINE Cleared(w) ==
             [min |-> NoMin, max |-> 0, memory |-> [k \in DOMAIN w.memory |->
                IF k \in w.min .. w.max THEN 0 ELSE w.memory[k]]]
<1>3. m_writes' = [i \in DOMAIN m_writes |-> Cleared(m_writes[i])]  BY DEF clear_
<1>4. ASSUME NEW w \in Pushed, NoneIn(w) \/ SomeIn(w)
      PROVE  /\ Cleared(w) \in Pushed /\ NoneIn(Cleared(w))
             /\ DOMAIN Cleared(w).memory = DOMAIN w.memory
  <2>1. PICK n \in Nat : w.memory \in [0 .. n - 1 -> Nat]  BY DEF Pushed, Memories
  <2>2. Cleared(w).memory \in [0 .. n - 1 -> Nat]
    <3>1. \A k \in DOMAIN w.memory : w.memory[k] \in Nat  BY <2>1
    <3> QED  BY <2>1, <3>1
  <2>3. NoMin \in Nat  BY SortAssumption DEF NoMin
  <2>4. Cleared(w).memory \in Memories  BY <2>2 DEF Memories
  <2>5. \A k \in DOMAIN w.memory : k \notin w.min .. w.max => w.memory[k] = 0
    BY <1>4 DEF NoneIn, SomeIn
  <2> QED  BY <2>3, <2>4, <2>5 DEF Pushed, NoneIn
<1> HIDE DEF Cleared
<1>5. m_writes \in [1 .. Len(m_writes) -> Pushed] /\ Len(m_writes) \in Nat
  BY WritesSequence DEF SortIInv
<1>6. \A i \in 1 .. Len(m_writes) :
        /\ m_writes'[i] \in Pushed /\ NoneIn(m_writes'[i])
        /\ DOMAIN m_writes'[i].memory = DOMAIN m_writes[i].memory
  BY <1>3, <1>4, <1>5 DEF SortIInv, WritesOK
<1>7. m_writes' \in [1 .. Len(m_writes) -> Pushed]  BY <1>3, <1>5, <1>6
<1>8. /\ m_writes' \in Seq(Pushed) /\ Len(m_writes') = Len(m_writes)
      /\ DOMAIN m_writes' = 1 .. Len(m_writes)
  BY <1>5, <1>7, SequenceOf
<1>9. WritesOK'
  <2>1. ASSUME NEW r \in m_sortedRegions PROVE DOMAIN m_writes'[r.region + 1].memory = Blocks(r)
    BY <1>5, <1>6, MarkType DEF SortIInv
  <2> QED  BY <1>1, <1>6, <1>8, <2>1 DEF SortIInv, WritesOK, NoneIn, SomeIn
<1>10. DirtyOK'
  <2>1. ASSUME NEW w, NoneIn(w), SomeIn(w) PROVE FALSE
    BY <2>1 DEF NoneIn, SomeIn
  <2> QED  BY <1>1, <1>6, <1>8, <2>1 DEF DirtyOK
<1> QED  BY <1>2, <1>6, <1>8, <1>9, <1>10 DEF SortIInv

\* The memory of the live region r is changed in place.
LEMMA ReplaceStep ==
  ASSUME SortIInv, NEW r \in m_sortedRegions, NEW w \in Pushed, NoneIn(w) \/ SomeIn(w),
         DOMAIN w.memory = Blocks(r),
         m_writes' = [m_writes EXCEPT ![r.region + 1] = w],
         UNCHANGED <<m_memslots, m_sortedRegions, m_regions, m_slotToRegion>>,
         \A d \in m_dirty' : d \in m_dirty \/ d = r.region,
         SomeIn(w) => r.region \in m_dirty',
         \A d \in m_dirty : HasWrites(d) /\ d # r.region => d \in m_dirty'
  PROVE  SortIInv'
<1>1. RegionsOK' /\ SlotsOK'  BY RestStays
<1>2. /\ Len(m_writes) \in Nat /\ DOMAIN m_writes = 1 .. Len(m_writes)
      /\ m_writes \in [1 .. Len(m_writes) -> Pushed]
  BY WritesSequence DEF SortIInv
<1>3. r.region \in Nat /\ r.region + 1 \in 1 .. Len(m_writes)
  BY <1>2, MarkType DEF SortIInv
<1>4. /\ m_writes' \in [1 .. Len(m_writes) -> Pushed]
      /\ m_writes'[r.region + 1] = w
      /\ \A i \in 1 .. Len(m_writes) : i # r.region + 1 => m_writes'[i] = m_writes[i]
  BY <1>2, <1>3
<1>5. /\ m_writes' \in Seq(Pushed) /\ Len(m_writes') = Len(m_writes)
      /\ DOMAIN m_writes' = 1 .. Len(m_writes)
  BY <1>2, <1>4, SequenceOf
<1>6. WritesOK'
  <2>1. \A i \in 1 .. Len(m_writes) : NoneIn(m_writes[i]) \/ SomeIn(m_writes[i])
    BY <1>2 DEF SortIInv, WritesOK
  <2>2. \A i \in 1 .. Len(m_writes) : NoneIn(m_writes'[i]) \/ SomeIn(m_writes'[i])
    BY <1>4, <2>1
  <2>3. ASSUME NEW q \in m_sortedRegions
        PROVE  DOMAIN m_writes'[q.region + 1].memory = Blocks(q)
    <3>1. /\ q.region \in Nat /\ q.region + 1 \in 1 .. Len(m_writes)
          /\ DOMAIN m_writes[q.region + 1].memory = Blocks(q)
      BY <1>2, MarkType DEF SortIInv
    <3>2. CASE q.region = r.region
      <4>1. q = r  BY <3>2 DEF SortIInv, RegionsOK
      <4> QED  BY <1>4, <4>1
    <3>3. CASE q.region # r.region
      <4>1. q.region + 1 # r.region + 1  BY <1>3, <3>1, <3>3
      <4> QED  BY <1>4, <3>1, <4>1
    <3> QED  BY <3>2, <3>3
  <2>4. \A i \in DOMAIN m_writes' : (NoneIn(m_writes[i]) \/ SomeIn(m_writes[i]))'
    BY <1>5, <2>2 DEF NoneIn, SomeIn
  <2>5. Len(m_writes') = Len(m_regions')  BY <1>5 DEF SortIInv, WritesOK
  <2>6. \A q \in m_sortedRegions' : DOMAIN m_writes'[q.region + 1].memory = Blocks(q)
    BY <2>3
  <2> QED  BY <1>5, <2>4, <2>5, <2>6 DEF WritesOK
<1>7. DirtyOK'
  <2>1. ASSUME NEW d \in m_dirty' PROVE \E q \in m_sortedRegions : q.region = d
    BY DEF SortIInv, DirtyOK
  <2>2. ASSUME NEW i \in 1 .. Len(m_writes), SomeIn(m_writes'[i]) PROVE i - 1 \in m_dirty'
    <3>1. CASE i = r.region + 1
      <4>1. i - 1 = r.region  BY <1>3, <3>1
      <4> QED  BY <1>4, <2>2, <3>1, <4>1
    <3>2. CASE i # r.region + 1
      <4>1. SomeIn(m_writes[i])  BY <1>4, <2>2, <3>2
      <4>2. i - 1 \in m_dirty  BY <1>2, <4>1 DEF SortIInv, DirtyOK
      <4>3. (i - 1) + 1 = i /\ i - 1 # r.region  BY <1>3, <3>2
      <4>4. HasWrites(i - 1)  BY <4>1, <4>3 DEF HasWrites, SomeIn
      <4> QED  BY <4>2, <4>3, <4>4
    <3> QED  BY <3>1, <3>2
  <2>3. \A i \in DOMAIN m_writes' : SomeIn(m_writes[i])' => i - 1 \in m_dirty'
    BY <1>5, <2>2 DEF SomeIn
  <2> QED  BY <2>1, <2>3 DEF DirtyOK
<1> QED  BY <1>1, <1>6, <1>7 DEF SortIInv

\* The bytes of a run of blocks.
LEMMA RunBytes ==
  ASSUME NEW r \in Regions, NEW first \in Int, NEW n \in Int, NEW b
  PROVE  b \in BlockBytes(r.base + first * Grain, n) <=>
           b \in Int /\ \E i \in first .. first + n - 1 : b \in Block(r, i)
<1>1. Grain \in Nat \ {0} /\ r.base \in Int  BY SortAssumption DEF Regions
<1>2. /\ first * Grain \in Int /\ n * Grain \in Int
      /\ (first + n) * Grain = first * Grain + n * Grain
  BY <1>1, ProductsGrow
<1>3. ASSUME b \in BlockBytes(r.base + first * Grain, n)
      PROVE  b \in Int /\ \E i \in first .. first + n - 1 : b \in Block(r, i)
  <2>1. b \in (r.base + first * Grain) .. (r.base + first * Grain + n * Grain - 1)
    BY <1>3 DEF BlockBytes
  <2>2. PICK x : x = b - r.base  OBVIOUS
  <2>3. b \in Int /\ x \in Int /\ first * Grain <= x /\ x < (first + n) * Grain
    BY <1>1, <1>2, <2>1, <2>2
  <2>4. PICK i : i = x \div Grain  OBVIOUS
  <2>5. i \in Int  BY <1>1, <2>3, <2>4, Division
  <2>6. first <= i  BY ONLY <1>1, <2>3, <2>4, WholeBlocks, first \in Int
  <2>7. i * Grain <= x
    <3>1. x \in (i * Grain) .. (i * Grain + Grain - 1)
      BY ONLY <1>1, <2>3, <2>4, <2>5, WholeBlocks
    <3>2. i * Grain \in Int  BY <1>1, <2>5, ProductsGrow
    <3> QED  BY <3>1, <3>2, <2>3
  <2>8. i < first + n
    <3>1. SUFFICES ASSUME first + n <= i PROVE FALSE  BY <2>5
    <3>2. (first + n) * Grain <= i * Grain  BY <1>1, <2>5, <3>1, ProductsGrow
    <3>3. i * Grain \in Int  BY <1>1, <2>5, ProductsGrow
    <3> QED  BY <1>2, <2>3, <2>7, <3>2, <3>3
  <2>9. b \in Block(r, i)  BY <2>2, <2>3, <2>4, <2>5, BlockAt
  <2> QED  BY <2>3, <2>5, <2>6, <2>8, <2>9
<1>4. ASSUME b \in Int, NEW i \in first .. first + n - 1, b \in Block(r, i)
      PROVE  b \in BlockBytes(r.base + first * Grain, n)
  <2>1. i \in Int /\ first <= i /\ i + 1 <= first + n  BY <1>4
  <2>2. /\ first * Grain <= i * Grain /\ i * Grain \in Int
        /\ (i + 1) * Grain <= (first + n) * Grain /\ (i + 1) * Grain = i * Grain + Grain
        /\ 1 * Grain = Grain
    BY <1>1, <2>1, ProductsGrow
  <2>3. b \in (r.base + i * Grain) .. (r.base + i * Grain + Grain - 1)
    BY <1>4, <2>2 DEF Block, BlockBytes
  <2>4. b \in (r.base + first * Grain) .. (r.base + first * Grain + n * Grain - 1)
    BY <1>1, <1>2, <2>2, <2>3
  <2> QED  BY <2>4 DEF BlockBytes
<1> QED  BY <1>3, <1>4

\* Where a write goes, and how many blocks it holds.
Start(s, offset) == m_slotToRegion[s].offset + offset
First(s, offset) == (Start(s, offset) + ToBlock(Start(s, offset))) \div Grain
Whole(s, offset, size) == (size - ToBlock(Start(s, offset))) \div Grain

LEMMA PushPlace ==
  ASSUME SortIInv, NEW s \in SlotsOf, InUse(s), NEW offset \in Nat, NEW size \in Nat,
         offset + size <= m_memslots[s].size, Whole(s, offset, size) >= 1
  PROVE  /\ First(s, offset) \in Nat /\ Whole(s, offset, size) \in Nat \ {0}
         /\ \E r \in m_sortedRegions :
              /\ m_slotToRegion[s].region = r.region
              /\ First(s, offset) + Whole(s, offset, size) - 1 \in Blocks(r)
              /\ m_memslots[s].base + offset + ToBlock(Start(s, offset))
                   = r.base + First(s, offset) * Grain
         /\ BlockBytes(m_memslots[s].base + offset + ToBlock(Start(s, offset)),
                       Whole(s, offset, size)) \subseteq AreaOf(s)
<1>1. Grain \in Nat \ {0}  BY SortAssumption
<1>2. PICK r \in m_sortedRegions :
        /\ r \in Regions /\ r.base \in Nat /\ r.size \in Nat
        /\ m_slotToRegion[s].region = r.region
        /\ m_slotToRegion[s].offset = m_memslots[s].base - r.base
        /\ r.base <= m_memslots[s].base
        /\ End(m_memslots[s]) <= r.base + r.size
  BY SlotWithin
<1>3. PICK B, Z : B = m_memslots[s].base /\ Z = m_memslots[s].size  OBVIOUS
<1>4. B \in Nat /\ Z \in Nat /\ End(m_memslots[s]) = B + Z  BY <1>3, SlotWithin
<1>5. PICK x : x = Start(s, offset)  OBVIOUS
<1>6. x \in Nat /\ x = B - r.base + offset
  <2>1. x = (B - r.base) + offset  BY <1>2, <1>3, <1>5 DEF Start
  <2> QED  BY <2>1, <1>2, <1>3, <1>4
<1>7. PICK d : d = ToBlock(x)  OBVIOUS
<1>8. PICK f, n : f = First(s, offset) /\ n = Whole(s, offset, size)  OBVIOUS
<1>9. f = (x + d) \div Grain /\ n = (size - d) \div Grain /\ n >= 1
  BY <1>5, <1>7, <1>8 DEF First, Whole
<1>10. d \in Nat /\ x + d = f * Grain
  <2>1. d \in 0 .. (Grain - 1)  BY <1>6, <1>7, RoundedUp
  <2>2. x + d = f * Grain  BY <1>6, <1>7, <1>9, RoundedUp
  <2> QED  BY <2>1, <2>2, <1>1
<1>11. f \in Int /\ n \in Int
  <2>1. x + d \in Int /\ size - d \in Int  BY <1>6, <1>10
  <2>2. PICK y, z : y = x + d /\ z = size - d  OBVIOUS
  <2>3. y \div Grain \in Int /\ z \div Grain \in Int
    <3>1. y \in Int /\ z \in Int  BY <2>1, <2>2
    <3> QED  BY ONLY <1>1, <3>1, Division
  <2> QED  BY <1>9, <2>2, <2>3
<1>12. f \in Nat
  <2>1. f * Grain \in Nat  BY <1>6, <1>10
  <2>2. SUFFICES ASSUME f + 1 <= 0 PROVE FALSE  BY <1>11
  <2>3. (f + 1) * Grain <= 0 * Grain /\ (f + 1) * Grain = f * Grain + Grain /\ 0 * Grain = 0
    BY <1>1, <1>11, <2>2, ProductsGrow
  <2> QED  BY <1>1, <2>1, <2>3
<1>13. n * Grain \in Int /\ n * Grain <= size - d
  <2>1. PICK z : z = size - d  OBVIOUS
  <2>2. z \in Int  BY <1>10, <2>1
  <2>3. n = z \div Grain  BY <1>9, <2>1
  <2>4. z \in (n * Grain) .. (n * Grain + Grain - 1)
    BY ONLY <1>1, <1>11, <2>2, <2>3, WholeBlocks
  <2>5. n * Grain \in Int  BY <1>1, <1>11, ProductsGrow
  <2> QED  BY <2>1, <2>2, <2>4, <2>5
<1>14. f + n - 1 \in Blocks(r)
  <2>1. (f + n) * Grain = f * Grain + n * Grain  BY <1>1, <1>11, ProductsGrow
  <2>2. f * Grain \in Int  BY <1>1, <1>11, ProductsGrow
  <2>3. (f + n) * Grain <= x + size  BY <1>6, <1>10, <1>13, <2>1, <2>2
  <2>4. x + size <= r.size  BY <1>2, <1>3, <1>4, <1>6
  <2>5. PICK z : z = r.size  OBVIOUS
  <2>6. z \in Int /\ f + n \in Int  BY <1>2, <1>11, <2>5
  <2>7. (f + n) * Grain <= z
    <3>1. (f + n) * Grain \in Int  BY <1>1, <2>6, ProductsGrow
    <3> QED  BY <1>6, <2>3, <2>4, <2>5, <2>6, <3>1
  <2>8. f + n <= z \div Grain  BY ONLY <1>1, <2>6, <2>7, WholeBlocks
  <2>9. z \div Grain \in Int  BY ONLY <1>1, <2>6, Division
  <2>10. f + n - 1 \in 0 .. (z \div Grain) - 1  BY <1>9, <1>11, <1>12, <2>8, <2>9
  <2> QED  BY <2>5, <2>10 DEF Blocks
<1>15. B + offset + d = r.base + f * Grain
  <2>1. f * Grain = B - r.base + offset + d  BY <1>6, <1>10
  <2> QED  BY <1>2, <1>4, <1>10, <2>1
<1>16. BlockBytes(B + offset + d, n) \subseteq AreaOf(s)
  <2>1. BlockBytes(B + offset + d, n) = (B + offset + d) .. (B + offset + d + n * Grain - 1)
    BY DEF BlockBytes
  <2>2. AreaOf(s) = B .. (B + Z - 1)
    <3>1. AreaOf(s) = B .. (End(m_memslots[s]) - 1)  BY <1>3 DEF AreaOf
    <3> QED  BY ONLY <3>1, <1>4
  <2>3. B + offset + d + n * Grain <= B + Z  BY <1>3, <1>4, <1>10, <1>13
  <2>4. ASSUME NEW b \in (B + offset + d) .. (B + offset + d + n * Grain - 1)
        PROVE  b \in B .. (B + Z - 1)
    BY <1>4, <1>10, <1>13, <2>3
  <2> QED  BY <2>1, <2>2, <2>4
<1>17. d = ToBlock(Start(s, offset))  BY <1>5, <1>7
<1> QED  BY <1>2, <1>3, <1>8, <1>9, <1>11, <1>12, <1>14, <1>15, <1>16, <1>17

LEMMA OfTwo ==
  ASSUME NEW a \in Int, NEW b \in Int
  PROVE  /\ Min({a, b}) = IF a <= b THEN a ELSE b
         /\ Max({a, b}) = IF a <= b THEN b ELSE a
<1>1. IsFiniteSet({a, b})
  <2>1. IsFiniteSet({a})  BY FS_Singleton
  <2>2. IsFiniteSet({a} \cup {b})  BY <2>1, FS_AddElement
  <2>3. {a, b} = {a} \cup {b}  OBVIOUS
  <2> QED  BY <2>2, <2>3
<1>2. Min({a, b}) \in {a, b} /\ \A x \in {a, b} : Min({a, b}) <= x  BY <1>1, MinIs
<1>3. Max({a, b}) \in {a, b} /\ \A x \in {a, b} : x <= Max({a, b})  BY <1>1, MaxIs
<1> QED  BY <1>2, <1>3

LEMMA BlocksAre ==
  ASSUME NEW r \in Regions
  PROVE  \E n \in Int : Blocks(r) = 0 .. (n - 1)
<1>1. PICK z : z = r.size  OBVIOUS
<1>2. z \in Int /\ Grain \in Nat \ {0}  BY <1>1, SortAssumption DEF Regions
<1>3. z \div Grain \in Int  BY ONLY <1>2, Division
<1> QED  BY <1>1, <1>3 DEF Blocks

LEMMA HigherIs ==
  ASSUME NEW old \in Nat, NEW id \in Nat
  PROVE  /\ Higher(old, id) \in Nat /\ Higher(old, id) # 0 /\ Higher(old, id) >= old
         /\ Higher(old, id) - 1 = IF id > old - 1 THEN id ELSE old - 1
  BY DEF Higher

\* The writes of a region after a write to the blocks from f to l.
Raised(w, id, f, l) ==
  [min    |-> Min({w.min, f}),
   max    |-> Max({w.max, l}),
   memory |-> [i \in DOMAIN w.memory |->
                 IF i \in f .. l THEN Higher(w.memory[i], id) ELSE w.memory[i]]]

LEMMA RaisedOK ==
  ASSUME NEW w \in Pushed, NoneIn(w) \/ SomeIn(w), NEW d \in Int,
         DOMAIN w.memory = 0 .. (d - 1), d <= Memory, \A i \in 0 .. (d - 1) : w.memory[i] \in Nat,
         NEW id \in Nat, NEW f \in Nat, NEW l \in Nat, f <= l, l < d
  PROVE  /\ Raised(w, id, f, l) \in Pushed /\ SomeIn(Raised(w, id, f, l))
         /\ DOMAIN Raised(w, id, f, l).memory = 0 .. (d - 1)
<1>0. PICK v : v = Raised(w, id, f, l)  OBVIOUS
<1>1. /\ w.min \in Nat /\ w.max \in Nat
      /\ v.min = Min({w.min, f}) /\ v.max = Max({w.max, l})
      /\ DOMAIN v.memory = 0 .. (d - 1)
      /\ \A i \in 0 .. (d - 1) :
           v.memory[i] = IF i \in f .. l THEN Higher(w.memory[i], id) ELSE w.memory[i]
  BY <1>0 DEF Pushed, Raised
<1>2. /\ v.min = (IF w.min <= f THEN w.min ELSE f) /\ v.max = (IF w.max <= l THEN l ELSE w.max)
  <2>1. PICK a, b : a = w.min /\ b = w.max  OBVIOUS
  <2>2. a \in Int /\ b \in Int /\ f \in Int /\ l \in Int  BY ONLY <1>1, <2>1, f \in Nat, l \in Nat
  <2>3. v.min = Min({a, f}) /\ v.max = Max({b, l})  BY ONLY <1>1, <2>1
  <2>4. Min({a, f}) = (IF a <= f THEN a ELSE f) /\ Max({b, l}) = (IF b <= l THEN l ELSE b)
    BY ONLY <2>2, OfTwo
  <2> QED  BY ONLY <2>1, <2>3, <2>4
<1>3. \A i \in 0 .. (d - 1) :
        /\ v.memory[i] \in Nat /\ (w.memory[i] # 0 => v.memory[i] # 0)
        /\ i \in f .. l => v.memory[i] # 0
        /\ i \notin f .. l => v.memory[i] = w.memory[i]
  <2>1. ASSUME NEW i \in 0 .. (d - 1)
        PROVE  /\ v.memory[i] \in Nat /\ (w.memory[i] # 0 => v.memory[i] # 0)
               /\ i \in f .. l => v.memory[i] # 0
               /\ i \notin f .. l => v.memory[i] = w.memory[i]
    <3>1. PICK o \in Nat : o = w.memory[i]  OBVIOUS
    <3>2. Higher(o, id) \in Nat /\ Higher(o, id) # 0  BY ONLY <3>1, o \in Nat, id \in Nat, HigherIs
    <3>3. v.memory[i] = IF i \in f .. l THEN Higher(o, id) ELSE o  BY <1>1, <3>1
    <3> QED  BY ONLY <3>1, <3>2, <3>3, o \in Nat
  <2> QED  BY ONLY <2>1
<1>4. v \in Pushed
  <2>1. v.memory = [i \in 0 .. (d - 1) |-> v.memory[i]]  BY <1>0 DEF Raised
  <2>2. v.memory \in [0 .. (d - 1) -> Nat]  BY <1>3, <2>1
  <2>3. d \in Nat  OBVIOUS
  <2>4. v.memory \in Memories  BY <2>2, <2>3 DEF Memories
  <2>5. v = [min |-> v.min, max |-> v.max, memory |-> v.memory]  BY <1>0 DEF Raised
  <2>6. v.min \in Nat /\ v.max \in Nat  BY <1>1, <1>2
  <2> QED  BY <2>4, <2>5, <2>6 DEF Pushed
<1>5. SomeIn(v)
  <2>1. CASE NoneIn(w)
    <3>1. w.min = Memory + 1 /\ w.max = 0 /\ \A i \in 0 .. (d - 1) : w.memory[i] = 0
      BY <2>1 DEF NoneIn, NoMin
    <3>2. v.min = f /\ v.max = l
      <4>1. Memory \in Nat /\ ~ (w.min <= f)  BY <3>1, SortAssumption
      <4>2. v.min = f  BY <1>2, <4>1
      <4>3. v.max = l  BY <1>2, <3>1
      <4> QED  BY <4>2, <4>3
    <3>3. v.min <= v.max /\ v.min \in 0 .. (d - 1) /\ v.max \in 0 .. (d - 1) /\ v.min \in f .. l
      BY <3>2
    <3>4. \A i \in 0 .. (d - 1) : v.memory[i] # 0 => i \in v.min .. v.max
      BY <1>3, <3>1, <3>2
    <3> QED  BY <1>1, <1>3, <3>3, <3>4 DEF SomeIn
  <2>2. CASE SomeIn(w)
    <3>1. /\ w.min <= w.max /\ w.min \in 0 .. (d - 1) /\ w.max \in 0 .. (d - 1)
          /\ w.memory[w.min] # 0
          /\ \A i \in 0 .. (d - 1) : w.memory[i] # 0 => i \in w.min .. w.max
      BY <2>2 DEF SomeIn
    <3>2. v.min <= v.max /\ v.min \in 0 .. (d - 1) /\ v.max \in 0 .. (d - 1)
      BY <1>2, <3>1
    <3>3. v.memory[v.min] # 0
      <4>1. v.min = w.min \/ v.min = f  BY <1>2
      <4>2. f \in 0 .. (d - 1) /\ f \in f .. l  OBVIOUS
      <4> QED  BY <1>3, <3>1, <4>1, <4>2
    <3>4. ASSUME NEW i \in 0 .. (d - 1), v.memory[i] # 0 PROVE i \in v.min .. v.max
      <4>1. i \in f .. l \/ i \in w.min .. w.max  BY <1>3, <3>1, <3>4
      <4> QED  BY <1>1, <1>2, <4>1
    <3> QED  BY <1>1, <3>2, <3>3, <3>4 DEF SomeIn
  <2> QED  BY <2>1, <2>2
<1> QED  BY <1>0, <1>1, <1>4, <1>5

\* What a step that changes the memory of one live region means for what is
\* pending.
LEMMA MarksAfter ==
  ASSUME SortIInv, NEW r \in m_sortedRegions, NEW w, DOMAIN w.memory = Blocks(r),
         m_writes' = [m_writes EXCEPT ![r.region + 1] = w]
  PROVE  /\ \A i \in Blocks(r) : Mark(r, i)' = w.memory[i]
         /\ \A q \in m_sortedRegions : q # r => \A j \in Blocks(q) : Mark(q, j)' = Mark(q, j)
<1>1. r.region \in Nat /\ r.region + 1 \in DOMAIN m_writes  BY MarkType DEF SortIInv
<1>2. m_writes'[r.region + 1] = w  BY <1>1
<1>3. ASSUME NEW q \in m_sortedRegions, q # r
      PROVE  m_writes'[q.region + 1] = m_writes[q.region + 1]
  <2>1. q.region \in Nat /\ q.region + 1 \in DOMAIN m_writes  BY MarkType DEF SortIInv
  <2>2. q.region # r.region  BY <1>3 DEF SortIInv, RegionsOK
  <2>3. q.region + 1 # r.region + 1  BY <1>1, <2>1, <2>2
  <2> QED  BY <2>1, <2>3
<1> QED  BY <1>2, <1>3 DEF Mark

LEMMA PushStep ==
  ASSUME SortIInv, NEW id \in MsgIds, NEW s \in SlotsOf, InUse(s), NEW offset \in Nat, NEW size \in Nat,
         offset + size <= m_memslots[s].size, pushWrite(id, s, offset, size)
  PROVE  SortIInv' /\ (PendingRight /\ PendingRight' /\ Registered \subseteq 0 .. (Memory - 1) => Win!Push)
<1>1. PICK f, n : f = First(s, offset) /\ n = Whole(s, offset, size)  OBVIOUS
<1>2. n >= 1  BY <1>1 DEF pushWrite, Whole, Start
<1>3. f \in Nat /\ n \in Nat \ {0}  BY <1>1, <1>2, PushPlace
<1>4. PICK bytes : bytes = BlockBytes(m_memslots[s].base + offset + ToBlock(Start(s, offset)), n)
  OBVIOUS
<1>5. PICK r \in m_sortedRegions :
        /\ m_slotToRegion[s].region = r.region
        /\ f + n - 1 \in Blocks(r)
        /\ m_memslots[s].base + offset + ToBlock(Start(s, offset)) = r.base + f * Grain
  BY <1>1, <1>2, PushPlace
<1>6. bytes \subseteq AreaOf(s)  BY <1>1, <1>2, <1>4, PushPlace
<1>7. PICK l : l = f + n - 1  OBVIOUS
<1>8. l \in Nat /\ f <= l  BY <1>3, <1>7
<1>9. PICK w : w = m_writes[r.region + 1]  OBVIOUS
<1>10. PICK v : v = Raised(w, id, f, l)  OBVIOUS
<1>11. /\ m_writes' = [m_writes EXCEPT ![r.region + 1] = v]
       /\ m_dirty' = m_dirty \cup {r.region}
       /\ event' = [op |-> "push", id |-> id, bytes |-> bytes]
       /\ UNCHANGED <<m_memslots, m_sortedRegions, m_regions, m_slotToRegion>>
  BY <1>1, <1>4, <1>5, <1>7, <1>9, <1>10 DEF pushWrite, First, Whole, Start, Raised
<1>12. r \in Regions /\ End(r) <= Memory  BY DEF SortIInv, RegionsOK
<1>13. PICK d \in Int : Blocks(r) = 0 .. (d - 1)  BY <1>12, BlocksAre
<1>14. /\ w \in Pushed /\ DOMAIN w.memory = Blocks(r) /\ r.region + 1 \in DOMAIN m_writes
       /\ \A i \in Blocks(r) : w.memory[i] \in Nat /\ w.memory[i] = Mark(r, i)
  BY <1>9, MarkType DEF SortIInv, Mark
<1>15. NoneIn(w) \/ SomeIn(w)  BY <1>9, <1>14 DEF SortIInv, WritesOK
<1>16. f .. l \subseteq Blocks(r) /\ l < d  BY <1>3, <1>5, <1>7, <1>8, <1>13
<1>17. d <= Memory
  <2>1. d - 1 \in Blocks(r)  BY <1>8, <1>13, <1>16
  <2>2. PICK b : b = r.base + (d - 1) * Grain  OBVIOUS
  <2>3. b \in Block(r, d - 1)
    <3>1. Grain \in Nat \ {0} /\ r.base \in Int  BY <1>12, SortAssumption DEF Regions
    <3>2. (d - 1) * Grain \in Int /\ 1 * Grain = Grain  BY <3>1, ProductsGrow
    <3> QED  BY <2>2, <3>1, <3>2 DEF Block, BlockBytes
  <2>4. d - 1 <= r.size  BY <1>12, <2>1, <2>3, BlockWithin
  <2>5. b \in 0 .. (Memory - 1) /\ (d - 1) \in 0 .. Memory
    BY <2>1, <2>3, AddressesFit DEF SortIInv
  <2>6. d - 1 <= b
    <3>1. Grain \in Nat \ {0} /\ r.base \in Nat  BY <1>12, SortAssumption DEF Regions
    <3>2. PICK e : e = d - 1  OBVIOUS
    <3>3. e \in Nat  BY <2>5, <3>2
    <3>4. e <= e * Grain /\ e * Grain \in Int  BY ONLY <3>1, <3>3
    <3>5. b = r.base + e * Grain  BY <2>2, <3>2
    <3> QED  BY ONLY <3>1, <3>2, <3>3, <3>4, <3>5
  <2>7. Memory \in Nat  BY SortAssumption
  <2> QED  BY ONLY <2>5, <2>6, <2>7, d \in Int
<1>18. id \in Nat  BY SortAssumption
<1>19. v \in Pushed /\ SomeIn(v) /\ DOMAIN v.memory = Blocks(r)
  BY <1>3, <1>8, <1>10, <1>13, <1>14, <1>15, <1>16, <1>17, <1>18, RaisedOK, SMTT(20)
<1>20. SortIInv'
  BY <1>11, <1>19, ReplaceStep
<1>21. ASSUME PendingRight, PendingRight', Registered \subseteq 0 .. (Memory - 1)
       PROVE  Win!Push
  <2>1. bytes \subseteq Registered  BY <1>6 DEF Registered
  <2>2. \A b : b \in bytes <=> b \in Int /\ \E i \in f .. l : b \in Block(r, i)
    <3>1. bytes = BlockBytes(r.base + f * Grain, n)  BY <1>4, <1>5
    <3>2. f \in Int /\ n \in Int  BY <1>3
    <3>3. \A b : b \in BlockBytes(r.base + f * Grain, n) <=>
                   b \in Int /\ \E i \in f .. f + n - 1 : b \in Block(r, i)
      BY ONLY <1>12, <3>2, RunBytes
    <3> QED  BY ONLY <1>7, <3>1, <3>3
  <2>3. /\ \A i \in Blocks(r) :
             Mark(r, i)' = IF i \in f .. l THEN Higher(Mark(r, i), id) ELSE Mark(r, i)
        /\ \A q \in m_sortedRegions : q # r => \A j \in Blocks(q) : Mark(q, j)' = Mark(q, j)
    <3>1. \A i \in Blocks(r) :
            v.memory[i] = IF i \in f .. l THEN Higher(w.memory[i], id) ELSE w.memory[i]
      BY <1>10, <1>14 DEF Raised
    <3>2. /\ \A i \in Blocks(r) : Mark(r, i)' = v.memory[i]
          /\ \A q \in m_sortedRegions : q # r => \A j \in Blocks(q) : Mark(q, j)' = Mark(q, j)
      BY <1>11, <1>19, MarksAfter
    <3> QED  BY ONLY <1>14, <3>1, <3>2
  <2>4. ASSUME NEW b \in 0 .. (Memory - 1)
        PROVE  PendingAt(b)' = IF b \in bytes /\ id > PendingAt(b) THEN id ELSE PendingAt(b)
    <3>1. CASE \E q \in m_sortedRegions : \E j \in Blocks(q) : b \in Block(q, j)
      <4>0. PICK q \in m_sortedRegions : \E j \in Blocks(q) : b \in Block(q, j)  BY <3>1
      <4>1. PICK j \in Blocks(q) : b \in Block(q, j)  BY <4>0
      <4>2. PendingAt(b) = Mark(q, j) - 1 /\ PendingAt(b)' = Mark(q, j)' - 1
        <5>1. PendingAt(b) = Mark(q, j) - 1  BY <1>21, <4>1 DEF PendingRight
        <5>2. q \in m_sortedRegions'  BY <1>11
        <5>3. PendingAt(b)' = Mark(q, j)' - 1  BY <1>21, <4>1, <5>2 DEF PendingRight
        <5> QED  BY <5>1, <5>3
      <4>3. b \in bytes <=> q = r /\ j \in f .. l
        <5>1. ASSUME b \in bytes PROVE q = r /\ j \in f .. l
          <6>1. PICK i \in f .. l : b \in Block(r, i)  BY <2>2, <5>1
          <6>2. i \in Blocks(r)  BY <1>16
          <6> QED  BY <4>1, <6>1, <6>2, OneBlock DEF SortIInv
        <5> QED  BY <2>2, <4>1, <5>1
      <4>4. CASE b \in bytes
        <5>1. Mark(q, j)' = Higher(Mark(q, j), id) /\ Mark(q, j) \in Nat
          BY <1>14, <2>3, <4>1, <4>3, <4>4
        <5> QED  BY <1>18, <4>2, <4>4, <5>1, HigherIs
      <4>5. CASE b \notin bytes
        <5>1. Mark(q, j)' = Mark(q, j)  BY <2>3, <4>1, <4>3, <4>5
        <5> QED  BY <4>2, <4>5, <5>1
      <4> QED  BY <4>4, <4>5
    <3>2. CASE \A q \in m_sortedRegions : \A j \in Blocks(q) : b \notin Block(q, j)
      <4>1. PendingAt(b) = -1 /\ PendingAt(b)' = -1  BY <1>11, <1>21, <3>2 DEF PendingRight
      <4>2. b \notin bytes  BY <1>16, <2>2, <3>2
      <4> QED  BY <4>1, <4>2
    <3> QED  BY <3>1, <3>2
  <2>5. [b \in 0 .. Memory - 1 |-> PendingAt(b)']
          = [b \in 0 .. Memory - 1 |->
               IF b \in event'.bytes /\ event'.id > [a \in 0 .. Memory - 1 |-> PendingAt(a)][b]
               THEN event'.id ELSE [a \in 0 .. Memory - 1 |-> PendingAt(a)][b]]
    BY <1>11, <2>4
  <2>6. Registered' = Registered
    BY <1>11 DEF Registered, AreaOf, InUse, SlotsOf, End
  <2> QED  BY <1>11, <2>1, <2>5, <2>6 DEF Win!Push
<1> QED  BY <1>20, <1>21

\* Popping takes the run of blocks of the same priority that begins at m_min.
LEMMA PoppedOK ==
  ASSUME NEW w \in Pushed, SomeIn(w), NEW d \in Int, DOMAIN w.memory = 0 .. (d - 1),
         \A i \in 0 .. (d - 1) : w.memory[i] \in Nat
  PROVE  /\ RunEnd(w) \in (w.min + 1) .. (w.max + 1)
         /\ \A i \in w.min .. (RunEnd(w) - 1) : w.memory[i] = w.memory[w.min]
         /\ Popped(w) \in Pushed /\ (NoneIn(Popped(w)) \/ SomeIn(Popped(w)))
         /\ DOMAIN Popped(w).memory = 0 .. (d - 1)
         /\ \A i \in 0 .. (d - 1) :
              Popped(w).memory[i] = IF i \in w.min .. (RunEnd(w) - 1) THEN 0 ELSE w.memory[i]
<1>1. PICK a, z, m : a = w.min /\ z = w.max /\ m = w.memory  OBVIOUS
<1>2. /\ a \in 0 .. (d - 1) /\ z \in 0 .. (d - 1) /\ a <= z /\ m[a] # 0
      /\ \A i \in 0 .. (d - 1) : m[i] # 0 => i \in a .. z
      /\ \A i \in 0 .. (d - 1) : m[i] \in Nat
  BY <1>1 DEF SomeIn
<1>3. PICK e : e = RunEnd(w)  OBVIOUS
<1>4. e \in (a + 1) .. (z + 1) /\ \A i \in a .. (e - 1) : m[i] = m[a]
  <2> DEFINE S == {i \in (a + 1) .. (z + 1) : i = z + 1 \/ m[i] # m[a]}
  <2>1. S \subseteq (a + 1) .. (z + 1) /\ z + 1 \in S  BY <1>2
  <2>2. IsFiniteSet((a + 1) .. (z + 1))
    <3>1. a + 1 \in Int /\ z + 1 \in Int  BY <1>2
    <3> QED  BY <3>1, FS_Interval
  <2>3. IsFiniteSet(S) /\ S \subseteq Int /\ S # {}
    <3> HIDE DEF S
    <3>1. S # {}  BY <2>1
    <3>2. IsFiniteSet(S)  BY ONLY <2>1, <2>2, FS_Subset
    <3>3. S \subseteq Int
      <4>1. a \in Int /\ z \in Int  BY <1>2
      <4> QED  BY ONLY <2>1, <4>1
    <3> QED  BY <3>1, <3>2, <3>3
  <2>4. e = Min(S)
    <3>1. S = {i \in w.min + 1 .. w.max + 1 : i = w.max + 1 \/ w.memory[i] # w.memory[w.min]}
      BY <1>1
    <3> QED  BY <1>3, <3>1 DEF RunEnd
  <2>5. e \in S /\ \A i \in S : e <= i
    <3> HIDE DEF S
    <3> QED  BY <2>3, <2>4, MinIs
  <2>6. ASSUME NEW i \in a .. (e - 1), m[i] # m[a] PROVE FALSE
    <3>1. i \in (a + 1) .. (z + 1) /\ i < e
      <4>1. i # a  BY <2>6
      <4>2. e \in (a + 1) .. (z + 1)  BY <2>1, <2>5
      <4> QED  BY <1>2, <4>1, <4>2
    <3>2. i \in S  BY <2>6, <3>1
    <3>3. e <= i  BY <2>5, <3>2
    <3> QED  BY <1>2, <2>1, <2>5, <3>1, <3>3
  <2> QED  BY <2>1, <2>5, <2>6
<1>5. PICK x : x = NextWrite(w, e)  OBVIOUS
<1>6. /\ x \in e .. (z + 1) /\ (x <= z => m[x] # 0)
      /\ \A i \in e .. (x - 1) : m[i] = 0
  <2> DEFINE S == {i \in e .. (z + 1) : i = z + 1 \/ m[i] # 0}
  <2>1. S \subseteq e .. (z + 1) /\ z + 1 \in S  BY <1>2, <1>4
  <2>2. IsFiniteSet(e .. (z + 1))
    <3>1. e \in Int /\ z + 1 \in Int  BY <1>2, <1>4
    <3> QED  BY <3>1, FS_Interval
  <2>3. IsFiniteSet(S) /\ S \subseteq Int /\ S # {}
    <3> HIDE DEF S
    <3>1. S # {}  BY <2>1
    <3>2. IsFiniteSet(S)  BY ONLY <2>1, <2>2, FS_Subset
    <3>3. S \subseteq Int
      <4>1. a \in Int /\ z \in Int /\ e \in Int  BY <1>2, <1>4
      <4> QED  BY ONLY <2>1, <4>1
    <3> QED  BY <3>1, <3>2, <3>3
  <2>4. x = Min(S)
    <3>1. S = {i \in e .. w.max + 1 : i = w.max + 1 \/ w.memory[i] # 0}  BY <1>1
    <3> QED  BY <1>5, <3>1 DEF NextWrite
  <2>5. x \in S /\ \A i \in S : x <= i
    <3> HIDE DEF S
    <3> QED  BY <2>3, <2>4, MinIs
  <2>6. ASSUME NEW i \in e .. (x - 1), m[i] # 0 PROVE FALSE
    <3>1. i \in e .. (z + 1) /\ i < x  BY <1>2, <1>4, <2>1, <2>5
    <3>2. i \in S  BY <2>6, <3>1
    <3>3. x <= i  BY <2>5, <3>2
    <3> QED  BY <1>2, <1>4, <3>1, <3>3, <2>1, <2>5
  <2>7. x <= z => m[x] # 0  BY <1>2, <2>5
  <2> QED  BY <2>1, <2>5, <2>6, <2>7
<1>7. PICK v : v = Popped(w)  OBVIOUS
<1>8. /\ v = [min    |-> IF x > z THEN NoMin ELSE x,
              max    |-> IF x > z THEN 0 ELSE z,
              memory |-> [i \in 0 .. (d - 1) |-> IF i \in a .. (e - 1) THEN 0 ELSE m[i]]]
  BY <1>1, <1>3, <1>5, <1>7 DEF Popped
<1>9. /\ v.min = (IF x > z THEN NoMin ELSE x) /\ v.max = (IF x > z THEN 0 ELSE z)
      /\ DOMAIN v.memory = 0 .. (d - 1)
      /\ \A i \in 0 .. (d - 1) : v.memory[i] = IF i \in a .. (e - 1) THEN 0 ELSE m[i]
  BY <1>8
<1>10. v \in Pushed
  <2>1. v.memory \in [0 .. (d - 1) -> Nat]  BY <1>2, <1>8
  <2>2. d \in Nat  BY <1>2
  <2>3. v.memory \in Memories  BY <2>1, <2>2 DEF Memories
  <2>4. NoMin \in Nat  BY SortAssumption DEF NoMin
  <2>5. v.min \in Nat /\ v.max \in Nat  BY <1>2, <1>4, <1>6, <1>9, <2>4
  <2>6. v = [min |-> v.min, max |-> v.max, memory |-> v.memory]  BY <1>8
  <2> QED  BY ONLY <2>3, <2>5, <2>6 DEF Pushed
<1>11. \A i \in 0 .. (d - 1) : v.memory[i] # 0 => i \in x .. z
  <2>1. SUFFICES ASSUME NEW i \in 0 .. (d - 1), v.memory[i] # 0 PROVE i \in x .. z
    OBVIOUS
  <2>2. i \notin a .. (e - 1) /\ m[i] # 0  BY <1>9, <2>1
  <2>3. i \in a .. z  BY <1>2, <2>2
  <2>4. e <= i  BY <1>2, <1>4, <2>2, <2>3
  <2>5. i \notin e .. (x - 1)  BY <1>6, <2>2
  <2> QED  BY <1>2, <1>4, <1>6, <2>3, <2>4, <2>5
<1>12. CASE x > z
  <2>1. \A i \in 0 .. (d - 1) : v.memory[i] = 0
    <3>1. x .. z = {}  BY <1>2, <1>4, <1>6, <1>12
    <3> QED  BY <1>11, <3>1
  <2>2. NoneIn(v)  BY <1>9, <1>12, <2>1 DEF NoneIn
  <2> QED  BY ONLY <1>1, <1>3, <1>4, <1>7, <1>9, <1>10, <2>2
<1>13. CASE ~ (x > z)
  <2>1. v.min = x /\ v.max = z /\ x <= z /\ x \in 0 .. (d - 1)
    BY <1>2, <1>4, <1>6, <1>9, <1>13
  <2>2. v.memory[x] # 0
    <3>1. x \notin a .. (e - 1)  BY <1>2, <1>4, <1>6
    <3> QED  BY <1>6, <1>9, <2>1, <3>1
  <2>3. SomeIn(v)  BY <1>2, <1>9, <1>11, <2>1, <2>2 DEF SomeIn
  <2> QED  BY ONLY <1>1, <1>3, <1>4, <1>7, <1>9, <1>10, <2>3
<1> QED  BY <1>12, <1>13

LEMMA PopStep ==
  ASSUME SortIInv, popWrite
  PROVE  SortIInv' /\ (PendingRight /\ PendingRight' => Win!Pop)
<1>1. PICK passed \in SUBSET m_dirty, region \in m_dirty :
        /\ region \notin passed /\ HasWrites(region)
        /\ \A q \in passed : ~ HasWrites(q)
        /\ m_dirty' = m_dirty \ passed
        /\ m_writes' = [m_writes EXCEPT ![region + 1] = Popped(m_writes[region + 1])]
        /\ event' = [op |-> "pop",
                     id |-> m_writes[region + 1].memory[m_writes[region + 1].min] - 1,
                     bytes |-> BlockBytes(m_regions[region + 1].base
                                            + m_writes[region + 1].min * Grain,
                                 RunEnd(m_writes[region + 1]) - m_writes[region + 1].min)]
        /\ UNCHANGED <<m_memslots, m_sortedRegions, m_regions, m_slotToRegion>>
  BY DEF popWrite
<1>2. PICK r \in m_sortedRegions : r.region = region  BY DEF SortIInv, DirtyOK
<1>3. PICK w : w = m_writes[r.region + 1]  OBVIOUS
<1>4. r \in Regions /\ End(r) <= Memory /\ m_regions[region + 1] = r
  BY <1>2 DEF SortIInv, RegionsOK
<1>5. PICK d \in Int : Blocks(r) = 0 .. (d - 1)  BY <1>4, BlocksAre
<1>6. /\ w \in Pushed /\ DOMAIN w.memory = Blocks(r) /\ r.region + 1 \in DOMAIN m_writes
      /\ \A i \in Blocks(r) : w.memory[i] \in Nat /\ w.memory[i] = Mark(r, i)
  BY <1>3, MarkType DEF SortIInv, Mark
<1>7. SomeIn(w)
  <2>1. NoneIn(w) \/ SomeIn(w)  BY <1>3, <1>6 DEF SortIInv, WritesOK
  <2>2. w.min <= w.max  BY <1>1, <1>2, <1>3 DEF HasWrites
  <2>3. Memory \in Nat  BY SortAssumption
  <2> QED  BY <2>1, <2>2, <2>3 DEF NoneIn, NoMin
<1>8. PICK a, e, v : a = w.min /\ e = RunEnd(w) /\ v = Popped(w)  OBVIOUS
<1>9. /\ e \in (a + 1) .. (w.max + 1)
      /\ \A i \in a .. (e - 1) : w.memory[i] = w.memory[a]
      /\ v \in Pushed /\ (NoneIn(v) \/ SomeIn(v)) /\ DOMAIN v.memory = Blocks(r)
      /\ \A i \in Blocks(r) : v.memory[i] = IF i \in a .. (e - 1) THEN 0 ELSE w.memory[i]
  <2>1. DOMAIN w.memory = 0 .. (d - 1) /\ \A i \in 0 .. (d - 1) : w.memory[i] \in Nat
    BY <1>5, <1>6
  <2>2. w \in Pushed  BY <1>6
  <2>3. /\ RunEnd(w) \in (w.min + 1) .. (w.max + 1)
        /\ \A i \in w.min .. (RunEnd(w) - 1) : w.memory[i] = w.memory[w.min]
        /\ Popped(w) \in Pushed /\ (NoneIn(Popped(w)) \/ SomeIn(Popped(w)))
        /\ DOMAIN Popped(w).memory = 0 .. (d - 1)
        /\ \A i \in 0 .. (d - 1) :
             Popped(w).memory[i] = IF i \in w.min .. (RunEnd(w) - 1) THEN 0 ELSE w.memory[i]
    BY ONLY <1>7, <2>1, <2>2, d \in Int, PoppedOK
  <2> QED  BY ONLY <1>5, <1>8, <2>3
<1>10. a \in Blocks(r) /\ w.max \in Blocks(r) /\ w.memory[a] # 0
  BY <1>6, <1>7, <1>8 DEF SomeIn
<1>11. m_writes' = [m_writes EXCEPT ![r.region + 1] = v]  BY <1>1, <1>2, <1>3, <1>8
<1>12. SortIInv'
  <2>1. /\ \A c \in m_dirty' : c \in m_dirty \/ c = r.region
        /\ r.region \in m_dirty'
        /\ \A c \in m_dirty : HasWrites(c) /\ c # r.region => c \in m_dirty'
    BY <1>1, <1>2
  <2>2. UNCHANGED <<m_memslots, m_sortedRegions, m_regions, m_slotToRegion>>  BY <1>1
  <2> QED  BY ONLY SortIInv, r \in m_sortedRegions, <1>9, <1>11, <2>1, <2>2, ReplaceStep
<1>13. ASSUME PendingRight, PendingRight'
       PROVE  Win!Pop
  <2>1. PICK bytes, id : bytes = event'.bytes /\ id = event'.id  OBVIOUS
  <2>2. id = w.memory[a] - 1 /\ event'.op = "pop"  BY <1>1, <1>2, <1>3, <1>8, <2>1
  <2>3. bytes = BlockBytes(r.base + a * Grain, e - a)
    BY <1>1, <1>2, <1>3, <1>4, <1>8, <2>1
  <2>4. a \in Int /\ e \in Int /\ a < e /\ a + (e - a) - 1 = e - 1
    <3>1. a \in 0 .. (d - 1) /\ w.max \in 0 .. (d - 1)  BY <1>5, <1>10
    <3> QED  BY <1>9, <3>1
  <2>5. \A b : b \in bytes <=> b \in Int /\ \E i \in a .. (e - 1) : b \in Block(r, i)
    <3>1. e - a \in Int  BY <2>4
    <3>2. \A b : b \in BlockBytes(r.base + a * Grain, e - a) <=>
                   b \in Int /\ \E i \in a .. (a + (e - a) - 1) : b \in Block(r, i)
      BY ONLY <1>4, <2>4, <3>1, RunBytes
    <3> QED  BY ONLY <2>3, <2>4, <3>2
  <2>6. a .. (e - 1) \subseteq Blocks(r)
    <3>1. w.max \in 0 .. (d - 1) /\ a \in 0 .. (d - 1)  BY <1>5, <1>10
    <3> QED  BY <1>5, <1>9, <2>4, <3>1
  <2>7. /\ \A i \in Blocks(r) : Mark(r, i)' = IF i \in a .. (e - 1) THEN 0 ELSE Mark(r, i)
        /\ \A q \in m_sortedRegions : q # r => \A j \in Blocks(q) : Mark(q, j)' = Mark(q, j)
    <3>1. /\ \A i \in Blocks(r) : Mark(r, i)' = v.memory[i]
          /\ \A q \in m_sortedRegions : q # r => \A j \in Blocks(q) : Mark(q, j)' = Mark(q, j)
      BY <1>9, <1>11, MarksAfter
    <3> QED  BY ONLY <1>6, <1>9, <3>1
  <2>8. \A b \in bytes : b \in 0 .. (Memory - 1)
    BY <2>5, <2>6, AddressesFit DEF SortIInv
  <2>9. \A b \in bytes : PendingAt(b) = id
    <3>1. SUFFICES ASSUME NEW b \in bytes PROVE PendingAt(b) = id  OBVIOUS
    <3>2. PICK i \in a .. (e - 1) : b \in Block(r, i)  BY <2>5
    <3>3. i \in Blocks(r) /\ w.memory[i] = w.memory[a]  BY <1>9, <2>6
    <3>4. PendingAt(b) = Mark(r, i) - 1  BY <1>13, <2>8, <3>2, <3>3 DEF PendingRight
    <3> QED  BY <1>6, <2>2, <3>3, <3>4
  <2>10. bytes # {}
    <3>1. PICK b : b = r.base + a * Grain  OBVIOUS
    <3>2. Grain \in Nat \ {0} /\ r.base \in Int  BY <1>4, SortAssumption DEF Regions
    <3>3. a * Grain \in Int /\ 1 * Grain = Grain  BY <2>4, <3>2, ProductsGrow
    <3>4. b \in Block(r, a) /\ b \in Int  BY <3>1, <3>2, <3>3 DEF Block, BlockBytes
    <3>5. a \in a .. (e - 1)  BY <2>4
    <3> QED  BY <2>5, <3>4, <3>5
  <2>11. ASSUME NEW b \in 0 .. (Memory - 1)
         PROVE  PendingAt(b)' = IF b \in bytes THEN -1 ELSE PendingAt(b)
    <3>1. CASE \E q \in m_sortedRegions : \E j \in Blocks(q) : b \in Block(q, j)
      <4>0. PICK q \in m_sortedRegions : \E j \in Blocks(q) : b \in Block(q, j)  BY <3>1
      <4>1. PICK j \in Blocks(q) : b \in Block(q, j)  BY <4>0
      <4>2. PendingAt(b) = Mark(q, j) - 1 /\ PendingAt(b)' = Mark(q, j)' - 1
        <5>1. PendingAt(b) = Mark(q, j) - 1  BY <1>13, <4>1 DEF PendingRight
        <5>2. q \in m_sortedRegions'  BY <1>1
        <5>3. PendingAt(b)' = Mark(q, j)' - 1  BY <1>13, <4>1, <5>2 DEF PendingRight
        <5> QED  BY <5>1, <5>3
      <4>3. b \in bytes <=> q = r /\ j \in a .. (e - 1)
        <5>1. ASSUME b \in bytes PROVE q = r /\ j \in a .. (e - 1)
          <6>1. PICK i \in a .. (e - 1) : b \in Block(r, i)  BY <2>5, <5>1
          <6>2. i \in Blocks(r)  BY <2>6
          <6> QED  BY <4>1, <6>1, <6>2, OneBlock DEF SortIInv
        <5> QED  BY <2>5, <4>1, <5>1
      <4>4. CASE b \in bytes
        <5>1. Mark(q, j)' = 0  BY <2>7, <4>1, <4>3, <4>4
        <5> QED  BY <4>2, <4>4, <5>1
      <4>5. CASE b \notin bytes
        <5>1. Mark(q, j)' = Mark(q, j)  BY <2>7, <4>1, <4>3, <4>5
        <5> QED  BY <4>2, <4>5, <5>1
      <4> QED  BY <4>4, <4>5
    <3>2. CASE \A q \in m_sortedRegions : \A j \in Blocks(q) : b \notin Block(q, j)
      <4>1. PendingAt(b) = -1 /\ PendingAt(b)' = -1  BY <1>1, <1>13, <3>2 DEF PendingRight
      <4> QED  BY <4>1
    <3> QED  BY <3>1, <3>2
  <2>12. [b \in 0 .. Memory - 1 |-> PendingAt(b)]'
          = [b \in 0 .. Memory - 1 |->
               IF b \in event'.bytes THEN -1 ELSE [x \in 0 .. Memory - 1 |-> PendingAt(x)][b]]
    BY <2>1, <2>11
  <2>13. Registered' = Registered
    BY <1>1 DEF Registered, AreaOf, InUse, SlotsOf, End
  <2>14. \A b \in event'.bytes : [x \in 0 .. Memory - 1 |-> PendingAt(x)][b] = event'.id
    BY <2>1, <2>8, <2>9
  <2> QED  BY <2>1, <2>2, <2>10, <2>12, <2>13, <2>14 DEF Win!Pop, Win!None
<1> QED  BY <1>12, <1>13

\* An area that is registered and the regions it touches become one region.
LEMMA UnionIs ==
  ASSUME RegionsOK, NEW a \in Areas, NEW over, over = Overlapping(a), NEW new, new = Union(a, over)
  PROVE  /\ new \in Regions /\ End(new) <= Memory
         /\ new.base <= a.base /\ End(a) <= End(new)
         /\ \A r \in over : new.base <= r.base /\ End(r) <= End(new)
         /\ IF over = {} THEN new.region = Len(m_regions)
            ELSE \E r \in over : new.region = r.region
         /\ \A q \in m_sortedRegions \ over : End(q) < new.base \/ End(new) < q.base
<1>1. /\ a.base \in Nat /\ a.size \in Nat \ {0} /\ End(a) = a.base + a.size /\ End(a) <= Memory
      /\ Memory \in Nat
  BY SortAssumption DEF End
<1>2. over \subseteq m_sortedRegions /\ IsFiniteSet(over)
  <2>1. over \subseteq m_sortedRegions  BY DEF Overlapping
  <2> QED  BY <2>1, FS_Subset DEF RegionsOK
<1>3. \A r \in m_sortedRegions :
        /\ r.base \in Nat /\ r.size \in Nat \ {0} /\ End(r) = r.base + r.size
        /\ End(r) <= Memory /\ r.region \in Nat /\ r.region < Len(m_regions)
  BY DEF RegionsOK, Regions, End
<1>4. Len(m_regions) \in Nat  BY DEF RegionsOK
<1>5. PICK L, B, E : /\ L = {Len(m_regions)} \cup {r.region : r \in over}
                     /\ B = {a.base} \cup {r.base : r \in over}
                     /\ E = {End(a)} \cup {End(r) : r \in over}
  OBVIOUS
<1>6. /\ L \subseteq Int /\ IsFiniteSet(L) /\ L # {}
      /\ B \subseteq Int /\ IsFiniteSet(B) /\ B # {}
      /\ E \subseteq Int /\ IsFiniteSet(E) /\ E # {}
  <2>1. L \subseteq Int /\ B \subseteq Int /\ E \subseteq Int
    <3>1. \A r \in over : r.region \in Int /\ r.base \in Int /\ End(r) \in Int
      BY <1>2, <1>3
    <3>2. Len(m_regions) \in Int /\ a.base \in Int /\ End(a) \in Int  BY <1>1, <1>4
    <3> QED  BY ONLY <1>5, <3>1, <3>2
  <2>2. L \subseteq 0 .. Len(m_regions) /\ B \subseteq 0 .. Memory /\ E \subseteq 0 .. Memory
    <3>1. /\ \A r \in over : r.region \in 0 .. Len(m_regions)
          /\ \A r \in over : r.base \in 0 .. Memory
          /\ \A r \in over : End(r) \in 0 .. Memory
      <4>1. ASSUME NEW r \in over
            PROVE  r.region \in 0 .. Len(m_regions) /\ r.base \in 0 .. Memory /\ End(r) \in 0 .. Memory
        <5>1. PICK x, y, z, g : x = r.base /\ y = r.size /\ z = End(r) /\ g = r.region  OBVIOUS
        <5>2. /\ x \in Nat /\ y \in Nat \ {0} /\ z = x + y /\ z <= Memory
              /\ g \in Nat /\ g < Len(m_regions)
          BY ONLY r \in over, <1>2, <1>3, <5>1
        <5> QED  BY ONLY <1>1, <1>4, <5>1, <5>2
      <4> QED  BY ONLY <4>1
    <3>2. Len(m_regions) \in 0 .. Len(m_regions) /\ a.base \in 0 .. Memory /\ End(a) \in 0 .. Memory
      BY <1>1, <1>4
    <3> QED  BY ONLY <1>5, <3>1, <3>2
  <2>3. IsFiniteSet(0 .. Len(m_regions)) /\ IsFiniteSet(0 .. Memory)
    BY <1>1, <1>4, FS_Interval
  <2>4. IsFiniteSet(L) /\ IsFiniteSet(B) /\ IsFiniteSet(E)
    BY ONLY <2>2, <2>3, FS_Subset
  <2>5. L # {} /\ B # {} /\ E # {}  BY ONLY <1>5
  <2> QED  BY ONLY <2>1, <2>4, <2>5
<1>7. PICK l, b, e : l = Min(L) /\ b = Min(B) /\ e = Max(E)  OBVIOUS
<1>8. /\ l \in L /\ b \in B /\ e \in E
      /\ \A x \in L : l <= x
      /\ \A x \in B : b <= x
      /\ \A x \in E : x <= e
  BY ONLY <1>6, <1>7, MinIs, MaxIs
<1>9. new = [region |-> l, base |-> b, size |-> e - b]
  BY <1>5, <1>7 DEF Union
<1>10. /\ b <= a.base /\ End(a) <= e
       /\ \A r \in over : b <= r.base /\ End(r) <= e
       /\ b = a.base \/ \E r \in over : b = r.base
       /\ e = End(a) \/ \E r \in over : e = End(r)
       /\ l <= Len(m_regions)
       /\ \A r \in over : l <= r.region
       /\ l = Len(m_regions) \/ \E r \in over : l = r.region
  BY ONLY <1>5, <1>8
<1>11. b \in Nat /\ e \in Nat /\ l \in Nat /\ b < e /\ e <= Memory
  <2>1. b \in Nat /\ e \in Nat /\ l \in Nat
    <3>1. b \in Nat  BY ONLY <1>1, <1>2, <1>3, <1>10
    <3>2. e \in Nat  BY ONLY <1>1, <1>2, <1>3, <1>10, SMTT(20)
    <3>3. l \in Nat  BY ONLY <1>2, <1>3, <1>4, <1>10
    <3> QED  BY ONLY <3>1, <3>2, <3>3
  <2>2. e <= Memory  BY <1>1, <1>2, <1>3, <1>10
  <2>3. b < e
    <3>1. PICK x, y, z : x = a.base /\ y = a.size /\ z = End(a)  OBVIOUS
    <3>2. x \in Nat /\ y \in Nat \ {0} /\ z = x + y /\ b <= x /\ z <= e
      BY ONLY <1>1, <1>10, <3>1
    <3> QED  BY ONLY <2>1, <3>2
  <2> QED  BY <2>1, <2>2, <2>3
<1>12. /\ new.region = l /\ new.base = b /\ End(new) = e /\ new \in Regions
  <2>1. e - b \in Nat \ {0}  BY <1>11
  <2>2. new.region = l /\ new.base = b /\ new.size = e - b  BY <1>9
  <2>3. End(new) = e  BY <1>11, <2>2 DEF End
  <2>4. new \in Regions  BY <1>9, <1>11, <2>1 DEF Regions
  <2> QED  BY <2>2, <2>3, <2>4
<1>13. IF over = {} THEN l = Len(m_regions) ELSE \E r \in over : l = r.region
  <2>1. CASE over = {}  BY <1>10, <2>1
  <2>2. CASE over # {}
    <3>1. PICK r \in over : TRUE  BY <2>2
    <3>2. l <= r.region /\ r.region < Len(m_regions) /\ r.region \in Nat  BY <1>2, <1>3, <1>10
    <3>3. l # Len(m_regions)  BY <1>4, <1>11, <3>2
    <3> QED  BY <1>10, <2>2, <3>3
  <2> QED  BY <2>1, <2>2
<1>14. ASSUME NEW q \in m_sortedRegions \ over PROVE End(q) < b \/ e < q.base
  <2>1. /\ q.base \in Nat /\ End(q) \in Nat /\ q.base < End(q)  BY <1>3
  <2>2. End(q) < a.base \/ End(a) < q.base  BY DEF Overlapping
  <2>3. ASSUME NEW r \in over
        PROVE  /\ r.base \in Nat /\ End(r) \in Nat
               /\ a.base <= End(r) /\ r.base <= End(a)
               /\ End(q) < r.base \/ End(r) < q.base
    <3>1. r \in m_sortedRegions /\ r # q  BY <1>2
    <3>2. r.base \in Nat /\ End(r) \in Nat  BY <1>3, <3>1
    <3>3. ~ (End(r) < a.base) /\ ~ (End(a) < r.base)  BY DEF Overlapping
    <3>4. a.base <= End(r) /\ r.base <= End(a)  BY <1>1, <3>2, <3>3
    <3>5. End(q) < r.base \/ End(r) < q.base  BY <3>1 DEF RegionsOK
    <3> QED  BY <3>2, <3>4, <3>5
  <2>4. CASE End(q) < a.base
    <3>1. ASSUME NEW r \in over PROVE End(q) < r.base
      BY <1>1, <2>1, <2>3, <2>4
    <3> QED  BY <1>10, <2>4, <3>1
  <2>5. CASE End(a) < q.base
    <3>1. ASSUME NEW r \in over PROVE End(r) < q.base
      BY <1>1, <2>1, <2>3, <2>5
    <3> QED  BY <1>10, <2>5, <3>1
  <2> QED  BY <2>2, <2>4, <2>5
<1> QED  BY <1>10, <1>11, <1>12, <1>13, <1>14

LEMMA WritesType ==
  ASSUME NEW r \in Regions
  PROVE  /\ r.size \div Grain \in Nat /\ Blocks(r) = 0 .. (r.size \div Grain) - 1
         /\ Writes(r.size \div Grain) \in Pushed /\ NoneIn(Writes(r.size \div Grain))
         /\ DOMAIN Writes(r.size \div Grain).memory = Blocks(r)
<1>1. PICK z : z = r.size  OBVIOUS
<1>2. z \in Nat /\ z \in Int /\ Grain \in Nat \ {0}  BY <1>1, SortAssumption DEF Regions
<1>3. PICK n : n = z \div Grain  OBVIOUS
<1>4. n \in Nat
  <2>1. n \in Int  BY ONLY <1>2, <1>3, Division
  <2>2. 0 * Grain <= z /\ 0 \in Int  BY <1>2
  <2>3. 0 <= n  BY ONLY <1>2, <1>3, <2>2, WholeBlocks
  <2> QED  BY <2>1, <2>3
<1>5. NoMin \in Nat  BY SortAssumption DEF NoMin
<1>6. Writes(n) \in Pushed /\ NoneIn(Writes(n)) /\ DOMAIN Writes(n).memory = 0 .. n - 1
  <2>1. [i \in 0 .. n - 1 |-> 0] \in Memories  BY <1>4 DEF Memories
  <2> QED  BY <1>5, <2>1 DEF Writes, Pushed, NoneIn
<1> QED  BY ONLY <1>1, <1>3, <1>4, <1>6 DEF Blocks

LEMMA ResizedQuiet ==
  ASSUME NEW w \in Pushed, NoneIn(w), NEW n \in Nat
  PROVE  /\ Resized(w, n) \in Pushed /\ NoneIn(Resized(w, n))
         /\ DOMAIN Resized(w, n).memory = 0 .. n - 1
<1>1. PICK m : m = [i \in 0 .. n - 1 |-> IF i \in DOMAIN w.memory THEN w.memory[i] ELSE 0]
  OBVIOUS
<1>2. Resized(w, n) = [w EXCEPT !.memory = m]  BY <1>1 DEF Resized
<1>3. DOMAIN m = 0 .. n - 1 /\ \A i \in 0 .. n - 1 : m[i] = 0  BY <1>1 DEF NoneIn
<1>4. m \in Memories
  <2>1. m = [i \in 0 .. n - 1 |-> m[i]]  BY <1>1
  <2>2. m \in [0 .. n - 1 -> Nat]  BY <1>3, <2>1
  <2> QED  BY <2>2 DEF Memories
<1>5. /\ Resized(w, n).min = w.min /\ Resized(w, n).max = w.max /\ Resized(w, n).memory = m
      /\ Resized(w, n) \in Pushed
  BY <1>2, <1>4 DEF Pushed
<1> QED  BY <1>3, <1>5 DEF NoneIn

LEMMA AddStep ==
  ASSUME SortIInv, NEW id \in SlotsOf, NEW a \in Areas, addRegister(id, a)
  PROVE  SortIInv' /\ Quiet /\ Quiet'
<1>1. PICK over, new : over = Overlapping(a) /\ new = Union(a, over)  OBVIOUS
<1>2. PICK n : n = new.size \div Grain  OBVIOUS
<1>3. /\ m_dirty = {} /\ m_memslots[id] = NoArea
      /\ \/ /\ over = {}
            /\ m_regions' = Append(m_regions, new)
            /\ m_writes'  = Append(m_writes, Writes(n))
         \/ /\ over # {}
            /\ m_regions' = [m_regions EXCEPT ![new.region + 1] = new]
            /\ m_writes'  = [i \in DOMAIN m_writes |->
                 IF i = new.region + 1 THEN Resized(m_writes[i], n)
                 ELSE IF \E r \in over : r.region + 1 = i THEN Writes(0) ELSE m_writes[i]]
      /\ m_memslots' = [m_memslots EXCEPT ![id] = a]
      /\ m_sortedRegions' = (m_sortedRegions \ over) \cup {new}
      /\ Redirect(id, a, over, new)
      /\ UNCHANGED <<m_dirty, event>>
  BY <1>1, <1>2 DEF addRegister
<1>4. /\ new \in Regions /\ End(new) <= Memory
      /\ new.base <= a.base /\ End(a) <= End(new)
      /\ \A r \in over : new.base <= r.base /\ End(r) <= End(new)
      /\ IF over = {} THEN new.region = Len(m_regions)
         ELSE \E r \in over : new.region = r.region
      /\ \A q \in m_sortedRegions \ over : End(q) < new.base \/ End(new) < q.base
  BY <1>1, UnionIs DEF SortIInv
<1>5. over \subseteq m_sortedRegions  BY <1>1 DEF Overlapping
<1>6. Quiet  BY <1>3, NoWrites DEF Quiet
<1>7. /\ m_regions \in Seq(Regions) /\ Len(m_regions) \in Nat
      /\ Len(m_writes) = Len(m_regions) /\ DOMAIN m_writes = 1 .. Len(m_regions)
      /\ m_writes \in [1 .. Len(m_regions) -> Pushed]
  BY WritesSequence DEF SortIInv, RegionsOK, WritesOK
<1>8. \A r \in m_sortedRegions :
        /\ r \in Regions /\ End(r) <= Memory /\ r.region \in Nat /\ r.region < Len(m_regions)
        /\ m_regions[r.region + 1] = r
        /\ DOMAIN m_writes[r.region + 1].memory = Blocks(r)
  BY DEF SortIInv, RegionsOK, WritesOK, Regions
<1>9. new.region \in Nat  BY <1>4 DEF Regions
<1>10. \A q \in m_sortedRegions \ over : q.region # new.region
  <2>1. CASE over = {}  BY <1>4, <1>7, <1>8, <2>1
  <2>2. CASE over # {}
    <3>1. PICK r \in over : new.region = r.region  BY <1>4, <2>2
    <3>2. m_regions[r.region + 1] = r  BY <1>5, <1>8
    <3> QED  BY <1>8, <3>1, <3>2
  <2> QED  BY <2>1, <2>2
<1>11. /\ n \in Nat /\ Blocks(new) = 0 .. n - 1
       /\ Writes(n) \in Pushed /\ NoneIn(Writes(n)) /\ DOMAIN Writes(n).memory = Blocks(new)
  BY <1>2, <1>4, WritesType
<1>12. Writes(0) \in Pushed /\ NoneIn(Writes(0))
  <2>1. [i \in 0 .. 0 - 1 |-> 0] \in Memories  BY DEF Memories
  <2>2. NoMin \in Nat  BY SortAssumption DEF NoMin
  <2> QED  BY <2>1, <2>2 DEF Writes, Pushed, NoneIn
<1>13. /\ Len(m_regions') \in Nat /\ m_regions' \in Seq(Regions)
       /\ Len(m_regions) <= Len(m_regions') /\ new.region < Len(m_regions')
       /\ m_regions'[new.region + 1] = new
       /\ \A q \in m_sortedRegions \ over : m_regions'[q.region + 1] = q
  <2>1. CASE over = {}
    <3>1. m_regions' = Append(m_regions, new)  BY <1>3, <2>1
    <3>2. /\ m_regions' \in Seq(Regions) /\ Len(m_regions') = Len(m_regions) + 1
          /\ m_regions'[Len(m_regions) + 1] = new
          /\ \A i \in 1 .. Len(m_regions) : m_regions'[i] = m_regions[i]
      BY ONLY <1>4, <1>7, <3>1
    <3>3. new.region = Len(m_regions)  BY <1>4, <2>1
    <3>4. \A q \in m_sortedRegions : m_regions'[q.region + 1] = q
      BY <1>7, <1>8, <3>2
    <3>5. Len(m_regions') \in Nat /\ Len(m_regions) <= Len(m_regions') /\ Len(m_regions) < Len(m_regions')
      BY ONLY <1>7, <3>2
    <3> QED  BY ONLY <3>2, <3>3, <3>4, <3>5
  <2>2. CASE over # {}
    <3>1. m_regions' = [m_regions EXCEPT ![new.region + 1] = new]  BY <1>3, <2>2
    <3>2. new.region < Len(m_regions)  BY <1>4, <1>5, <1>8, <2>2
    <3>3. new.region + 1 \in 1 .. Len(m_regions)  BY <1>7, <1>9, <3>2
    <3>4. /\ m_regions' \in Seq(Regions) /\ Len(m_regions') = Len(m_regions)
          /\ m_regions'[new.region + 1] = new
          /\ \A i \in 1 .. Len(m_regions) : i # new.region + 1 => m_regions'[i] = m_regions[i]
      BY ONLY <1>4, <1>7, <3>1, <3>3
    <3>5. ASSUME NEW q \in m_sortedRegions \ over PROVE m_regions'[q.region + 1] = q
      <4>1. q.region \in Nat /\ q.region < Len(m_regions) /\ m_regions[q.region + 1] = q
        BY <1>8
      <4>2. q.region # new.region  BY <1>10
      <4>3. q.region + 1 \in 1 .. Len(m_regions) /\ q.region + 1 # new.region + 1
        BY ONLY <1>7, <1>9, <4>1, <4>2
      <4> QED  BY ONLY <3>4, <4>1, <4>3
    <3> QED  BY <1>7, <3>2, <3>4, <3>5
  <2> QED  BY <2>1, <2>2
<1>14. RegionsOK'
  <2>1. IsFiniteSet(m_sortedRegions')
    <3>1. IsFiniteSet(m_sortedRegions)  BY DEF SortIInv, RegionsOK
    <3>2. IsFiniteSet(m_sortedRegions \ over)
      BY <3>1, FS_Subset, m_sortedRegions \ over \subseteq m_sortedRegions
    <3>3. IsFiniteSet((m_sortedRegions \ over) \cup {new})  BY <3>2, FS_AddElement
    <3> QED  BY <1>3, <3>3
  <2>2. ASSUME NEW r \in m_sortedRegions'
        PROVE  /\ r \in Regions /\ End(r) <= Memory /\ r.region < Len(m_regions')
               /\ m_regions'[r.region + 1] = r
    <3>1. CASE r = new  BY <1>4, <1>13, <3>1
    <3>2. CASE r \in m_sortedRegions \ over
      <4>1. r \in Regions /\ End(r) <= Memory /\ r.region \in Nat /\ r.region < Len(m_regions)
        BY <1>8, <3>2
      <4>2. r.region < Len(m_regions')  BY ONLY <1>7, <1>13, <4>1
      <4> QED  BY <1>13, <3>2, <4>1, <4>2
    <3> QED  BY <1>3, <3>1, <3>2
  <2>3. ASSUME NEW q \in m_sortedRegions', NEW r \in m_sortedRegions', q # r
        PROVE  End(q) < r.base \/ End(r) < q.base
    <3>1. CASE q = new  BY <1>3, <1>4, <2>3, <3>1
    <3>2. CASE r = new  BY <1>3, <1>4, <2>3, <3>2
    <3>3. CASE q # new /\ r # new
      <4>1. q \in m_sortedRegions /\ r \in m_sortedRegions  BY <1>3, <3>3
      <4> QED  BY <2>3, <4>1 DEF SortIInv, RegionsOK
    <3> QED  BY <3>1, <3>2, <3>3
  <2> QED  BY <1>13, <2>1, <2>2, <2>3 DEF RegionsOK, End
<1>15. SlotsOK'
  <2>1. SlotsOf' = SlotsOf /\ DOMAIN m_slotToRegion' = SlotsOf
    BY <1>3 DEF SlotsOf, Redirect
  <2>2. /\ m_memslots'[id] = a /\ \A s \in SlotsOf : s # id => m_memslots'[s] = m_memslots[s]
    BY <1>3 DEF SlotsOf
  <2>3. /\ m_slotToRegion'[id] = [region |-> new.region, offset |-> a.base - new.base]
        /\ \A s \in SlotsOf : s # id =>
             m_slotToRegion'[s] =
               IF \E r \in over : r.region = m_slotToRegion[s].region
               THEN [region |-> new.region, offset |-> m_memslots[s].base - new.base]
               ELSE m_slotToRegion[s]
    BY <1>3 DEF Redirect
  <2>4. a.base \in Nat /\ a.size \in Nat \ {0} /\ End(a) \in Nat  BY SortAssumption DEF End
  <2>5. new \in m_sortedRegions'  BY <1>3
  <2>6. ASSUME NEW s \in SlotsOf, m_memslots'[s] # NoArea
        PROVE  /\ m_memslots'[s].base \in Nat /\ m_memslots'[s].size \in Nat \ {0}
               /\ \E r \in m_sortedRegions' :
                    /\ m_slotToRegion'[s] = [region |-> r.region,
                                             offset |-> m_memslots'[s].base - r.base]
                    /\ r.base <= m_memslots'[s].base
                    /\ End(m_memslots'[s]) <= End(r)
    <3>1. CASE s = id
      BY <1>4, <2>2, <2>3, <2>4, <2>5, <3>1
    <3>2. CASE s # id
      <4>1. m_memslots'[s] = m_memslots[s] /\ InUse(s)  BY <2>2, <2>6, <3>2 DEF InUse
      <4>2. m_memslots[s].base \in Nat /\ m_memslots[s].size \in Nat \ {0}
        BY <4>1 DEF SortIInv, SlotsOK
      <4>3. PICK r \in m_sortedRegions :
              /\ m_slotToRegion[s] = [region |-> r.region, offset |-> m_memslots[s].base - r.base]
              /\ r.base <= m_memslots[s].base
              /\ End(m_memslots[s]) <= End(r)
        BY <4>1 DEF SortIInv, SlotsOK, Within
      <4>4. m_slotToRegion[s].region = r.region  BY <4>3
      <4>5. CASE r \in over
        <5>1. m_slotToRegion'[s]
                = [region |-> new.region, offset |-> m_memslots[s].base - new.base]
          BY <2>3, <3>2, <4>4, <4>5
        <5>2. new.base <= r.base /\ End(r) <= End(new)  BY <1>4, <4>5
        <5>3. /\ new.base \in Int /\ r.base \in Int /\ End(r) \in Int /\ End(new) \in Int
              /\ End(m_memslots[s]) \in Int
          BY <1>4, <1>8, <4>2, SMTT(20) DEF Regions, End
        <5>4. new.base <= m_memslots[s].base /\ End(m_memslots[s]) <= End(new)
          <6>1. PICK x, y : x = m_memslots[s].base /\ y = End(m_memslots[s])  OBVIOUS
          <6>2. x \in Int /\ y \in Int  BY <4>2, <5>3, <6>1
          <6>3. new.base <= x /\ y <= End(new)
            <7>1. r.base <= x /\ y <= End(r)  BY <4>3, <6>1
            <7>2. PICK p, q, t, u : p = new.base /\ q = r.base /\ t = End(r) /\ u = End(new)
              OBVIOUS
            <7>3. /\ p \in Int /\ q \in Int /\ t \in Int /\ u \in Int
                  /\ p <= q /\ q <= x /\ y <= t /\ t <= u
              BY ONLY <5>2, <5>3, <7>1, <7>2
            <7>4. p <= x /\ y <= u  BY ONLY <6>2, <7>3
            <7> QED  BY ONLY <7>2, <7>4
          <6> QED  BY ONLY <6>1, <6>3
        <5> QED  BY <2>5, <4>1, <4>2, <5>1, <5>4
      <4>6. CASE r \notin over
        <5>1. ~ \E q \in over : q.region = m_slotToRegion[s].region
          <6>1. SUFFICES ASSUME NEW q \in over, q.region = r.region PROVE FALSE
            BY <4>4
          <6>2. m_regions[q.region + 1] = q /\ m_regions[r.region + 1] = r
            BY <1>5, <1>8
          <6> QED  BY <4>6, <6>1, <6>2
        <5>2. m_slotToRegion'[s] = m_slotToRegion[s]  BY <2>3, <3>2, <5>1
        <5>3. r \in m_sortedRegions'  BY <1>3, <4>6
        <5> QED  BY <4>1, <4>2, <4>3, <5>2, <5>3
      <4> QED  BY <4>5, <4>6
    <3> QED  BY <3>1, <3>2
  <2> QED  BY <2>1, <2>6 DEF SlotsOK, InUse, Within, SlotsOf, End
<1>16. /\ Len(m_writes') = Len(m_regions') /\ m_writes' \in Seq(Pushed)
       /\ DOMAIN m_writes' = 1 .. Len(m_regions')
       /\ \A i \in DOMAIN m_writes' : NoneIn(m_writes'[i])
       /\ DOMAIN m_writes'[new.region + 1].memory = Blocks(new)
       /\ \A q \in m_sortedRegions \ over : m_writes'[q.region + 1] = m_writes[q.region + 1]
  <2>1. CASE over = {}
    <3>1. m_writes' = Append(m_writes, Writes(n)) /\ m_regions' = Append(m_regions, new)
      BY <1>3, <2>1
    <3>2. m_writes \in Seq(Pushed)  BY DEF SortIInv, WritesOK
    <3>3. /\ m_writes' \in Seq(Pushed) /\ Len(m_writes') = Len(m_writes) + 1
          /\ DOMAIN m_writes' = 1 .. Len(m_writes) + 1
          /\ m_writes'[Len(m_writes) + 1] = Writes(n)
          /\ \A i \in 1 .. Len(m_writes) : m_writes'[i] = m_writes[i]
      BY ONLY <1>11, <3>1, <3>2
    <3>4. Len(m_regions') = Len(m_regions) + 1  BY ONLY <1>4, <1>7, <3>1
    <3>5. new.region = Len(m_regions)  BY <1>4, <2>1
    <3>6. \A i \in 1 .. Len(m_writes) : NoneIn(m_writes[i])  BY <1>6, <1>7 DEF Quiet
    <3>7. \A i \in DOMAIN m_writes' : NoneIn(m_writes'[i])
      <4>1. \A i \in DOMAIN m_writes' : i \in 1 .. Len(m_writes) \/ i = Len(m_writes) + 1
        BY ONLY <1>7, <3>3
      <4> QED  BY ONLY <1>11, <3>3, <3>6, <4>1
    <3>8. ASSUME NEW q \in m_sortedRegions \ over
          PROVE  m_writes'[q.region + 1] = m_writes[q.region + 1]
      <4>1. q.region + 1 \in 1 .. Len(m_writes)  BY <1>7, <1>8
      <4> QED  BY ONLY <3>3, <4>1
    <3> QED  BY ONLY <1>7, <1>11, <3>3, <3>4, <3>5, <3>7, <3>8
  <2>2. CASE over # {}
    <3>1. m_writes'  = [i \in 1 .. Len(m_regions) |->
                 IF i = new.region + 1 THEN Resized(m_writes[i], n)
                 ELSE IF \E r \in over : r.region + 1 = i THEN Writes(0) ELSE m_writes[i]]
      BY <1>3, <1>7, <2>2
    <3>2. new.region < Len(m_regions)  BY <1>4, <1>5, <1>8, <2>2
    <3>3. new.region + 1 \in 1 .. Len(m_regions)  BY <1>7, <1>9, <3>2
    <3>4. Len(m_regions') = Len(m_regions)  BY <1>3, <1>7, <2>2
    <3>5. \A i \in 1 .. Len(m_regions) : m_writes[i] \in Pushed /\ NoneIn(m_writes[i])
      BY <1>6, <1>7 DEF Quiet
    <3>6. \A i \in 1 .. Len(m_regions) : m_writes'[i] \in Pushed /\ NoneIn(m_writes'[i])
      BY <1>11, <1>12, <3>1, <3>5, ResizedQuiet
    <3>7. m_writes' \in [1 .. Len(m_regions) -> Pushed]  BY <3>1, <3>6
    <3>8. /\ m_writes' \in Seq(Pushed) /\ Len(m_writes') = Len(m_regions)
          /\ DOMAIN m_writes' = 1 .. Len(m_regions)
      BY ONLY <1>7, <3>7, SequenceOf
    <3>9. DOMAIN m_writes'[new.region + 1].memory = Blocks(new)
      <4>1. m_writes'[new.region + 1] = Resized(m_writes[new.region + 1], n)  BY <3>1, <3>3
      <4>2. DOMAIN Resized(m_writes[new.region + 1], n).memory = 0 .. n - 1
        BY <1>11, <3>3, <3>5, ResizedQuiet
      <4> QED  BY <1>11, <4>1, <4>2
    <3>10. ASSUME NEW q \in m_sortedRegions \ over
           PROVE  m_writes'[q.region + 1] = m_writes[q.region + 1]
      <4>1. q.region \in Nat /\ q.region + 1 \in 1 .. Len(m_regions)  BY <1>7, <1>8
      <4>2. q.region # new.region  BY <1>10
      <4>3. q.region + 1 # new.region + 1  BY ONLY <1>9, <4>1, <4>2
      <4>4. ASSUME NEW r \in over, r.region + 1 = q.region + 1 PROVE FALSE
        <5>1. m_regions[q.region + 1] = q /\ m_regions[r.region + 1] = r  BY <1>5, <1>8
        <5> QED  BY <4>4, <5>1
      <4> QED  BY <3>1, <4>1, <4>3, <4>4
    <3> QED  BY ONLY <3>4, <3>6, <3>8, <3>9, <3>10
  <2> QED  BY <2>1, <2>2
<1>17. WritesOK'
  <2>1. ASSUME NEW r \in m_sortedRegions'
        PROVE  DOMAIN m_writes'[r.region + 1].memory = Blocks(r)
    <3>1. CASE r = new  BY <1>16, <3>1
    <3>2. CASE r \in m_sortedRegions \ over  BY <1>8, <1>16, <3>2
    <3> QED  BY <1>3, <3>1, <3>2
  <2> QED  BY <1>16, <2>1 DEF WritesOK, NoneIn, SomeIn
<1>18. Quiet'  BY <1>16 DEF Quiet, NoneIn
<1>19. DirtyOK'
  <2>1. ASSUME NEW w, NoneIn(w), SomeIn(w) PROVE FALSE
    BY <2>1 DEF NoneIn, SomeIn
  <2>2. m_dirty' = {}  BY <1>3
  <2>3. \A i \in DOMAIN m_writes' : ~ SomeIn(m_writes'[i])  BY <1>16, <2>1
  <2> QED  BY <2>2, <2>3 DEF DirtyOK, SomeIn
<1> QED  BY <1>6, <1>14, <1>15, <1>17, <1>18, <1>19 DEF SortIInv


----------------------------------------------------------------------------
(* The steps together *)

LEMMA SortInitOK ==
  ASSUME SortInit
  PROVE  SortIInv /\ Quiet
<1>1. m_sortedRegions = {} /\ m_regions = <<>> /\ m_writes = <<>> /\ m_dirty = {}
  BY DEF SortInit
<1>2. SlotsOf = {} /\ DOMAIN m_slotToRegion = {}  BY DEF SortInit, SlotsOf
<1>3. RegionsOK  BY <1>1, FS_EmptySet DEF RegionsOK
<1>4. SlotsOK  BY <1>2 DEF SlotsOK
<1>5. WritesOK  BY <1>1 DEF WritesOK
<1>6. DirtyOK  BY <1>1 DEF DirtyOK
<1>7. Quiet  BY <1>1 DEF Quiet
<1> QED  BY <1>3, <1>4, <1>5, <1>6, <1>7 DEF SortIInv

LEMMA WriteOf ==
  ASSUME SortIInv, NEW s \in SlotsOf, InUse(s), NEW offset \in 0 .. m_memslots[s].size - 1,
         NEW size \in 1 .. m_memslots[s].size - offset
  PROVE  offset \in Nat /\ size \in Nat /\ offset + size <= m_memslots[s].size
<1>1. m_memslots[s].size \in Nat  BY SlotWithin
<1> QED  BY <1>1

LEMMA SortStep ==
  ASSUME SortIInv, [SortNext]_sortVars
  PROVE  SortIInv'
<1>1. ASSUME NEW range \in 1 .. MaxSlots, setSlotRange(range) PROVE SortIInv'
  BY <1>1, RangeStep
<1>2. ASSUME NEW id \in SlotsOf, NEW a \in Areas, addRegister(id, a) PROVE SortIInv'
  BY <1>2, AddStep
<1>3. ASSUME NEW id \in SlotsOf, delRegister(id) PROVE SortIInv'
  BY <1>3, DelStep
<1>4. ASSUME NEW id \in MsgIds, NEW s \in SlotsOf, InUse(s),
             NEW offset \in 0 .. m_memslots[s].size - 1,
             NEW size \in 1 .. m_memslots[s].size - offset, pushWrite(id, s, offset, size)
      PROVE SortIInv'
  BY <1>4, WriteOf, PushStep
<1>5. CASE popWrite  BY <1>5, PopStep
<1>6. CASE popNothing  BY <1>6, EmptyStep
<1>7. CASE clear_  BY <1>7, ClearStep
<1>8. CASE UNCHANGED sortVars
  BY <1>8 DEF sortVars, SortIInv, RegionsOK, SlotsOK, WritesOK, DirtyOK, SlotsOf, InUse, Within, End
<1> QED  BY <1>1, <1>2, <1>3, <1>4, <1>5, <1>6, <1>7, <1>8 DEF SortNext

\* The invariant is inductive: live regions never touch, a slot's area is in
\* its region, and the marks of a region are between m_min and m_max.
THEOREM SortInvariant == SortSpec => []SortIInv
<1>1. SortInit => SortIInv  BY SortInitOK
<1>2. SortIInv /\ [SortNext]_sortVars => SortIInv'  BY SortStep
<1> QED  BY <1>1, <1>2, PTL DEF SortSpec

pendingMap == [b \in 0 .. Memory - 1 |-> PendingAt(b)]
noneMap == [b \in 0 .. Memory - 1 |-> -1]

LEMMA QuietMap ==
  ASSUME Shown, Quiet
  PROVE  pendingMap = noneMap
  BY DEF Shown, QuietRight, pendingMap, noneMap

LEMMA SortInitShown ==
  ASSUME SortInit
  PROVE  Win!Init
<1>1. pendingMap = noneMap  BY SortInitOK, ShownRight, QuietMap
<1>2. SlotsOf = {}  BY DEF SortInit, SlotsOf
<1>3. Registered = {} /\ AllAnswers = {}  BY <1>2 DEF Registered, AllAnswers
<1> QED  BY <1>1, <1>3 DEF SortInit, Win!Init, Win!None, pendingMap, noneMap

\* What a step of Win!Next needs besides one of its disjuncts.
LEMMA AnswersFollow ==
  ASSUME Shown', Win!Register \/ Win!Push \/ Win!Pop \/ Win!PopNothing \/ Win!Clear
  PROVE  Win!Next
  BY DEF Shown, AnswersRight, Win!Next

LEMMA RegisterShown ==
  ASSUME Shown', pendingMap' = pendingMap, event' = event
  PROVE  Win!Next
<1>1. Win!Register  BY DEF Shown, Win!Register, pendingMap
<1> QED  BY <1>1, AnswersFollow

\* Nothing pending moves while slots come and go.
LEMMA SameMemory ==
  ASSUME m_sortedRegions' = m_sortedRegions, m_writes' = m_writes
  PROVE  pendingMap' = pendingMap
  BY DEF pendingMap, PendingAt, BlocksAt

LEMMA SameSlots ==
  ASSUME m_memslots' = m_memslots
  PROVE  Registered' = Registered
  BY DEF Registered, AreaOf, InUse, SlotsOf, End

LEMMA StepShown ==
  ASSUME SortIInv, [SortNext]_sortVars, Shown, Shown'
  PROVE  [Win!Next]_(Win!winnerVars)
<1>1. ASSUME NEW range \in 1 .. MaxSlots, setSlotRange(range) PROVE Win!Next
  BY <1>1, SameMemory, RegisterShown DEF setSlotRange
<1>2. ASSUME NEW id \in SlotsOf, NEW a \in Areas, addRegister(id, a) PROVE Win!Next
  <2>1. Quiet /\ Quiet'  BY <1>2, AddStep
  <2>2. pendingMap' = noneMap'
    BY <2>1 DEF Shown, QuietRight, pendingMap, noneMap
  <2>3. pendingMap' = pendingMap  BY <2>1, <2>2, QuietMap DEF noneMap
  <2> QED  BY <1>2, <2>3, RegisterShown DEF addRegister
<1>3. ASSUME NEW id \in SlotsOf, delRegister(id) PROVE Win!Next
  BY <1>3, SameMemory, RegisterShown DEF delRegister
<1>4. ASSUME NEW id \in MsgIds, NEW s \in SlotsOf, InUse(s),
             NEW offset \in 0 .. m_memslots[s].size - 1,
             NEW size \in 1 .. m_memslots[s].size - offset, pushWrite(id, s, offset, size)
      PROVE Win!Next
  <2>1. Win!Push  BY <1>4, WriteOf, PushStep DEF Shown
  <2> QED  BY <2>1, AnswersFollow
<1>5. CASE popWrite
  <2>1. Win!Pop  BY <1>5, PopStep DEF Shown
  <2> QED  BY <2>1, AnswersFollow
<1>6. CASE popNothing
  <2>1. \A r \in m_dirty : ~ HasWrites(r)  BY <1>6 DEF popNothing
  <2>2. Quiet  BY <2>1, NoWrites DEF Quiet
  <2>3. \A b \in 0 .. Memory - 1 : pendingMap[b] = -1  BY <2>2 DEF Shown, QuietRight, pendingMap
  <2>4. pendingMap' = pendingMap  BY <1>6, SameMemory DEF popNothing
  <2>5. Registered' = Registered  BY <1>6, SameSlots DEF popNothing
  <2>6. event'.op = "empty"  BY <1>6 DEF popNothing
  <2>7. Win!PopNothing  BY <2>3, <2>4, <2>5, <2>6 DEF Win!PopNothing, Win!None, pendingMap
  <2> QED  BY <2>7, AnswersFollow
<1>7. CASE clear_
  <2>1. Quiet'  BY <1>7, ClearStep DEF Quiet
  <2>2. pendingMap' = noneMap  BY <2>1 DEF Shown, QuietRight, pendingMap, noneMap
  <2>3. Registered' = Registered  BY <1>7, SameSlots DEF clear_
  <2>4. event'.op = "clear"  BY <1>7 DEF clear_
  <2>5. Win!Clear  BY <2>2, <2>3, <2>4 DEF Win!Clear, Win!None, pendingMap, noneMap
  <2> QED  BY <2>5, AnswersFollow
<1>8. CASE UNCHANGED sortVars
  <2>1. UNCHANGED <<m_memslots, m_sortedRegions, m_slotToRegion, m_writes, event>>
    BY <1>8 DEF sortVars
  <2>2. pendingMap' = pendingMap  BY <2>1, SameMemory
  <2>3. Registered' = Registered  BY <2>1, SameSlots
  <2>4. AllAnswers' = AllAnswers
    BY <2>1 DEF AllAnswers, AreaOf, InUse, SlotsOf, End, canWrite
  <2> QED  BY <2>1, <2>2, <2>3, <2>4 DEF Win!winnerVars, pendingMap
<1> QED  BY <1>1, <1>2, <1>3, <1>4, <1>5, <1>6, <1>7, <1>8 DEF SortNext

\* What is pushed, popped and answered over all regions is what Winners
\* promises: every byte of the pushed blocks is given out once, with the
\* highest of its priorities, and canWrite knows what is pending.
THEOREM WinnersImplemented == SortSpec => ImplementsWinners
<1>1. SortInit => Win!Init  BY SortInitShown
<1>2. SortIInv => Shown  BY ShownRight
<1>3. SortIInv /\ [SortNext]_sortVars /\ Shown /\ Shown' => [Win!Next]_(Win!winnerVars)
  BY StepShown
<1>4. SortSpec => []SortIInv  BY SortInvariant
<1> QED  BY <1>1, <1>2, <1>3, <1>4, PTL DEF SortSpec, ImplementsWinners, Win!Spec
=============================================================================
