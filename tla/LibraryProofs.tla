--------------------------- MODULE LibraryProofs ---------------------------
(***************************************************************************)
(* What the library's own tools are relied on for, for all their           *)
(* parameters: that src/src/common/sparseset.hpp is a set, that the sparse *)
(* exchange of src/src/MPI/mpilib.cpp is over when it returns, that        *)
(* src/src/common/time.cpp calculates exactly, that isend, irecv and       *)
(* iwaitall of mpilib.cpp deliver every planned message to its place in    *)
(* the round it belongs to, whatever MPI buffers and completes early, that *)
(* init.cpp keeps the command line, and that ipcmesg.hpp reads what it has *)
(* written.                                                                *)
(***************************************************************************)
EXTENDS SparseSet, SparseExchange, Time, WaitAll, IpcMessage, Arguments,
        FiniteSetTheorems, SequenceTheorems, TLAPS

(* The sparse set *)

(* The permutation and its inverse.                                        *)
Inverses == \A i \in 0 .. m_max : m_map[m_domain[i]] = i /\ m_domain[m_map[i]] = i

(* Exchanging the places of x and of the element at b, as insert and erase *)
(* of sparseset.hpp do, moves these two and keeps m_map the inverse of     *)
(* m_domain.                                                               *)
LEMMA ExchangeMoves ==
  ASSUME SetTypeOK, Inverses, NEW x \in 0 .. m_max, NEW b \in 0 .. m_max, Exchange(x, b)
  PROVE  /\ m_domain' \in [0 .. m_max -> 0 .. m_max]
         /\ m_map' \in [0 .. m_max -> 0 .. m_max]
         /\ \A i \in 0 .. m_max : m_map'[m_domain'[i]] = i /\ m_domain'[m_map'[i]] = i
         /\ m_map'[x] = b
         /\ m_domain[b] # x => m_map'[m_domain[b]] = m_map[x]
         /\ \A z \in 0 .. m_max : z # x /\ z # m_domain[b] => m_map'[z] = m_map[z]
         /\ \A i \in 0 .. m_max : i # m_map[x] /\ i # b => m_domain'[i] = m_domain[i]
<1> DEFINE a == m_map[x]
           y == m_domain[b]
<1>1. /\ m_domain \in [0 .. m_max -> 0 .. m_max]
      /\ m_map \in [0 .. m_max -> 0 .. m_max]
      /\ a \in 0 .. m_max /\ y \in 0 .. m_max
  BY DEF SetTypeOK
<1>2. m_domain[a] = x /\ m_map[y] = b /\ (a = b <=> x = y)
  BY <1>1 DEF Inverses
<1>3. m_domain' = [m_domain EXCEPT ![a] = y, ![b] = x]
  BY <1>2 DEF Exchange, Swapped
<1>4. m_map' = [m_map EXCEPT ![x] = b, ![y] = a]
  BY <1>2 DEF Exchange, Swapped
<1>5. /\ m_domain' \in [0 .. m_max -> 0 .. m_max]
      /\ m_map' \in [0 .. m_max -> 0 .. m_max]
  BY <1>1, <1>3, <1>4
<1>6. /\ m_domain'[a] = y /\ m_domain'[b] = x
      /\ m_map'[x] = b /\ m_map'[y] = a
  BY <1>1, <1>2, <1>3, <1>4
<1>7. \A i \in 0 .. m_max : i # a /\ i # b => m_domain'[i] = m_domain[i]
  BY <1>1, <1>3
<1>8. \A z \in 0 .. m_max : z # x /\ z # y => m_map'[z] = m_map[z]
  BY <1>1, <1>4
<1>9. ASSUME NEW i \in 0 .. m_max
      PROVE  m_map'[m_domain'[i]] = i /\ m_domain'[m_map'[i]] = i
  <2>1. m_domain[i] \in 0 .. m_max /\ m_map[i] \in 0 .. m_max
    BY <1>1
  <2>2. m_map[m_domain[i]] = i /\ m_domain[m_map[i]] = i
    BY DEF Inverses
  <2>3. m_map'[m_domain'[i]] = i
    BY <1>2, <1>6, <1>7, <1>8, <2>1, <2>2
  <2>4. m_domain'[m_map'[i]] = i
    BY <1>2, <1>6, <1>7, <1>8, <2>1, <2>2
  <2> QED BY <2>3, <2>4
<1> QED BY <1>5, <1>6, <1>7, <1>8, <1>9

(* What the invariant says of single elements and places.                  *)
LEMMA EachElement ==
  ASSUME Intact
  PROVE  /\ m_max \in Nat /\ m_max <= MaxElement
         /\ m_size \in Nat /\ m_size <= m_max + 1
         /\ elements \subseteq used /\ used \subseteq 0 .. m_max /\ elements \subseteq 0 .. m_max
         /\ \A i \in 0 .. m_max : /\ m_domain[i] \in 0 .. m_max /\ m_map[i] \in 0 .. m_max
                                  /\ m_map[m_domain[i]] = i /\ m_domain[m_map[i]] = i
                                  /\ (i \in elements <=> m_map[i] < m_size)
                                  /\ ((\A x \in used : x < i) => m_domain[i] = i)
<1>1. m_max \in Nat /\ m_max <= MaxElement
  BY MaxElementAssumption DEF Intact, SetTypeOK
<1>2. m_size \in Nat /\ m_size <= m_max + 1
  BY <1>1 DEF Intact, SetTypeOK
<1>3. elements \subseteq used /\ used \subseteq 0 .. m_max /\ elements \subseteq 0 .. m_max
  BY DEF Intact, SetTypeOK
<1>4. \A i \in 0 .. m_max : m_domain[i] \in 0 .. m_max /\ m_map[i] \in 0 .. m_max
  BY DEF Intact, SetTypeOK
<1>5. \A i \in 0 .. m_max : /\ m_map[m_domain[i]] = i /\ m_domain[m_map[i]] = i
                            /\ (i \in elements <=> m_map[i] < m_size)
                            /\ ((\A x \in used : x < i) => m_domain[i] = i)
  BY DEF Intact
<1> QED BY <1>1, <1>2, <1>3, <1>4, <1>5

(* What the constructor makes, the set of the one number 0, is empty and   *)
(* in order.                                                               *)
LEMMA InitSet == SetInit => Intact
BY MaxElementAssumption DEF SetInit, Intact, SetTypeOK, Identity

(* reset puts every number in its own place, and forgets what was used.    *)
LEMMA ResetKeeps ==
  ASSUME NEW max \in 0 .. MaxElement, reset(max) PROVE Intact'
BY MaxElementAssumption DEF reset, Intact, SetTypeOK, Identity

(* clear only sets m_size to 0: no place lies before it.                   *)
LEMMA ClearKeeps == ASSUME Intact, clear PROVE Intact'
<1>1. \A i \in 0 .. m_max : m_map[i] \in 0 .. m_max
  BY DEF Intact, SetTypeOK
<1>2. SetTypeOK'
  <2>1. 0 \in 0 .. m_max + 1
    BY EachElement
  <2> QED BY <2>1 DEF clear, Intact, SetTypeOK
<1>3. \A x \in 0 .. m_max : ~ (m_map[x] < 0)
  BY <1>1
<1> QED BY <1>2, <1>3 DEF clear, Intact

(* extend adds numbers in their own places, behind everything there is.    *)
LEMMA ExtendKeeps ==
  ASSUME Intact, NEW max \in 0 .. MaxElement, extend(max) PROVE Intact'
<1>1. /\ m_max \in Nat /\ max \in Nat /\ m_max < max /\ m_max' = max
      /\ m_size' = m_size /\ elements' = elements /\ used' = used
      /\ m_size \in 0 .. m_max + 1 /\ elements \subseteq 0 .. m_max /\ used \subseteq 0 .. m_max
  <2>1. max \in Nat
    BY MaxElementAssumption
  <2> QED BY <2>1, EachElement DEF extend
<1>2. /\ \A i \in 0 .. m_max : m_domain'[i] = m_domain[i] /\ m_map'[i] = m_map[i]
      /\ \A i \in m_max + 1 .. max : m_domain'[i] = i /\ m_map'[i] = i
      /\ DOMAIN m_domain' = 0 .. max /\ DOMAIN m_map' = 0 .. max
      /\ m_domain' = [i \in 0 .. max |-> m_domain'[i]]
      /\ m_map' = [i \in 0 .. max |-> m_map'[i]]
  BY <1>1 DEF extend, Longer
<1>3. \A i \in 0 .. m_max : m_domain[i] \in 0 .. m_max /\ m_map[i] \in 0 .. m_max
  BY DEF Intact, SetTypeOK
<1>4. SetTypeOK'
  <2>1. \A i \in 0 .. max : m_domain'[i] \in 0 .. max /\ m_map'[i] \in 0 .. max
    BY <1>1, <1>2, <1>3
  <2>2. m_domain' \in [0 .. max -> 0 .. max] /\ m_map' \in [0 .. max -> 0 .. max]
    BY <1>2, <2>1
  <2>3. /\ m_size' \in 0 .. max + 1
        /\ elements' \subseteq 0 .. max /\ used' \subseteq 0 .. max
    BY <1>1
  <2> QED BY <1>1, <2>2, <2>3 DEF SetTypeOK
<1>5. ASSUME NEW i \in 0 .. max PROVE m_map'[m_domain'[i]] = i /\ m_domain'[m_map'[i]] = i
  <2>1. CASE i \in 0 .. m_max
    BY <1>2, <1>3, <2>1, EachElement
  <2>2. CASE i \in m_max + 1 .. max
    BY <1>2, <2>2
  <2> QED BY <1>1, <2>1, <2>2
<1>6. \A x \in 0 .. max : x \in elements <=> m_map'[x] < m_size
  BY <1>1, <1>2 DEF Intact
<1>7. \A i \in 0 .. max : (\A x \in used : x < i) => m_domain'[i] = i
  BY <1>1, <1>2 DEF Intact
<1> QED BY <1>1, <1>4, <1>5, <1>6, <1>7 DEF Intact

(* shrink pops from m_domain the places from k on.  They are beyond all    *)
(* that was ever used, so that none of them has been moved, and cutting    *)
(* m_map at k takes away the same numbers.                                 *)
LEMMA ShrinkKeeps ==
  ASSUME Intact, NEW max \in 0 .. MaxElement, shrink(max), \A x \in used : x <= max
  PROVE  Intact'
<1>1. PICK k \in 0 .. m_max + 1 :
        /\ Pops(max, k)
        /\ m_max' = k - 1
        /\ m_domain' = [i \in 0 .. k - 1 |-> m_domain[i]]
        /\ m_map' = [i \in 0 .. k - 1 |-> m_map[i]]
  BY DEF shrink
<1>2. /\ m_max \in 0 .. MaxElement /\ max \in Nat /\ k \in Nat /\ max < k /\ m_size <= k
      /\ k <= m_max + 1 /\ m_size \in Nat
      /\ m_size' = m_size /\ elements' = elements /\ used' = used
      /\ \A x \in used : x <= max
      /\ elements \subseteq used /\ used \subseteq 0 .. m_max
  <2>1. max \in Nat /\ m_max \in 0 .. MaxElement /\ k \in Nat /\ k <= m_max + 1
    BY MaxElementAssumption, EachElement DEF Intact, SetTypeOK
  <2>2. /\ m_size' = m_size /\ elements' = elements /\ used' = used
        /\ \A x \in used : x <= max
    BY DEF shrink
  <2>3. max < k /\ m_size <= k
    BY <1>1, <2>1, EachElement DEF Pops
  <2> QED BY <2>1, <2>2, <2>3, EachElement
<1>3. \A i \in k .. m_max : m_domain[i] = i
  BY <1>2 DEF Intact
<1>4. \A i \in 0 .. m_max : m_domain[i] \in 0 .. m_max /\ m_map[i] \in 0 .. m_max
  BY DEF Intact, SetTypeOK
<1>5. ASSUME NEW i \in 0 .. k - 1
      PROVE  m_domain[i] \in 0 .. k - 1 /\ m_map[i] \in 0 .. k - 1
  <2>1. i \in 0 .. m_max /\ m_map[m_domain[i]] = i /\ m_domain[m_map[i]] = i
    BY <1>2 DEF Intact
  <2>2. m_domain[i] \notin k .. m_max
    <3>1. SUFFICES ASSUME m_domain[i] \in k .. m_max PROVE FALSE
      OBVIOUS
    <3>2. m_map[m_domain[m_domain[i]]] = m_domain[i]
      BY <1>4, <2>1 DEF Intact
    <3> QED BY <1>2, <1>3, <2>1, <3>1, <3>2
  <2>3. m_map[i] \notin k .. m_max
    BY <1>2, <1>3, <2>1
  <2> QED BY <1>2, <1>4, <2>1, <2>2, <2>3
<1>6. SetTypeOK'
  <2>1. m_max' \in 0 .. MaxElement /\ m_size' \in 0 .. m_max' + 1
    BY <1>1, <1>2, MaxElementAssumption
  <2>2. m_domain' \in [0 .. m_max' -> 0 .. m_max'] /\ m_map' \in [0 .. m_max' -> 0 .. m_max']
    BY <1>1, <1>5
  <2>3. used' \subseteq 0 .. m_max' /\ elements' \subseteq 0 .. m_max'
    BY <1>1, <1>2
  <2> QED BY <2>1, <2>2, <2>3 DEF SetTypeOK
<1>7. \A i \in 0 .. k - 1 : m_map'[m_domain'[i]] = i /\ m_domain'[m_map'[i]] = i
  BY <1>1, <1>2, <1>5 DEF Intact
<1>8. \A x \in 0 .. k - 1 : x \in elements <=> m_map'[x] < m_size
  BY <1>1, <1>2 DEF Intact
<1>9. \A i \in 0 .. k - 1 : (\A x \in used : x < i) => m_domain'[i] = i
  BY <1>1, <1>2 DEF Intact
<1> QED BY <1>1, <1>2, <1>6, <1>7, <1>8, <1>9 DEF Intact

(* insert: the place behind the elements is free, and x, being new, lies   *)
(* before everything that has never been used.                             *)
LEMMA InsertKeeps ==
  ASSUME Intact, NEW x \in 0 .. m_max, insert(x) PROVE Intact'
<1>1. /\ m_max \in Nat /\ m_size \in 0 .. m_max + 1
      /\ elements \subseteq used /\ used \subseteq 0 .. m_max
      /\ m_max \in 0 .. MaxElement
      /\ m_max' = m_max /\ elements' = elements \cup {x} /\ used' = used \cup {x}
  <2>1. m_max \in 0 .. MaxElement
    BY DEF Intact, SetTypeOK
  <2> QED BY <2>1, EachElement DEF insert
<1>2. \A i \in 0 .. m_max : /\ m_domain[i] \in 0 .. m_max /\ m_map[i] \in 0 .. m_max
                            /\ m_map[m_domain[i]] = i /\ m_domain[m_map[i]] = i
                            /\ (i \in elements <=> m_map[i] < m_size)
  BY DEF Intact, SetTypeOK
<1>3. CASE contains(x)
  <2>1. x \in elements /\ m_domain' = m_domain /\ m_map' = m_map /\ m_size' = m_size
    BY <1>2, <1>3 DEF insert, contains
  <2>2. elements' = elements /\ used' = used
    BY <1>1, <2>1
  <2> QED BY <1>1, <2>1, <2>2 DEF Intact, SetTypeOK
<1>4. CASE ~ contains(x)
  <2> DEFINE a == m_map[x]
             y == m_domain[m_size]
  <2>1. /\ m_size' = m_size + 1 /\ Exchange(x, m_size)
        /\ a \in 0 .. m_max /\ m_size <= a /\ x \notin elements
        /\ m_size \in 0 .. m_max
    BY <1>1, <1>2, <1>4 DEF insert, contains
  <2>2. SetTypeOK /\ Inverses
    BY DEF Intact, Inverses
  <2>3. /\ m_domain' \in [0 .. m_max -> 0 .. m_max]
        /\ m_map' \in [0 .. m_max -> 0 .. m_max]
        /\ \A i \in 0 .. m_max : m_map'[m_domain'[i]] = i /\ m_domain'[m_map'[i]] = i
        /\ m_map'[x] = m_size
        /\ y # x => m_map'[y] = a
        /\ \A z \in 0 .. m_max : z # x /\ z # y => m_map'[z] = m_map[z]
        /\ \A i \in 0 .. m_max : i # a /\ i # m_size => m_domain'[i] = m_domain[i]
    BY <2>1, <2>2, ExchangeMoves
  <2>4. SetTypeOK'
    <3>1. m_size' \in 0 .. m_max' + 1 /\ elements' \subseteq 0 .. m_max' /\ used' \subseteq 0 .. m_max'
      BY <1>1, <2>1
    <3>2. /\ m_domain' \in [0 .. m_max' -> 0 .. m_max']
          /\ m_map' \in [0 .. m_max' -> 0 .. m_max']
      BY <1>1, <2>3
    <3> QED BY <1>1, <3>1, <3>2 DEF SetTypeOK
  <2>5. ASSUME NEW z \in 0 .. m_max
        PROVE  z \in elements' <=> m_map'[z] < m_size'
    <3>1. CASE z = x
      BY <1>1, <2>1, <2>3, <3>1
    <3>2. CASE z # x /\ z = y
      <4>1. m_map[y] = m_size /\ a # m_size
        BY <1>2, <2>1, <3>2
      <4>2. m_map'[z] = a /\ ~ (m_map[z] < m_size)
        BY <2>3, <3>2, <4>1, <1>1
      <4>3. z \notin elements'
        BY <1>1, <1>2, <3>2, <4>2
      <4>4. ~ (a < m_size + 1)
        BY <1>1, <2>1, <4>1
      <4> QED BY <2>1, <4>2, <4>3, <4>4
    <3>3. CASE z # x /\ z # y
      <4>1. m_map[z] # m_size
        BY <1>2, <3>3
      <4>2. m_map'[z] = m_map[z] /\ (z \in elements' <=> m_map[z] < m_size)
        BY <1>1, <1>2, <2>3, <3>3
      <4>3. m_map[z] < m_size <=> m_map[z] < m_size + 1
        BY <1>1, <1>2, <4>1
      <4> QED BY <2>1, <4>2, <4>3
    <3> QED BY <3>1, <3>2, <3>3
  <2>6. ASSUME NEW i \in 0 .. m_max, \A z \in used' : z < i
        PROVE  m_domain'[i] = i
    <3>1. x < i /\ m_domain[i] = i /\ m_domain[a] = x
      BY <1>1, <1>2, <2>6 DEF Intact
    <3>2. i # a
      BY <3>1
    <3>3. i # m_size
      <4>1. SUFFICES ASSUME i = m_size PROVE FALSE
        OBVIOUS
      <4>2. \A z \in used : z < a
        BY <1>1, <2>1, <2>6, <4>1
      <4>3. m_domain[a] = a
        BY <2>1, <4>2 DEF Intact
      <4> QED BY <2>1, <3>1, <4>1, <4>3
    <3> QED BY <2>3, <3>1, <3>2, <3>3
  <2>7. elements' \subseteq used'
    BY <1>1
  <2> QED BY <1>1, <2>3, <2>4, <2>5, <2>6, <2>7 DEF Intact
<1> QED BY <1>3, <1>4

(* erase: the last element takes the place of x.                           *)
LEMMA EraseKeeps ==
  ASSUME Intact, NEW x \in 0 .. m_max, erase(x) PROVE Intact'
<1>1. /\ m_max \in Nat /\ m_size \in 0 .. m_max + 1
      /\ elements \subseteq used /\ used \subseteq 0 .. m_max
      /\ m_max \in 0 .. MaxElement
      /\ m_max' = m_max /\ elements' = elements \ {x} /\ used' = used
  <2>1. m_max \in 0 .. MaxElement
    BY DEF Intact, SetTypeOK
  <2> QED BY <2>1, EachElement DEF erase
<1>2. \A i \in 0 .. m_max : /\ m_domain[i] \in 0 .. m_max /\ m_map[i] \in 0 .. m_max
                            /\ m_map[m_domain[i]] = i /\ m_domain[m_map[i]] = i
                            /\ (i \in elements <=> m_map[i] < m_size)
  BY DEF Intact, SetTypeOK
<1>3. CASE ~ contains(x)
  <2>1. x \notin elements /\ m_domain' = m_domain /\ m_map' = m_map /\ m_size' = m_size
    BY <1>2, <1>3 DEF erase, contains
  <2>2. elements' = elements
    BY <1>1, <2>1
  <2> QED BY <1>1, <2>1, <2>2 DEF Intact, SetTypeOK
<1>4. CASE contains(x)
  <2> DEFINE a == m_map[x]
             b == m_size - 1
             y == m_domain[b]
  <2>1. /\ m_size' = m_size - 1 /\ Exchange(x, b)
        /\ a \in 0 .. m_max /\ a < m_size /\ x \in elements
        /\ b \in 0 .. m_max
    BY <1>1, <1>2, <1>4 DEF erase, Retire, contains
  <2>2. SetTypeOK /\ Inverses
    BY DEF Intact, Inverses
  <2>3. /\ m_domain' \in [0 .. m_max -> 0 .. m_max]
        /\ m_map' \in [0 .. m_max -> 0 .. m_max]
        /\ \A i \in 0 .. m_max : m_map'[m_domain'[i]] = i /\ m_domain'[m_map'[i]] = i
        /\ m_map'[x] = b
        /\ y # x => m_map'[y] = a
        /\ \A z \in 0 .. m_max : z # x /\ z # y => m_map'[z] = m_map[z]
        /\ \A i \in 0 .. m_max : i # a /\ i # b => m_domain'[i] = m_domain[i]
    BY <2>1, <2>2, ExchangeMoves
  <2>4. SetTypeOK'
    <3>1. m_size' \in 0 .. m_max' + 1 /\ elements' \subseteq 0 .. m_max' /\ used' \subseteq 0 .. m_max'
      BY <1>1, <2>1
    <3>2. /\ m_domain' \in [0 .. m_max' -> 0 .. m_max']
          /\ m_map' \in [0 .. m_max' -> 0 .. m_max']
      BY <1>1, <2>3
    <3> QED BY <1>1, <3>1, <3>2 DEF SetTypeOK
  <2>5. ASSUME NEW z \in 0 .. m_max
        PROVE  z \in elements' <=> m_map'[z] < m_size'
    <3>1. CASE z = x
      BY <1>1, <2>1, <2>3, <3>1
    <3>2. CASE z # x /\ z = y
      <4>1. m_map[y] = b /\ a # b
        BY <1>2, <2>1, <3>2
      <4>2. m_map'[z] = a /\ m_map[z] < m_size
        BY <1>1, <2>3, <3>2, <4>1
      <4>3. z \in elements'
        BY <1>1, <1>2, <3>2, <4>2
      <4>4. a < m_size - 1
        BY <1>1, <2>1, <4>1
      <4> QED BY <2>1, <4>2, <4>3, <4>4
    <3>3. CASE z # x /\ z # y
      <4>1. m_map[z] # b
        BY <1>2, <3>3
      <4>2. m_map'[z] = m_map[z] /\ (z \in elements' <=> m_map[z] < m_size)
        BY <1>1, <1>2, <2>3, <3>3
      <4>3. m_map[z] < m_size <=> m_map[z] < m_size - 1
        BY <1>1, <1>2, <4>1
      <4> QED BY <2>1, <4>2, <4>3
    <3> QED BY <3>1, <3>2, <3>3
  <2>6. ASSUME NEW i \in 0 .. m_max, \A z \in used' : z < i
        PROVE  m_domain'[i] = i
    <3>1. x < i /\ m_domain[i] = i /\ m_domain[a] = x
      BY <1>1, <1>2, <2>1, <2>6 DEF Intact
    <3>2. y \in elements
      BY <1>1, <1>2, <2>1
    <3>3. y < i /\ i # b
      <4>1. y \in used'
        BY <1>1, <3>2
      <4>2. y < i
        BY <2>6, <4>1
      <4> QED BY <1>1, <3>1, <3>2, <4>2
    <3>4. i # a
      BY <3>1
    <3> QED BY <2>3, <3>1, <3>3, <3>4
  <2>7. elements' \subseteq used'
    BY <1>1
  <2> QED BY <1>1, <2>3, <2>4, <2>5, <2>6, <2>7 DEF Intact
<1> QED BY <1>3, <1>4

(* A set that is cut stays so until its reset.                             *)
LEMMA CutStays ==
  ASSUME SetIInv, [SetNext]_setVars, ~ cut'
  PROVE  ~ cut \/ \E max \in 0 .. MaxElement : reset(max)
<1>1. cut \in BOOLEAN
  BY DEF SetIInv
<1>2. CASE UNCHANGED setVars
  BY <1>2 DEF setVars
<1>3. ASSUME NEW max \in 0 .. MaxElement, extend(max) \/ shrink(max) PROVE ~ cut
  BY <1>1, <1>3 DEF extend, shrink
<1>4. CASE clear
  BY <1>4 DEF clear
<1>5. ASSUME NEW x \in 0 .. m_max, insert(x) \/ erase(x) PROVE ~ cut
  BY <1>5 DEF insert, erase
<1> QED BY <1>2, <1>3, <1>4, <1>5 DEF SetNext

(* Every call of the class keeps a set that it does not cut in order.      *)
LEMMA SetStep == SetIInv /\ [SetNext]_setVars => SetIInv'
<1> SUFFICES ASSUME SetIInv, [SetNext]_setVars PROVE SetIInv'
  OBVIOUS
<1>1. cut' \in BOOLEAN
  <2>1. cut \in BOOLEAN
    BY DEF SetIInv
  <2>2. ASSUME NEW max \in 0 .. MaxElement, reset(max) \/ extend(max) \/ shrink(max)
        PROVE  cut' \in BOOLEAN
    BY <2>1, <2>2 DEF reset, extend, shrink
  <2>3. ASSUME NEW x \in 0 .. m_max, insert(x) \/ erase(x) PROVE cut' = cut
    BY <2>3 DEF insert, erase
  <2>4. clear \/ UNCHANGED setVars => cut' = cut
    BY DEF clear, setVars
  <2> QED BY <2>1, <2>2, <2>3, <2>4 DEF SetNext
<1>2. ASSUME ~ cut' PROVE Intact'
  <2>1. CASE \E max \in 0 .. MaxElement : reset(max)
    BY <2>1, ResetKeeps
  <2>2. CASE ~ cut
    <3>1. Intact
      BY <2>2 DEF SetIInv
    <3>2. CASE UNCHANGED setVars
      BY <3>1, <3>2 DEF setVars, Intact, SetTypeOK
    <3>3. ASSUME NEW max \in 0 .. MaxElement, reset(max) \/ extend(max) \/ shrink(max)
          PROVE  Intact'
      <4>1. ASSUME shrink(max) PROVE \A x \in used : x <= max
        <5>1. \A x \in used : ~ (x > max)
          BY <1>2, <4>1 DEF shrink
        <5>2. max \in Int /\ \A x \in used : x \in Int
          BY <3>1, EachElement
        <5> QED BY <5>1, <5>2
      <4> QED BY <3>1, <3>3, <4>1, ResetKeeps, ExtendKeeps, ShrinkKeeps
    <3>4. CASE clear
      BY <3>1, <3>4, ClearKeeps
    <3>5. ASSUME NEW x \in 0 .. m_max, insert(x) \/ erase(x) PROVE Intact'
      BY <3>1, <3>5, InsertKeeps, EraseKeeps
    <3> QED BY <3>2, <3>3, <3>4, <3>5 DEF SetNext
  <2> QED BY <1>2, <2>1, <2>2, CutStays
<1> QED BY <1>1, <1>2 DEF SetIInv

(* For every size and any calls of which no shrink goes below a number     *)
(* that has been in the set since its last reset, m_map stays the inverse  *)
(* of m_domain and the first m_size places are the elements: what insert,  *)
(* erase and shrink of sparseset.hpp rely on.                              *)
THEOREM SetInvariant == SetSpec => []SetIInv
<1>1. SetInit => SetIInv
  BY InitSet DEF SetIInv, SetInit
<1> QED BY <1>1, SetStep, PTL DEF SetSpec

(* Under the same exception the class is a set: contains and the iterator  *)
(* agree with the calls, and the iterator meets no element twice, which    *)
(* MemoryTable::sync needs when it registers what has been added.          *)
THEOREM SparseSetIsSet == SetSpec => []IsSet
<1>1. SetIInv => IsSet
  <2> SUFFICES ASSUME Intact
               PROVE  /\ \A x \in 0 .. m_max : contains(x) <=> x \in elements
                      /\ iterated = elements
                      /\ \A i, j \in 0 .. m_size - 1 : m_domain[i] = m_domain[j] => i = j
    BY DEF SetIInv, IsSet
  <2>1. /\ m_max \in Nat /\ m_size \in 0 .. m_max + 1
        /\ elements \subseteq 0 .. m_max
        /\ \A i \in 0 .. m_max : /\ m_domain[i] \in 0 .. m_max /\ m_map[i] \in 0 .. m_max
                                 /\ m_map[m_domain[i]] = i /\ m_domain[m_map[i]] = i
                                 /\ (i \in elements <=> m_map[i] < m_size)
    BY EachElement
  <2>2. \A x \in 0 .. m_max : contains(x) <=> x \in elements
    BY <2>1 DEF contains
  <2>3. iterated = elements
    <3>1. \A i \in 0 .. m_size - 1 : i \in 0 .. m_max /\ m_domain[i] \in elements
      BY <2>1
    <3>2. \A x \in elements : m_map[x] \in 0 .. m_size - 1 /\ m_domain[m_map[x]] = x
      BY <2>1
    <3> QED BY <3>1, <3>2 DEF iterated
  <2>4. \A i, j \in 0 .. m_size - 1 : m_domain[i] = m_domain[j] => i = j
    BY <2>1
  <2> QED BY <2>2, <2>3, <2>4
<1> QED BY <1>1, SetInvariant, PTL

----------------------------------------------------------------------------
(* The sparse exchange *)

Phases == {"ready", "sending", "draining", "returned", "separating", "failed"}
Sends  == [msg : Messages, sent : Int, pending : BOOLEAN]

(* Where each process is, the sends in its arrays, and whose the chunks on *)
(* their way are.                                                          *)
ExchangeTypeOK ==
  /\ nbx \in [Procs -> Phases]
  /\ exchange \in [Procs -> Nat \ {0}]
  /\ sends \in [Procs -> SUBSET Sends]
  /\ calls \in [Procs -> Seq([op : {"ibarrier", "barrier"}])]
  /\ \A c \in inFlight \cup matched : c.src \in Procs

(* A process has entered two barriers for each exchange behind it, and one *)
(* of this exchange when its own sends are done, not before.               *)
PhaseCalls ==
  \A p \in Procs :
    /\ nbx[p] \in {"ready", "sending"} => Len(calls[p]) = 2 * exchange[p] - 2
    /\ nbx[p] \in {"draining", "returned"} => Len(calls[p]) = 2 * exchange[p] - 1
    /\ nbx[p] = "separating" => Len(calls[p]) = 2 * exchange[p]
    /\ nbx[p] = "failed" => Len(calls[p]) \in {2 * exchange[p] - 2, 2 * exchange[p] - 1}
    /\ sends[p] # {} => /\ nbx[p] \in {"sending", "failed"}
                        /\ Len(calls[p]) = 2 * exchange[p] - 2

(* Nobody is an exchange ahead, and whoever has returned knows that all    *)
(* have entered the barrier of this exchange.                              *)
Together ==
  \A p, q \in Procs :
    /\ Len(calls[q]) >= 2 * exchange[p] - 2
    /\ nbx[p] \in {"returned", "separating"} => Len(calls[q]) >= 2 * exchange[p] - 1

(* A chunk that is travelling, or received without the sender knowing, is  *)
(* the only one of its message, and its send is pending.                   *)
OnePending ==
  /\ \A c \in inFlight \cup matched : \E s \in sends[c.src] : s.pending /\ s.msg = c.msg
  /\ \A c, d \in inFlight \cup matched : c.src = d.src /\ c.msg = d.msg => c = d
  /\ inFlight \cap matched = {}
  /\ \A p \in Procs : \A s, t \in sends[p] : s.msg = t.msg => s = t

ExchangeIInv == ExchangeTypeOK /\ PhaseCalls /\ Together /\ OnePending

----------------------------------------------------------------------------
(* Chunks *)

(* Continuing a send, as isend and the loop of mpilib.cpp do, keeps its    *)
(* message, and makes it pending exactly when there is a next chunk.       *)
LEMMA ContinueSend ==
  ASSUME NEW s \in Sends
  PROVE  /\ Next_n(s) \in Int
         /\ Continue(s) \in Sends
         /\ Continue(s).msg = s.msg
         /\ Continue(s).pending = (Next_n(s) > 0)
<1>1. s.sent \in Int /\ s.msg.size \in Nat /\ MaxMsgSize \in Nat
  BY ExchangeAssumption DEF Sends, Messages
<1>2. Next_n(s) \in Int
  BY <1>1 DEF Next_n, Min2
<1>3. (Next_n(s) > 0) \in BOOLEAN
  BY <1>2
<1>4. s.sent + Next_n(s) \in Int
  BY <1>1, <1>2
<1> DEFINE u == s.sent + Next_n(s)
           b == Next_n(s) > 0
<1>5. Continue(s) = [s EXCEPT !.sent = u, !.pending = b]
  BY DEF Continue
<1>6. s \in [msg : Messages, sent : Int, pending : BOOLEAN] /\ u \in Int /\ b \in BOOLEAN
  BY <1>3, <1>4 DEF Sends
<1> HIDE DEF u, b
<1>7. /\ Continue(s) \in Sends
      /\ Continue(s).msg = s.msg
      /\ Continue(s).pending = b
  BY <1>5, <1>6 DEF Sends
<1> QED BY <1>2, <1>7 DEF b

(* What testing the sends of a process leaves of one of them.              *)
LEMMA TestedSend ==
  ASSUME NEW ready, NEW s \in Sends
  PROVE  /\ Tested(ready, s) \in Sends
         /\ Tested(ready, s).msg = s.msg
         /\ s \notin ready => Tested(ready, s) = s
         /\ s \in ready => Tested(ready, s).pending = (Next_n(s) > 0)
<1> DEFINE t == [s EXCEPT !.pending = FALSE]
<1>1. t \in Sends /\ t.msg = s.msg /\ t.sent = s.sent
  BY DEF Sends
<1>2. Next_n(t) = Next_n(s)
  BY <1>1 DEF Next_n
<1>3. /\ Continue(t) \in Sends
      /\ Continue(t).msg = t.msg
      /\ Continue(t).pending = (Next_n(t) > 0)
  BY <1>1, ContinueSend
<1>4. CASE s \in ready
  <2>1. Tested(ready, s) = Continue(t)
    BY <1>4 DEF Tested
  <2> QED BY <1>1, <1>2, <1>3, <1>4, <2>1
<1>5. CASE s \notin ready
  <2>1. Tested(ready, s) = s
    BY <1>5 DEF Tested
  <2> QED BY <1>5, <2>1
<1> QED BY <1>4, <1>5

(* The invariant at the start.                                             *)
LEMMA ExchangeStarts == ExchangeInit => ExchangeIInv
<1> SUFFICES ASSUME ExchangeInit PROVE ExchangeIInv
  OBVIOUS
<1>1. /\ \A p \in Procs : nbx[p] = "ready" /\ exchange[p] = 1 /\ sends[p] = {}
                          /\ calls[p] = << >> /\ Len(calls[p]) = 0
      /\ inFlight = {} /\ matched = {}
  BY DEF ExchangeInit
<1>2. ExchangeTypeOK
  BY <1>1 DEF ExchangeInit, ExchangeTypeOK, Phases
<1>3. PhaseCalls /\ Together
  BY <1>1 DEF PhaseCalls, Together
<1>4. OnePending
  BY <1>1 DEF OnePending
<1> QED BY <1>2, <1>3, <1>4 DEF ExchangeIInv

(* The call adds the first chunk of every message of its list; before it   *)
(* nothing of this process was on its way.                                 *)
LEMMA CallKeeps ==
  ASSUME ExchangeIInv, NEW p \in Procs, allToAll(p) PROVE ExchangeIInv'
<1> DEFINE fresh(list) == {[msg |-> m, sent |-> 0, pending |-> FALSE] : m \in list}
<1>1. PICK list \in SendLists[p] :
        /\ sends' = [sends EXCEPT ![p] = {Continue(s) : s \in fresh(list)}]
        /\ inFlight' = inFlight \cup Continued(p, fresh(list))
  BY DEF allToAll
<1>2. /\ nbx[p] = "ready" /\ nbx' = [nbx EXCEPT ![p] = "sending"]
      /\ exchange' = exchange /\ matched' = matched /\ calls' = calls
  BY DEF allToAll
<1>3. /\ nbx \in [Procs -> Phases] /\ exchange \in [Procs -> Nat \ {0}]
      /\ sends \in [Procs -> SUBSET Sends]
      /\ calls \in [Procs -> Seq([op : {"ibarrier", "barrier"}])]
      /\ \A c \in inFlight \cup matched : c.src \in Procs
  BY DEF ExchangeIInv, ExchangeTypeOK
<1>4. list \subseteq Messages
  BY ExchangeAssumption
<1>5. \A s \in fresh(list) : s \in Sends /\ s.msg \in list /\ s.sent = 0
  <2>1. \A m \in list : [msg |-> m, sent |-> 0, pending |-> FALSE] \in Sends
    BY <1>4 DEF Sends
  <2> QED BY <2>1
<1>6. sends[p] = {}
  BY <1>2 DEF ExchangeIInv, PhaseCalls
<1>7. \A c \in inFlight \cup matched : c.src # p
  BY <1>6 DEF ExchangeIInv, OnePending
<1>8. \A q \in Procs : q # p => sends'[q] = sends[q] /\ nbx'[q] = nbx[q]
  BY <1>1, <1>2, <1>3
<1>9. sends'[p] = {Continue(s) : s \in fresh(list)} /\ nbx'[p] = "sending"
  BY <1>1, <1>2, <1>3
<1>10. \A c \in Continued(p, fresh(list)) :
         /\ c.src = p
         /\ \E s \in fresh(list) : c = Chunk(p, s) /\ c.msg = s.msg /\ Next_n(s) > 0
  BY DEF Continued, Chunk
<1>11. \A s, t \in fresh(list) : s.msg = t.msg => s = t
  <2>1. \A s \in fresh(list) : s = [msg |-> s.msg, sent |-> 0, pending |-> FALSE]
    OBVIOUS
  <2> QED BY <2>1
<1> HIDE DEF fresh
<1>12. ExchangeTypeOK'
  <2>1. sends' \in [Procs -> SUBSET Sends]
    BY <1>1, <1>3, <1>5, ContinueSend
  <2>2. nbx' \in [Procs -> Phases]
    BY <1>2, <1>3 DEF Phases
  <2>3. \A c \in inFlight' \cup matched' : c.src \in Procs
    BY <1>1, <1>2, <1>3, <1>10
  <2> QED BY <1>2, <1>3, <2>1, <2>2, <2>3 DEF ExchangeTypeOK
<1>13. PhaseCalls'
  BY <1>2, <1>8, <1>9 DEF ExchangeIInv, PhaseCalls
<1>14. Together'
  BY <1>2, <1>8, <1>9 DEF ExchangeIInv, Together
<1>15. OnePending'
  <2>1. ASSUME NEW c \in inFlight' \cup matched'
        PROVE  \E s \in sends'[c.src] : s.pending /\ s.msg = c.msg
    <3>1. CASE c \in inFlight \cup matched
      BY <1>3, <1>7, <1>8, <3>1 DEF ExchangeIInv, OnePending
    <3>2. CASE c \in Continued(p, fresh(list))
      <4>1. PICK s \in fresh(list) : c.src = p /\ c.msg = s.msg /\ Next_n(s) > 0
        BY <1>10, <3>2
      <4>2. Continue(s).pending /\ Continue(s).msg = c.msg
        BY <1>5, <4>1, ContinueSend
      <4> QED BY <1>9, <4>1, <4>2
    <3> QED BY <1>1, <1>2, <3>1, <3>2
  <2>2. ASSUME NEW c \in inFlight' \cup matched', NEW d \in inFlight' \cup matched',
               c.src = d.src, c.msg = d.msg
        PROVE  c = d
    <3>1. CASE c \in inFlight \cup matched
      <4>1. d \in inFlight \cup matched
        BY <1>1, <1>2, <1>7, <1>10, <2>2, <3>1
      <4> QED BY <2>2, <3>1, <4>1 DEF ExchangeIInv, OnePending
    <3>2. CASE c \in Continued(p, fresh(list))
      <4>1. d \in Continued(p, fresh(list))
        BY <1>1, <1>2, <1>7, <1>10, <2>2, <3>2
      <4> QED BY <1>10, <1>11, <2>2, <3>2, <4>1
    <3> QED BY <1>1, <1>2, <3>1, <3>2
  <2>3. inFlight' \cap matched' = {}
    BY <1>1, <1>2, <1>7, <1>10 DEF ExchangeIInv, OnePending
  <2>4. ASSUME NEW q \in Procs, NEW s \in sends'[q], NEW t \in sends'[q], s.msg = t.msg
        PROVE  s = t
    <3>1. CASE q # p
      BY <1>8, <2>4, <3>1 DEF ExchangeIInv, OnePending
    <3>2. CASE q = p
      <4>1. PICK u \in fresh(list), v \in fresh(list) : s = Continue(u) /\ t = Continue(v)
        BY <1>9, <3>2
      <4>2. u.msg = v.msg
        BY <1>5, <2>4, <4>1, ContinueSend
      <4> QED BY <1>11, <4>1, <4>2
    <3> QED BY <3>1, <3>2
  <2> QED BY <2>1, <2>2, <2>3, <2>4 DEF OnePending
<1> QED BY <1>12, <1>13, <1>14, <1>15 DEF ExchangeIInv

(* A chunk that is received stays the only one of its message until its    *)
(* sender has tested it; the exception of a receiver only stops it.        *)
LEMMA ReceiveKeeps ==
  ASSUME ExchangeIInv, NEW p \in Procs, Receive(p) PROVE ExchangeIInv'
<1>1. /\ inFlight' \cup matched' = inFlight \cup matched
      /\ inFlight' \cap matched' = {}
  <2>1. inFlight \cap matched = {}
    BY DEF ExchangeIInv, OnePending
  <2>2. PICK c \in inFlight :
          \/ inFlight' = inFlight \ {c} /\ matched' = matched \cup {c}
          \/ inFlight' = inFlight /\ matched' = matched
    BY DEF Receive
  <2> QED BY <2>1, <2>2
<1>2. /\ nbx' = nbx \/ nbx' = [nbx EXCEPT ![p] = "failed"]
      /\ nbx[p] \in {"sending", "draining"}
      /\ exchange' = exchange /\ sends' = sends /\ calls' = calls
  BY DEF Receive, InLoop
<1>3. /\ nbx \in [Procs -> Phases] /\ exchange \in [Procs -> Nat \ {0}]
      /\ sends \in [Procs -> SUBSET Sends]
      /\ calls \in [Procs -> Seq([op : {"ibarrier", "barrier"}])]
      /\ \A c \in inFlight \cup matched : c.src \in Procs
  BY DEF ExchangeIInv, ExchangeTypeOK
<1>4. /\ \A q \in Procs : q # p => nbx'[q] = nbx[q]
      /\ nbx'[p] \in {nbx[p], "failed"}
  BY <1>2, <1>3
<1>5. ExchangeTypeOK'
  <2>1. nbx' \in [Procs -> Phases]
    BY <1>2, <1>3 DEF Phases
  <2> QED BY <1>1, <1>2, <1>3, <2>1 DEF ExchangeTypeOK
<1>6. PhaseCalls'
  <2>1. ASSUME NEW q \in Procs
        PROVE  /\ nbx'[q] \in {"ready", "sending"} => Len(calls[q]) = 2 * exchange[q] - 2
               /\ nbx'[q] \in {"draining", "returned"} => Len(calls[q]) = 2 * exchange[q] - 1
               /\ nbx'[q] = "separating" => Len(calls[q]) = 2 * exchange[q]
               /\ nbx'[q] = "failed" =>
                    Len(calls[q]) \in {2 * exchange[q] - 2, 2 * exchange[q] - 1}
               /\ sends[q] # {} => /\ nbx'[q] \in {"sending", "failed"}
                                   /\ Len(calls[q]) = 2 * exchange[q] - 2
    BY <1>2, <1>4 DEF ExchangeIInv, PhaseCalls
  <2> QED BY <1>2, <2>1 DEF PhaseCalls
<1>7. Together'
  BY <1>2, <1>4 DEF ExchangeIInv, Together
<1>8. OnePending'
  BY <1>1, <1>2 DEF ExchangeIInv, OnePending
<1> QED BY <1>5, <1>6, <1>7, <1>8 DEF ExchangeIInv

(* Testing the sends of a process: where a chunk has been received the     *)
(* next one takes its place, and the barrier is entered only when nothing  *)
(* of this process is on its way any more.                                 *)
LEMMA TestKeeps ==
  ASSUME ExchangeIInv, NEW p \in Procs, TestSends(p) PROVE ExchangeIInv'
<1> DEFINE left(ready) == {s \in {Tested(ready, u) : u \in sends[p]} : Unfinished(s)}
           gone(ready) == UNION {LastChunkOf(p, s) : s \in ready}
<1>1. PICK ready \in SUBSET {s \in sends[p] : s.pending /\ LastChunkOf(p, s) # {}} :
        /\ sends'    = [sends EXCEPT ![p] = left(ready)]
        /\ inFlight' = inFlight \cup Continued(p, ready)
        /\ matched'  = matched \ gone(ready)
        /\ \/ /\ left(ready) = {}
              /\ calls' = [calls EXCEPT ![p] = Append(@, [op |-> "ibarrier"])]
              /\ nbx' = [nbx EXCEPT ![p] = "draining"]
           \/ /\ left(ready) # {}
              /\ calls' = calls /\ nbx' = nbx
  BY DEF TestSends, Enter
<1>2. nbx[p] = "sending" /\ exchange' = exchange
  BY DEF TestSends
<1>3. /\ nbx \in [Procs -> Phases] /\ exchange \in [Procs -> Nat \ {0}]
      /\ sends \in [Procs -> SUBSET Sends]
      /\ calls \in [Procs -> Seq([op : {"ibarrier", "barrier"}])]
      /\ \A c \in inFlight \cup matched : c.src \in Procs
  BY DEF ExchangeIInv, ExchangeTypeOK
<1>4. Len(calls[p]) = 2 * exchange[p] - 2
  BY <1>2 DEF ExchangeIInv, PhaseCalls
<1>5. /\ \A s \in sends[p] : s \in Sends
      /\ \A s, t \in sends[p] : s.msg = t.msg => s = t
      /\ \A s \in ready : s \in sends[p] /\ LastChunkOf(p, s) # {}
  BY <1>3 DEF ExchangeIInv, OnePending
<1>6. \A s \in left(ready) : \E u \in sends[p] : s = Tested(ready, u) /\ Unfinished(s)
  OBVIOUS
<1>7. \A u \in sends[p] : Unfinished(Tested(ready, u)) => Tested(ready, u) \in left(ready)
  OBVIOUS
<1>8. \A c \in gone(ready) : \E s \in ready : c \in LastChunkOf(p, s)
  OBVIOUS
<1>9. \A s \in ready : \A c \in LastChunkOf(p, s) : c \in gone(ready)
  OBVIOUS
<1>10. \A c \in Continued(p, ready) :
         /\ c.src = p
         /\ \E s \in ready : c = Chunk(p, s) /\ c.msg = s.msg /\ Next_n(s) > 0
  BY DEF Continued, Chunk
<1> HIDE DEF left, gone
<1>11. /\ \A q \in Procs : q # p => sends'[q] = sends[q] /\ nbx'[q] = nbx[q]
                                    /\ calls'[q] = calls[q]
       /\ sends'[p] = left(ready)
  BY <1>1, <1>3
<1>12. \/ /\ left(ready) = {} /\ nbx'[p] = "draining"
          /\ Len(calls'[p]) = 2 * exchange[p] - 1
          /\ calls'[p] \in Seq([op : {"ibarrier", "barrier"}])
       \/ left(ready) # {} /\ nbx'[p] = "sending" /\ calls' = calls
  <2>1. calls[p] \in Seq([op : {"ibarrier", "barrier"}])
    BY <1>3
  <2>2. /\ Len(Append(calls[p], [op |-> "ibarrier"])) = Len(calls[p]) + 1
        /\ Append(calls[p], [op |-> "ibarrier"]) \in Seq([op : {"ibarrier", "barrier"}])
    BY <2>1
  <2>3. CASE left(ready) = {}
    <3>1. calls'[p] = Append(calls[p], [op |-> "ibarrier"]) /\ nbx'[p] = "draining"
      BY <1>1, <1>3, <2>3
    <3> QED BY <1>3, <1>4, <2>2, <2>3, <3>1
  <2>4. CASE left(ready) # {}
    BY <1>1, <1>2, <2>4
  <2> QED BY <2>3, <2>4
\* A chunk of this process whose send is done has made room for the next.
<1>13. ASSUME NEW c \in inFlight \cup (matched \ gone(ready)), NEW s \in ready,
              c.src = p, c.msg = s.msg
       PROVE  FALSE
  <2>1. PICK d \in matched : d.src = p /\ d.msg = s.msg /\ d \in gone(ready)
    BY <1>5, <1>9 DEF LastChunkOf
  <2>2. c = d
    BY <1>13, <2>1 DEF ExchangeIInv, OnePending
  <2> QED BY <1>13, <2>1, <2>2 DEF ExchangeIInv, OnePending
<1>14. ExchangeTypeOK'
  <2>1. left(ready) \subseteq Sends
    BY <1>5, <1>6, TestedSend
  <2>2. sends' \in [Procs -> SUBSET Sends]
    BY <1>1, <1>3, <2>1
  <2>3. nbx' \in [Procs -> Phases]
    BY <1>1, <1>3 DEF Phases
  <2>4. \A c \in inFlight' \cup matched' : c.src \in Procs
    BY <1>1, <1>3, <1>10
  <2>5. calls' \in [Procs -> Seq([op : {"ibarrier", "barrier"}])]
    <3>1. CASE calls' = calls
      BY <1>3, <3>1
    <3>2. CASE calls' # calls
      <4>1. calls' = [calls EXCEPT ![p] = calls'[p]]
        BY <1>1, <1>3, <3>2
      <4>2. calls'[p] \in Seq([op : {"ibarrier", "barrier"}])
        BY <1>12, <3>2
      <4> QED BY <1>3, <4>1, <4>2
    <3> QED BY <3>1, <3>2
  <2> QED BY <1>2, <1>3, <2>2, <2>3, <2>4, <2>5 DEF ExchangeTypeOK
<1>15. PhaseCalls'
  <2>1. ASSUME NEW q \in Procs
        PROVE  /\ nbx'[q] \in {"ready", "sending"} => Len(calls'[q]) = 2 * exchange[q] - 2
               /\ nbx'[q] \in {"draining", "returned"} => Len(calls'[q]) = 2 * exchange[q] - 1
               /\ nbx'[q] = "separating" => Len(calls'[q]) = 2 * exchange[q]
               /\ nbx'[q] = "failed" =>
                    Len(calls'[q]) \in {2 * exchange[q] - 2, 2 * exchange[q] - 1}
               /\ sends'[q] # {} => /\ nbx'[q] \in {"sending", "failed"}
                                    /\ Len(calls'[q]) = 2 * exchange[q] - 2
    <3>1. CASE q = p
      BY <1>4, <1>11, <1>12, <3>1
    <3>2. CASE q # p
      BY <1>11, <3>2 DEF ExchangeIInv, PhaseCalls
    <3> QED BY <3>1, <3>2
  <2> QED BY <1>2, <2>1 DEF PhaseCalls
<1>16. Together'
  <2>1. \A q \in Procs : Len(calls'[q]) >= Len(calls[q])
    <3>1. \A q \in Procs : Len(calls[q]) \in Nat
      BY <1>3
    <3>2. Len(calls'[p]) >= Len(calls[p])
      BY <1>3, <1>4, <1>12, <3>1
    <3> QED BY <1>11, <3>1, <3>2
  <2>2. \A q \in Procs : nbx'[q] \in {"returned", "separating"} => nbx'[q] = nbx[q]
    BY <1>11, <1>12
  <2>3. \A q \in Procs : Len(calls[q]) \in Nat /\ Len(calls'[q]) \in Nat /\ exchange[q] \in Nat
    <3>1. \A q \in Procs : Len(calls[q]) \in Nat /\ exchange[q] \in Nat
      BY <1>3
    <3>2. Len(calls'[p]) \in Nat
      BY <1>12, <3>1
    <3> QED BY <1>11, <3>1, <3>2
  <2>4. ASSUME NEW q \in Procs, NEW r \in Procs
        PROVE  /\ Len(calls'[r]) >= 2 * exchange[q] - 2
               /\ nbx'[q] \in {"returned", "separating"} =>
                    Len(calls'[r]) >= 2 * exchange[q] - 1
    <3>1. /\ Len(calls[r]) >= 2 * exchange[q] - 2
          /\ nbx[q] \in {"returned", "separating"} => Len(calls[r]) >= 2 * exchange[q] - 1
      BY DEF ExchangeIInv, Together
    <3> QED BY <2>1, <2>2, <2>3, <3>1
  <2> QED BY <1>2, <2>4 DEF Together
<1>17. OnePending'
  <2>1. ASSUME NEW c \in inFlight' \cup matched'
        PROVE  \E s \in sends'[c.src] : s.pending /\ s.msg = c.msg
    <3>1. CASE c \in inFlight \cup (matched \ gone(ready))
      <4>1. PICK s \in sends[c.src] : s.pending /\ s.msg = c.msg
        BY <3>1 DEF ExchangeIInv, OnePending
      <4>2. CASE c.src # p
        BY <1>3, <1>11, <3>1, <4>1, <4>2
      <4>3. CASE c.src = p
        <5>1. s \notin ready
          BY <1>13, <3>1, <4>1, <4>3
        <5>2. Tested(ready, s) = s
          BY <1>5, <4>1, <4>3, <5>1, TestedSend
        <5>3. s \in left(ready)
          BY <1>7, <4>1, <4>3, <5>2 DEF Unfinished
        <5> QED BY <1>11, <4>1, <4>3, <5>3
      <4> QED BY <4>2, <4>3
    <3>2. CASE c \in Continued(p, ready)
      <4>1. PICK s \in ready : c.src = p /\ c.msg = s.msg /\ Next_n(s) > 0
        BY <1>10, <3>2
      <4>2. Tested(ready, s).pending /\ Tested(ready, s).msg = c.msg
        BY <1>5, <4>1, TestedSend
      <4>3. Tested(ready, s) \in left(ready)
        BY <1>5, <1>7, <4>1, <4>2 DEF Unfinished
      <4> QED BY <1>11, <4>1, <4>2, <4>3
    <3> QED BY <1>1, <3>1, <3>2
  <2>2. ASSUME NEW c \in inFlight' \cup matched', NEW d \in inFlight' \cup matched',
               c.src = d.src, c.msg = d.msg
        PROVE  c = d
    <3>1. CASE c \in inFlight \cup (matched \ gone(ready))
      <4>1. d \in inFlight \cup matched
        BY <1>1, <1>10, <1>13, <2>2, <3>1
      <4> QED BY <2>2, <3>1, <4>1 DEF ExchangeIInv, OnePending
    <3>2. CASE c \in Continued(p, ready)
      <4>1. d \in Continued(p, ready)
        BY <1>1, <1>10, <1>13, <2>2, <3>2
      <4>2. PICK s \in ready, t \in ready :
              c = Chunk(p, s) /\ c.msg = s.msg /\ d = Chunk(p, t) /\ d.msg = t.msg
        BY <1>10, <3>2, <4>1
      <4>3. s = t
        BY <1>5, <2>2, <4>2
      <4> QED BY <4>2, <4>3
    <3> QED BY <1>1, <3>1, <3>2
  <2>3. ASSUME NEW c \in inFlight', c \in matched' PROVE FALSE
    <3>1. c \in matched \ gone(ready)
      BY <1>1, <2>3
    <3>2. c \notin inFlight
      BY <3>1 DEF ExchangeIInv, OnePending
    <3>3. PICK s \in ready : c.src = p /\ c.msg = s.msg
      BY <1>1, <1>10, <2>3, <3>2
    <3> QED BY <1>13, <3>1, <3>3
  <2>4. ASSUME NEW q \in Procs, NEW s \in sends'[q], NEW t \in sends'[q], s.msg = t.msg
        PROVE  s = t
    <3>1. CASE q # p
      BY <1>11, <2>4, <3>1 DEF ExchangeIInv, OnePending
    <3>2. CASE q = p
      <4>1. PICK u \in sends[p], v \in sends[p] : s = Tested(ready, u) /\ t = Tested(ready, v)
        BY <1>6, <1>11, <3>2
      <4>2. u.msg = v.msg
        BY <1>5, <2>4, <4>1, TestedSend
      <4> QED BY <1>5, <4>1, <4>2
    <3> QED BY <3>1, <3>2
  <2> QED BY <2>1, <2>2, <2>3, <2>4 DEF OnePending
<1> QED BY <1>14, <1>15, <1>16, <1>17 DEF ExchangeIInv

(* The call returns when everybody has entered the barrier of its exchange. *)
LEMMA ReturnKeeps ==
  ASSUME ExchangeIInv, NEW p \in Procs, TestBarrier(p) PROVE ExchangeIInv'
<1>1. /\ nbx[p] = "draining" /\ nbx' = [nbx EXCEPT ![p] = "returned"]
      /\ \A q \in Procs : Len(calls[p]) <= Len(calls[q])
      /\ exchange' = exchange /\ sends' = sends /\ calls' = calls
      /\ inFlight' = inFlight /\ matched' = matched
  BY DEF TestBarrier, Completed, LastCall
<1>2. nbx \in [Procs -> Phases]
  BY DEF ExchangeIInv, ExchangeTypeOK
<1>3. /\ \A q \in Procs : q # p => nbx'[q] = nbx[q]
      /\ nbx'[p] = "returned"
  BY <1>1, <1>2
<1>4. ExchangeTypeOK'
  BY <1>1 DEF ExchangeIInv, ExchangeTypeOK, Phases
<1>5. PhaseCalls'
  BY <1>1, <1>3 DEF ExchangeIInv, PhaseCalls
<1>6. Together'
  <2>1. Len(calls[p]) = 2 * exchange[p] - 1
    BY <1>1 DEF ExchangeIInv, PhaseCalls
  <2>2. \A q \in Procs : Len(calls[q]) >= 2 * exchange[p] - 1
    <3>1. \A q \in Procs : Len(calls[q]) \in Nat /\ exchange[q] \in Nat
      BY DEF ExchangeIInv, ExchangeTypeOK
    <3> QED BY <1>1, <2>1, <3>1
  <2> QED BY <1>1, <1>3, <2>2 DEF ExchangeIInv, Together
<1>7. OnePending'
  BY <1>1 DEF ExchangeIInv, OnePending
<1> QED BY <1>4, <1>5, <1>6, <1>7 DEF ExchangeIInv

(* The caller enters the barrier that separates its exchanges.             *)
LEMMA EnterKeeps ==
  ASSUME ExchangeIInv, NEW p \in Procs, CallerEnters(p) PROVE ExchangeIInv'
<1>1. /\ nbx[p] = "returned" /\ nbx' = [nbx EXCEPT ![p] = "separating"]
      /\ calls' = [calls EXCEPT ![p] = Append(@, [op |-> "barrier"])]
      /\ exchange' = exchange /\ sends' = sends
      /\ inFlight' = inFlight /\ matched' = matched
  BY DEF CallerEnters, Enter
<1>2. /\ nbx \in [Procs -> Phases] /\ exchange \in [Procs -> Nat \ {0}]
      /\ calls \in [Procs -> Seq([op : {"ibarrier", "barrier"}])]
  BY DEF ExchangeIInv, ExchangeTypeOK
<1>3. /\ Len(Append(calls[p], [op |-> "barrier"])) = Len(calls[p]) + 1
      /\ Append(calls[p], [op |-> "barrier"]) \in Seq([op : {"ibarrier", "barrier"}])
  <2>1. calls[p] \in Seq([op : {"ibarrier", "barrier"}])
    BY <1>2
  <2> QED BY <2>1
<1>4. /\ \A q \in Procs : q # p => nbx'[q] = nbx[q] /\ calls'[q] = calls[q]
      /\ nbx'[p] = "separating" /\ Len(calls'[p]) = Len(calls[p]) + 1
  BY <1>1, <1>2, <1>3
<1>5. \A q \in Procs : Len(calls[q]) \in Nat /\ exchange[q] \in Nat
  BY <1>2
<1>6. Len(calls[p]) = 2 * exchange[p] - 1
  BY <1>1 DEF ExchangeIInv, PhaseCalls
<1>7. ExchangeTypeOK'
  <2>1. calls' \in [Procs -> Seq([op : {"ibarrier", "barrier"}])]
    BY <1>1, <1>2, <1>3
  <2> QED BY <1>1, <2>1 DEF ExchangeIInv, ExchangeTypeOK, Phases
<1>8. PhaseCalls'
  <2>1. sends[p] = {}
    BY <1>1 DEF ExchangeIInv, PhaseCalls
  <2>2. ASSUME NEW q \in Procs
        PROVE  /\ nbx'[q] \in {"ready", "sending"} => Len(calls'[q]) = 2 * exchange[q] - 2
               /\ nbx'[q] \in {"draining", "returned"} => Len(calls'[q]) = 2 * exchange[q] - 1
               /\ nbx'[q] = "separating" => Len(calls'[q]) = 2 * exchange[q]
               /\ nbx'[q] = "failed" =>
                    Len(calls'[q]) \in {2 * exchange[q] - 2, 2 * exchange[q] - 1}
               /\ sends[q] # {} => /\ nbx'[q] \in {"sending", "failed"}
                                   /\ Len(calls'[q]) = 2 * exchange[q] - 2
    <3>1. CASE q = p
      BY <1>4, <1>5, <1>6, <2>1, <3>1
    <3>2. CASE q # p
      BY <1>4, <3>2 DEF ExchangeIInv, PhaseCalls
    <3> QED BY <3>1, <3>2
  <2> QED BY <1>1, <2>2 DEF PhaseCalls
<1>9. Together'
  <2>1. \A q \in Procs : Len(calls'[q]) \in Nat /\ Len(calls'[q]) >= Len(calls[q])
    BY <1>4, <1>5
  <2>2. \A q \in Procs : nbx'[q] \in {"returned", "separating"} =>
                         nbx[q] \in {"returned", "separating"}
    BY <1>1, <1>4
  <2> QED BY <1>1, <1>5, <2>1, <2>2 DEF ExchangeIInv, Together
<1>10. OnePending'
  BY <1>1 DEF ExchangeIInv, OnePending
<1> QED BY <1>7, <1>8, <1>9, <1>10 DEF ExchangeIInv

(* The caller leaves it when everybody has entered, for the next exchange. *)
LEMMA LeaveKeeps ==
  ASSUME ExchangeIInv, NEW p \in Procs, CallerLeaves(p) PROVE ExchangeIInv'
<1>1. /\ nbx[p] = "separating" /\ nbx' = [nbx EXCEPT ![p] = "ready"]
      /\ \A q \in Procs : Len(calls[p]) <= Len(calls[q])
      /\ exchange' = [exchange EXCEPT ![p] = @ + 1]
      /\ sends' = sends /\ calls' = calls
      /\ inFlight' = inFlight /\ matched' = matched
  BY DEF CallerLeaves, Completed, LastCall
<1>2. /\ nbx \in [Procs -> Phases] /\ exchange \in [Procs -> Nat \ {0}]
      /\ \A q \in Procs : Len(calls[q]) \in Nat
  BY DEF ExchangeIInv, ExchangeTypeOK
<1>3. /\ \A q \in Procs : q # p => nbx'[q] = nbx[q] /\ exchange'[q] = exchange[q]
      /\ nbx'[p] = "ready" /\ exchange'[p] = exchange[p] + 1
      /\ exchange[p] \in Nat /\ exchange' \in [Procs -> Nat \ {0}]
  BY <1>1, <1>2
<1>4. Len(calls[p]) = 2 * exchange[p]
  BY <1>1 DEF ExchangeIInv, PhaseCalls
<1>5. ExchangeTypeOK'
  BY <1>1, <1>3 DEF ExchangeIInv, ExchangeTypeOK, Phases
<1>6. PhaseCalls'
  <2>1. sends[p] = {}
    BY <1>1 DEF ExchangeIInv, PhaseCalls
  <2>2. Len(calls[p]) = 2 * exchange'[p] - 2
    BY <1>3, <1>4
  <2> QED BY <1>1, <1>3, <2>1, <2>2 DEF ExchangeIInv, PhaseCalls
<1>7. Together'
  <2>1. \A q \in Procs : Len(calls[q]) >= 2 * exchange'[p] - 2
    BY <1>1, <1>2, <1>3, <1>4
  <2> QED BY <1>1, <1>3, <2>1 DEF ExchangeIInv, Together
<1>8. OnePending'
  BY <1>1 DEF ExchangeIInv, OnePending
<1> QED BY <1>5, <1>6, <1>7, <1>8 DEF ExchangeIInv

(* Every step of a process in allToAll or between two calls of it keeps    *)
(* the invariant.                                                          *)
LEMMA ExchangeStep == ExchangeIInv /\ [ExchangeNext]_exchangeVars => ExchangeIInv'
<1> SUFFICES ASSUME ExchangeIInv, [ExchangeNext]_exchangeVars PROVE ExchangeIInv'
  OBVIOUS
<1>1. CASE UNCHANGED exchangeVars
  <2>1. /\ nbx' = nbx /\ exchange' = exchange /\ sends' = sends /\ calls' = calls
        /\ inFlight' = inFlight /\ matched' = matched
    BY <1>1 DEF exchangeVars
  <2>2. ExchangeTypeOK' /\ PhaseCalls'
    BY <2>1 DEF ExchangeIInv, ExchangeTypeOK, PhaseCalls
  <2>3. Together' /\ OnePending'
    BY <2>1 DEF ExchangeIInv, Together, OnePending
  <2> QED BY <2>2, <2>3 DEF ExchangeIInv
<1>2. ASSUME NEW p \in Procs, Progress(p) PROVE ExchangeIInv'
  BY <1>2, CallKeeps, TestKeeps, ReturnKeeps, EnterKeeps, LeaveKeeps DEF Progress
<1>3. ASSUME NEW p \in Procs, Receive(p) PROVE ExchangeIInv'
  BY <1>3, ReceiveKeeps
<1> QED BY <1>1, <1>2, <1>3 DEF ExchangeNext

(* In every exchange of mpilib.cpp's allToAll, barriers are entered only   *)
(* by processes that have nothing on its way, and nobody is an exchange    *)
(* ahead of another process.                                               *)
THEOREM ExchangeInvariant == ExchangeSpec => []ExchangeIInv
<1> QED BY ExchangeStarts, ExchangeStep, PTL DEF ExchangeSpec

(* What makes it right to leave the loop of NBX by looking at one's own    *)
(* sends and the barrier: when allToAll returns anywhere, nothing of the   *)
(* exchange is travelling and nobody is sending.                           *)
THEOREM QuietWhenReturning == ExchangeSpec => []QuietOnReturn
<1>1. ExchangeIInv => QuietOnReturn
  <2> SUFFICES ASSUME ExchangeIInv, NEW p \in Procs, nbx[p] = "returned"
               PROVE  /\ inFlight = {}
                      /\ \A q \in Procs : nbx[q] \notin {"ready", "sending"}
    BY DEF QuietOnReturn
  <2>1. /\ Len(calls[p]) = 2 * exchange[p] - 1
        /\ \A q \in Procs : /\ Len(calls[q]) >= 2 * exchange[p] - 1
                            /\ Len(calls[p]) >= 2 * exchange[q] - 2
    BY DEF ExchangeIInv, PhaseCalls, Together
  <2>2. \A q \in Procs : exchange[q] \in Nat
    BY DEF ExchangeIInv, ExchangeTypeOK
  \* Whoever has not entered would be an exchange ahead.
  <2>3. \A q \in Procs : Len(calls[q]) # 2 * exchange[q] - 2
    BY <2>1, <2>2
  <2>4. \A q \in Procs : nbx[q] \notin {"ready", "sending"} /\ sends[q] = {}
    BY <2>3 DEF ExchangeIInv, PhaseCalls
  <2>5. \A c \in inFlight : c.src \in Procs /\ sends[c.src] # {}
    BY DEF ExchangeIInv, ExchangeTypeOK, OnePending
  <2> QED BY <2>4, <2>5
<1> QED BY <1>1, ExchangeInvariant, PTL

----------------------------------------------------------------------------
(* What is exchanged *)

Chunks  == [src : Procs, msg : Messages, from : Nat, n : Nat \ {0}, exchange : Nat]
Listens == {"sending", "draining", "returned"}

ChunkTypes ==
  /\ received \in [Procs -> Seq(Chunks)]
  /\ inFlight \cup matched \subseteq Chunks
  /\ asked \in [Procs -> SUBSET Messages]

(* A send knows how far it has come: as far as its chunk that is on its    *)
(* way ends, or to the end of the message.                                 *)
SendsProgress ==
  /\ \A q \in Procs : \A s \in sends[q] :
       /\ s.msg \in asked[q]
       /\ s.sent \in 0 .. s.msg.size
       /\ \/ s.pending /\ \E c \in inFlight \cup matched : c.src = q /\ c.msg = s.msg
          \/ ~ s.pending /\ s.sent = s.msg.size
  /\ \A c \in inFlight \cup matched :
       /\ c.exchange = exchange[c.src]
       /\ c.msg \in asked[c.src]
       /\ \A s \in sends[c.src] : s.msg = c.msg => s.sent = c.from + c.n

(* What a process has received in an exchange is of this exchange.         *)
ReceivedNow ==
  \A p \in Procs : nbx[p] \in Listens =>
    \A i \in DOMAIN received[p] :
      /\ received[p][i].exchange = exchange[p]
      /\ exchange[received[p][i].src] = exchange[p]
      /\ nbx[received[p][i].src] # "ready"
      /\ received[p][i].msg \in asked[received[p][i].src]

(* What p has received in the exchange that it is in or enters next, and   *)
(* whether that is the one for which q has been called.                    *)
Heard(p) == IF nbx[p] \in Listens THEN received[p] ELSE << >>
Paired(p, q) ==
  /\ nbx[q] # "ready"
  /\ \/ exchange[p] = exchange[q] /\ nbx[p] \in Listens \cup {"ready"}
     \/ exchange[p] + 1 = exchange[q] /\ nbx[p] = "separating"

IsOf(c, q, m) == c.src = q /\ c.msg = m

(* What has been received of a message are its first bytes in order: up to *)
(* the chunk that is travelling, behind the one whose sender does not know *)
(* yet, or all.                                                            *)
Delivered(p, q, m) ==
  /\ Successive(Heard(p), From(q, m, Heard(p)))
  /\ \A c \in inFlight : IsOf(c, q, m) => Reach(Heard(p), From(q, m, Heard(p)), c.from)
  /\ \A c \in matched  : IsOf(c, q, m) => Reach(Heard(p), From(q, m, Heard(p)), c.from + c.n)
  /\ \/ \E c \in inFlight \cup matched : IsOf(c, q, m)
     \/ Reach(Heard(p), From(q, m, Heard(p)), m.size)

Delivering ==
  \A p, q \in Procs : \A m \in asked[q] : Paired(p, q) /\ m.dst = p => Delivered(p, q, m)

RoundIInv == ExchangeIInv /\ ChunkTypes /\ SendsProgress /\ ReceivedNow /\ Delivering

(* Receiving a chunk adds its place to those of its message only, and what *)
(* has been received before it stays.                                      *)
LEMMA AppendChunk ==
  ASSUME NEW s \in Seq(Chunks), NEW e \in Chunks, NEW q, NEW m
  PROVE  LET t == Append(s, e)
             I == From(q, m, s)
             J == From(q, m, t) IN
         /\ IsOf(e, q, m) => J = I \cup {Len(s) + 1}
         /\ ~ IsOf(e, q, m) => J = I
         /\ \A n : Reach(s, I, n) <=> Reach(t, I, n)
         /\ Successive(s, I) <=> Successive(t, I)
<1> DEFINE t == Append(s, e)
           I == From(q, m, s)
           J == From(q, m, t)
<1>1. /\ DOMAIN s = 1 .. Len(s) /\ DOMAIN t = 1 .. Len(s) + 1 /\ Len(s) \in Nat
      /\ \A i \in 1 .. Len(s) : t[i] = s[i]
      /\ t[Len(s) + 1] = e
  OBVIOUS
<1>2. I \subseteq 1 .. Len(s)
  BY <1>1 DEF From
<1> HIDE DEF t
<1>3. ASSUME NEW K \in SUBSET I, NEW n
      PROVE  Reach(s, K, n) <=> Reach(t, K, n)
  <2>1. \A i \in K : t[i] = s[i]
    BY <1>1, <1>2
  <2> QED
    BY <2>1 DEF Reach
<1>4. Successive(s, I) <=> Successive(t, I)
  <2>1. \A i \in I : {j \in I : j < i} \in SUBSET I /\ t[i] = s[i]
    BY <1>1, <1>2
  <2> QED
    BY <1>3, <2>1 DEF Successive
<1>5. IsOf(e, q, m) => J = I \cup {Len(s) + 1}
  BY <1>1 DEF From, IsOf
<1>6. ~ IsOf(e, q, m) => J = I
  BY <1>1 DEF From, IsOf
<1> QED
  BY <1>3, <1>4, <1>5, <1>6 DEF t

(* A chunk that starts where the others end is the next one.               *)
LEMMA AppendNext ==
  ASSUME NEW s \in Seq(Chunks), NEW e \in Chunks, NEW q, NEW m, IsOf(e, q, m),
         Successive(s, From(q, m, s)), Reach(s, From(q, m, s), e.from)
  PROVE  /\ Successive(Append(s, e), From(q, m, Append(s, e)))
         /\ Reach(Append(s, e), From(q, m, Append(s, e)), e.from + e.n)
<1> DEFINE t == Append(s, e)
           I == From(q, m, s)
           J == From(q, m, t)
           l == Len(s) + 1
<1>1. /\ DOMAIN s = 1 .. Len(s) /\ Len(s) \in Nat /\ t[l] = e
  OBVIOUS
<1>2. I \subseteq 1 .. Len(s)
  BY <1>1 DEF From
<1>3. J = I \cup {l} /\ Successive(t, I) /\ Reach(t, I, e.from)
  BY AppendChunk
<1> HIDE DEF t, I, J
<1>4. \A j \in J : j <= l
  BY <1>1, <1>2, <1>3
<1>5. Reach(t, J, e.from + e.n)
  BY <1>1, <1>3, <1>4 DEF Reach
<1>6. ASSUME NEW i \in J
      PROVE  Reach(t, {j \in J : j < i}, t[i].from)
  <2>1. CASE i = l
    <3>1. {j \in J : j < i} = I
      <4>1. \A j \in I : j \in J /\ j < i
        BY <1>1, <1>2, <1>3, <2>1
      <4>2. \A j \in J : j < i => j \in I
        BY <1>1, <1>3, <2>1
      <4> HIDE DEF l
      <4> QED
        BY <4>1, <4>2
    <3>2. t[i].from = e.from
      BY <1>1, <2>1
    <3> QED
      BY <1>3, <3>1, <3>2, Zenon
  <2>2. CASE i \in I
    <3>1. {j \in J : j < i} = {j \in I : j < i}
      BY <1>1, <1>2, <1>3, <2>2
    <3> QED
      BY <1>3, <2>2, <3>1 DEF Successive
  <2> QED
    BY <1>3, <2>1, <2>2
<1> QED
  BY <1>5, <1>6 DEF Successive, t, J

(* A step that does not concern a message leaves it as it is.              *)
LEMMA DeliveredFrame ==
  ASSUME NEW p, NEW q, NEW m, Heard(p)' = Heard(p), Delivered(p, q, m),
         \A c : IsOf(c, q, m) => /\ c \in inFlight' <=> c \in inFlight
                                 /\ c \in matched' <=> c \in matched
  PROVE  Delivered(p, q, m)'
<1>1. /\ Successive(Heard(p), From(q, m, Heard(p)))
      /\ \A c \in inFlight : IsOf(c, q, m) => Reach(Heard(p), From(q, m, Heard(p)), c.from)
      /\ \A c \in matched  : IsOf(c, q, m) => Reach(Heard(p), From(q, m, Heard(p)), c.from + c.n)
      /\ \/ \E c \in inFlight \cup matched : IsOf(c, q, m)
         \/ Reach(Heard(p), From(q, m, Heard(p)), m.size)
  BY DEF Delivered
<1>2. /\ Successive(Heard(p)', From(q, m, Heard(p)'))
      /\ \A c \in inFlight' : IsOf(c, q, m) => Reach(Heard(p)', From(q, m, Heard(p)'), c.from)
      /\ \A c \in matched'  : IsOf(c, q, m) => Reach(Heard(p)', From(q, m, Heard(p)'), c.from + c.n)
      /\ \/ \E c \in inFlight' \cup matched' : IsOf(c, q, m)
         \/ Reach(Heard(p)', From(q, m, Heard(p)'), m.size)
  BY <1>1, Zenon
<1> QED
  BY <1>2 DEF Delivered

(* Whose chunk is on its way has not entered the barrier of its exchange,  *)
(* and a process in its loop is in the same exchange.                      *)
LEMMA SenderOfChunk ==
  ASSUME ExchangeIInv, NEW c \in inFlight \cup matched
  PROVE  /\ c.src \in Procs
         /\ nbx[c.src] \in {"sending", "failed"}
         /\ \A p \in Procs : nbx[p] \in Listens =>
              exchange[p] = exchange[c.src] /\ nbx[p] # "returned"
<1> DEFINE q == c.src
<1>1. q \in Procs /\ sends[q] # {}
  BY DEF ExchangeIInv, ExchangeTypeOK, OnePending
<1> HIDE DEF q
<1>2. nbx[q] \in {"sending", "failed"} /\ Len(calls[q]) = 2 * exchange[q] - 2
  BY <1>1 DEF ExchangeIInv, PhaseCalls
<1>3. ASSUME NEW p \in Procs, nbx[p] \in Listens
      PROVE  exchange[p] = exchange[q] /\ nbx[p] # "returned"
  <2>1. Len(calls[p]) \in {2 * exchange[p] - 2, 2 * exchange[p] - 1}
    BY <1>3 DEF ExchangeIInv, PhaseCalls, Listens
  <2>2. /\ Len(calls[q]) >= 2 * exchange[p] - 2
        /\ Len(calls[p]) >= 2 * exchange[q] - 2
        /\ nbx[p] = "returned" => Len(calls[q]) >= 2 * exchange[p] - 1
    BY <1>1 DEF ExchangeIInv, Together
  <2>3. exchange[p] \in Nat /\ exchange[q] \in Nat
    BY <1>1 DEF ExchangeIInv, ExchangeTypeOK
  <2>4. exchange[p] = exchange[q]
    BY <1>2, <2>1, <2>2, <2>3
  <2> QED
    BY <1>2, <2>2, <2>3, <2>4
<1> QED
  BY <1>1, <1>2, <1>3 DEF q

(* The invariant at the start.                                             *)
LEMMA RoundStarts == ExchangeInit => RoundIInv
<1> SUFFICES ASSUME ExchangeInit PROVE RoundIInv
  OBVIOUS
<1>1. /\ \A p \in Procs : nbx[p] = "ready" /\ sends[p] = {} /\ asked[p] = {}
      /\ inFlight = {} /\ matched = {}
  BY DEF ExchangeInit
<1>2. ChunkTypes
  BY <1>1 DEF ExchangeInit, ChunkTypes
<1>3. SendsProgress /\ ReceivedNow /\ Delivering
  BY <1>1 DEF SendsProgress, ReceivedNow, Delivering, Listens
<1> QED
  BY <1>2, <1>3, ExchangeStarts DEF RoundIInv

(* How far the sends of a call get at once: whatever is not sent is empty. *)
LEMMA FirstChunk ==
  ASSUME NEW s \in Sends, s.sent \in 0 .. s.msg.size
  PROVE  /\ Next_n(s) \in Nat
         /\ s.sent + Next_n(s) \in 0 .. s.msg.size
         /\ Next_n(s) = 0 => s.sent = s.msg.size
         /\ Continue(s).sent = s.sent + Next_n(s)
<1>1. s.sent \in Int /\ s.msg.size \in Nat /\ MaxMsgSize \in Nat \ {0}
  BY ExchangeAssumption DEF Sends, Messages
<1>2. /\ Next_n(s) \in Nat
      /\ s.sent + Next_n(s) \in 0 .. s.msg.size
      /\ Next_n(s) = 0 => s.sent = s.msg.size
  BY <1>1 DEF Next_n, Min2
<1> DEFINE u == s.sent + Next_n(s)
           b == Next_n(s) > 0
<1>3. Continue(s) = [s EXCEPT !.sent = u, !.pending = b]
  BY DEF Continue
<1>4. s \in [msg : Messages, sent : Int, pending : BOOLEAN]
  BY DEF Sends
<1> HIDE DEF u, b
<1>5. Continue(s).sent = u
  BY <1>3, <1>4
<1> QED
  BY <1>2, <1>5 DEF u

(* Continuing a send that has been tested: the next chunk starts where the *)
(* last one ended.                                                         *)
LEMMA TestedChunk ==
  ASSUME NEW ready, NEW s \in Sends, s \in ready, s.sent \in 0 .. s.msg.size
  PROVE  Tested(ready, s).sent = s.sent + Next_n(s)
<1> DEFINE t == [s EXCEPT !.pending = FALSE]
<1>1. t \in Sends /\ t.msg = s.msg /\ t.sent = s.sent
  BY DEF Sends
<1>2. Next_n(t) = Next_n(s)
  BY <1>1 DEF Next_n
<1>3. Tested(ready, s) = Continue(t)
  BY DEF Tested
<1> HIDE DEF t
<1> QED
  BY <1>1, <1>2, <1>3, FirstChunk

(* A chunk is what its send has not sent yet, as much as MPI takes.        *)
LEMMA NewChunk ==
  ASSUME ExchangeTypeOK, NEW p \in Procs, NEW s \in Sends, s.sent \in 0 .. s.msg.size,
         Next_n(s) > 0
  PROVE  /\ Chunk(p, s) \in Chunks
         /\ Chunk(p, s).src = p /\ Chunk(p, s).msg = s.msg
         /\ Chunk(p, s).from = s.sent /\ Chunk(p, s).n = Next_n(s)
         /\ Chunk(p, s).exchange = exchange[p]
<1>1. /\ s.msg \in Messages /\ s.sent \in Nat /\ Next_n(s) \in Nat \ {0}
      /\ exchange[p] \in Nat
  <2>1. s.msg.size \in Nat /\ s.msg \in Messages
    BY DEF Sends, Messages
  <2> QED
    BY <2>1, FirstChunk DEF ExchangeTypeOK
<1> QED
  BY <1>1 DEF Chunk, Chunks

(* The call: what was received before is given up, and the first chunks    *)
(* find nothing received of their messages.                                *)
LEMMA CallDelivers ==
  ASSUME RoundIInv, NEW p \in Procs, allToAll(p)
  PROVE  ChunkTypes' /\ SendsProgress' /\ ReceivedNow' /\ Delivering'
<1> USE DEF RoundIInv
<1> DEFINE fresh(list) == {[msg |-> m, sent |-> 0, pending |-> FALSE] : m \in list}
<1>1. PICK list \in SendLists[p] :
        /\ sends' = [sends EXCEPT ![p] = {Continue(s) : s \in fresh(list)}]
        /\ inFlight' = inFlight \cup Continued(p, fresh(list))
        /\ asked' = [asked EXCEPT ![p] = list]
  BY DEF allToAll
<1>2. /\ nbx[p] = "ready" /\ nbx' = [nbx EXCEPT ![p] = "sending"]
      /\ exchange' = exchange /\ matched' = matched /\ calls' = calls
      /\ received' = [received EXCEPT ![p] = << >>]
  BY DEF allToAll
<1>3. /\ ExchangeTypeOK
      /\ nbx \in [Procs -> Phases] /\ exchange \in [Procs -> Nat \ {0}]
      /\ sends \in [Procs -> SUBSET Sends]
      /\ received \in [Procs -> Seq(Chunks)]
      /\ inFlight \cup matched \subseteq Chunks
      /\ asked \in [Procs -> SUBSET Messages]
  BY DEF ExchangeIInv, ExchangeTypeOK, ChunkTypes
<1>4. list \subseteq Messages
  BY ExchangeAssumption
<1>5. \A s \in fresh(list) :
        s \in Sends /\ s.msg \in list /\ s.sent = 0 /\ s.sent \in 0 .. s.msg.size
  <2>1. \A m \in list : [msg |-> m, sent |-> 0, pending |-> FALSE] \in Sends /\ m.size \in Nat
    BY <1>4 DEF Sends, Messages
  <2> QED BY <2>1
<1>6. \A m \in list : \E s \in fresh(list) : s.msg = m
  <2>1. \A m \in list : [msg |-> m, sent |-> 0, pending |-> FALSE] \in fresh(list)
    OBVIOUS
  <2> QED BY <2>1
<1>7. \A c \in inFlight \cup matched : c.src # p
  BY <1>2, SenderOfChunk
<1>8. /\ \A q \in Procs : q # p => /\ sends'[q] = sends[q] /\ nbx'[q] = nbx[q]
                                   /\ asked'[q] = asked[q] /\ received'[q] = received[q]
      /\ sends'[p] = {Continue(s) : s \in fresh(list)} /\ nbx'[p] = "sending"
      /\ asked'[p] = list /\ received'[p] = << >>
  BY <1>1, <1>2, <1>3
<1>9. \A c \in Continued(p, fresh(list)) :
        \E s \in fresh(list) : c = Chunk(p, s) /\ Next_n(s) > 0
  BY DEF Continued
<1>10. \A s \in fresh(list) : Next_n(s) > 0 => Chunk(p, s) \in Continued(p, fresh(list))
  BY DEF Continued
<1>11. \A s, t \in fresh(list) : s.msg = t.msg => s = t
  <2>1. \A s \in fresh(list) : s = [msg |-> s.msg, sent |-> 0, pending |-> FALSE]
    OBVIOUS
  <2> QED BY <2>1
<1> HIDE DEF fresh
<1>12. \A c \in Continued(p, fresh(list)) :
         /\ c \in Chunks /\ c.src = p /\ c.msg \in list /\ c.from = 0
         /\ c.exchange = exchange[p]
         /\ \E s \in fresh(list) : c.msg = s.msg /\ c.n = Next_n(s)
  <2> SUFFICES ASSUME NEW c \in Continued(p, fresh(list))
               PROVE  /\ c \in Chunks /\ c.src = p /\ c.msg \in list /\ c.from = 0
                      /\ c.exchange = exchange[p]
                      /\ \E s \in fresh(list) : c.msg = s.msg /\ c.n = Next_n(s)
    OBVIOUS
  <2>1. PICK s \in fresh(list) : c = Chunk(p, s) /\ Next_n(s) > 0
    BY <1>9
  <2>2. s \in Sends /\ s.msg \in list /\ s.sent = 0 /\ s.sent \in 0 .. s.msg.size
    BY <1>5
  <2>3. /\ c \in Chunks /\ c.src = p /\ c.msg = s.msg /\ c.from = s.sent
        /\ c.n = Next_n(s) /\ c.exchange = exchange[p]
    BY <1>3, <2>1, <2>2, NewChunk, ZenonT(30)
  <2> QED BY <2>2, <2>3
<1>13. ChunkTypes'
  <2>1. received' \in [Procs -> Seq(Chunks)]
    BY <1>2, <1>3
  <2>2. inFlight' \cup matched' \subseteq Chunks
    BY <1>1, <1>2, <1>3, <1>12
  <2>3. asked' \in [Procs -> SUBSET Messages]
    BY <1>1, <1>3, <1>4
  <2> QED BY <2>1, <2>2, <2>3 DEF ChunkTypes
<1>14. SendsProgress'
  <2>1. ASSUME NEW q \in Procs, NEW s \in sends'[q]
        PROVE  /\ s.msg \in asked'[q]
               /\ s.sent \in 0 .. s.msg.size
               /\ \/ s.pending /\ \E c \in inFlight' \cup matched' : c.src = q /\ c.msg = s.msg
                  \/ ~ s.pending /\ s.sent = s.msg.size
    <3>1. CASE q # p
      <4>1. /\ s.msg \in asked[q]
            /\ s.sent \in 0 .. s.msg.size
            /\ \/ s.pending /\ \E c \in inFlight \cup matched : c.src = q /\ c.msg = s.msg
               \/ ~ s.pending /\ s.sent = s.msg.size
        BY <1>8, <2>1, <3>1 DEF SendsProgress
      <4> QED BY <1>1, <1>2, <1>8, <3>1, <4>1
    <3>2. CASE q = p
      <4>1. PICK t \in fresh(list) : s = Continue(t)
        BY <1>8, <2>1, <3>2
      <4>2. /\ t \in Sends /\ t.msg \in list /\ t.sent = 0 /\ t.sent \in 0 .. t.msg.size
        BY <1>5
      <4>3. s.msg = t.msg /\ s.pending = (Next_n(t) > 0) /\ s.sent = t.sent + Next_n(t)
        BY <4>1, <4>2, ContinueSend, FirstChunk
      <4>4. /\ Next_n(t) \in Nat /\ t.sent + Next_n(t) \in 0 .. t.msg.size
            /\ Next_n(t) = 0 => t.sent = t.msg.size
        BY <4>2, FirstChunk
      <4>5. CASE Next_n(t) > 0
        <5>1. Chunk(p, t) \in inFlight' \cup matched' /\ Chunk(p, t).src = p
              /\ Chunk(p, t).msg = s.msg
          BY <1>1, <1>3, <1>10, <4>2, <4>3, <4>5, NewChunk, ZenonT(30)
        <5>2. s.pending
          BY <4>3, <4>5
        <5>3. s.msg \in asked'[q] /\ s.sent \in 0 .. s.msg.size
          BY <1>8, <3>2, <4>2, <4>3, <4>4
        <5>4. \E c \in inFlight' \cup matched' : c.src = q /\ c.msg = s.msg
          BY <3>2, <5>1
        <5> QED BY <5>2, <5>3, <5>4
      <4>6. CASE Next_n(t) = 0
        <5>1. ~ s.pending
          <6>1. ~ (Next_n(t) > 0)
            BY <4>6
          <6> QED BY <4>3, <6>1, Zenon
        <5>2. s.sent = s.msg.size /\ s.msg \in asked'[q] /\ s.sent \in 0 .. s.msg.size
          BY <1>8, <3>2, <4>2, <4>3, <4>4, <4>6
        <5> QED BY <5>1, <5>2
      <4> QED BY <4>4, <4>5, <4>6
    <3> QED BY <3>1, <3>2
  <2>2. ASSUME NEW c \in inFlight' \cup matched'
        PROVE  /\ c.exchange = exchange[c.src]
               /\ c.msg \in asked'[c.src]
               /\ \A s \in sends'[c.src] : s.msg = c.msg => s.sent = c.from + c.n
    <3>1. CASE c \in inFlight \cup matched
      <4>1. c.src \in Procs /\ c.src # p
        BY <1>7, <3>1, SenderOfChunk
      <4> QED BY <1>8, <3>1, <4>1 DEF SendsProgress
    <3>2. CASE c \in Continued(p, fresh(list))
      <4>1. PICK t \in fresh(list) : c.msg = t.msg /\ c.n = Next_n(t)
        BY <1>12, <3>2
      <4>2. ASSUME NEW s \in sends'[p], s.msg = c.msg
            PROVE  s.sent = c.from + c.n
        <5>1. PICK u \in fresh(list) : s = Continue(u)
          BY <1>8, <4>2
        <5>2. u = t
          BY <1>5, <1>11, <4>1, <4>2, <5>1, ContinueSend
        <5>3. s.sent = 0 + Next_n(t) /\ Next_n(t) \in Nat
          BY <1>5, <5>1, <5>2, FirstChunk
        <5> QED BY <1>12, <3>2, <4>1, <5>3
      <4> QED BY <1>8, <1>12, <3>2, <4>2
    <3> QED BY <1>1, <1>2, <3>1, <3>2
  <2> QED BY <1>2, <2>1, <2>2 DEF SendsProgress
<1>15. ReceivedNow'
  <2>1. ASSUME NEW r \in Procs, nbx'[r] \in Listens, NEW i \in DOMAIN received'[r]
        PROVE  /\ received'[r][i].exchange = exchange[r]
               /\ exchange[received'[r][i].src] = exchange[r]
               /\ nbx'[received'[r][i].src] # "ready"
               /\ received'[r][i].msg \in asked'[received'[r][i].src]
    <3>1. r # p
      BY <1>8, <2>1
    <3>2. nbx[r] \in Listens /\ i \in DOMAIN received[r] /\ received'[r] = received[r]
      BY <1>8, <2>1, <3>1
    <3>3. received[r][i].src \in Procs
      <4>1. received[r] \in Seq(Chunks)
        BY <1>3
      <4>2. received[r][i] \in Chunks
        BY <3>2, <4>1
      <4> QED BY <4>2 DEF Chunks
    <3>4. /\ received[r][i].exchange = exchange[r]
          /\ exchange[received[r][i].src] = exchange[r]
          /\ nbx[received[r][i].src] # "ready"
          /\ received[r][i].msg \in asked[received[r][i].src]
      BY <3>2 DEF ReceivedNow
    <3> QED BY <1>2, <1>8, <3>2, <3>3, <3>4
  <2> QED BY <1>2, <2>1 DEF ReceivedNow
<1>16. Delivering'
  <2> SUFFICES ASSUME NEW r \in Procs, NEW q \in Procs, NEW m \in asked'[q],
                      Paired(r, q)', m.dst = r
               PROVE  Delivered(r, q, m)'
    BY DEF Delivering
  <2>1. Heard(r)' = Heard(r)
    BY <1>2, <1>8 DEF Heard, Listens
  <2>2. CASE q # p
    <3>1. Paired(r, q)
      BY <1>2, <1>8, <2>2 DEF Paired, Listens
    <3>2. Delivered(r, q, m)
      BY <1>8, <2>2, <3>1 DEF Delivering
    <3>3. \A c : IsOf(c, q, m) => /\ c \in inFlight' <=> c \in inFlight
                                  /\ c \in matched' <=> c \in matched
      BY <1>1, <1>2, <1>12, <2>2 DEF IsOf
    <3> QED BY <2>1, <3>2, <3>3, DeliveredFrame
  <2>3. CASE q = p
    <3>1. From(p, m, Heard(r)) = {}
      <4>1. CASE nbx[r] \in Listens
        <5>1. \A i \in DOMAIN received[r] : received[r][i].src # p
          BY <1>2, <4>1 DEF ReceivedNow
        <5> QED BY <4>1, <5>1 DEF From, Heard
      <4>2. CASE nbx[r] \notin Listens
        BY <4>2 DEF From, Heard
      <4> QED BY <4>1, <4>2
    <3>2. From(p, m, Heard(r)') = {}
      BY <2>1, <3>1
    <3>3. /\ Successive(Heard(r)', From(p, m, Heard(r)'))
          /\ Reach(Heard(r)', From(p, m, Heard(r)'), 0)
      BY <3>2 DEF Successive, Reach
    <3>4. \A c \in inFlight' : IsOf(c, p, m) => c.from = 0
      BY <1>1, <1>7, <1>12 DEF IsOf
    <3>5. \A c \in matched' : ~ IsOf(c, p, m)
      BY <1>2, <1>7 DEF IsOf
    <3>6. \/ \E c \in inFlight' \cup matched' : IsOf(c, p, m)
          \/ m.size = 0
      <4>1. PICK s \in fresh(list) : s.msg = m
        BY <1>6, <1>8, <2>3
      <4>2. s \in Sends /\ s.sent = 0 /\ s.sent \in 0 .. s.msg.size
        BY <1>5
      <4>3. CASE Next_n(s) > 0
        <5>1. IsOf(Chunk(p, s), p, m) /\ Chunk(p, s) \in inFlight'
          BY <1>1, <1>3, <1>10, <4>1, <4>2, <4>3, NewChunk, ZenonT(30) DEF IsOf
        <5> QED BY <5>1
      <4>4. CASE ~ (Next_n(s) > 0)
        <5>1. Next_n(s) = 0
          BY <4>2, <4>4, FirstChunk
        <5> QED BY <4>1, <4>2, <5>1, FirstChunk
      <4> QED BY <4>3, <4>4
    <3> QED BY <2>3, <3>3, <3>4, <3>5, <3>6 DEF Delivered
  <2> QED BY <2>2, <2>3
<1> QED BY <1>13, <1>14, <1>15, <1>16

(* A chunk that is received is the next one of its message, and makes its  *)
(* sender's message longer at this process only.                           *)
LEMMA ReceiveDelivers ==
  ASSUME RoundIInv, NEW p \in Procs, Receive(p)
  PROVE  ChunkTypes' /\ SendsProgress' /\ ReceivedNow' /\ Delivering'
<1> USE DEF RoundIInv
<1>1. PICK c \in inFlight :
        /\ c.msg.dst = p
        /\ \/ /\ received' = [received EXCEPT ![p] = Append(@, c)]
              /\ inFlight' = inFlight \ {c}
              /\ matched'  = matched \cup {c}
              /\ nbx' = nbx
           \/ /\ nbx' = [nbx EXCEPT ![p] = "failed"]
              /\ UNCHANGED <<received, inFlight, matched>>
  BY DEF Receive
<1>2. /\ nbx[p] \in {"sending", "draining"} /\ nbx[p] \in Listens
      /\ exchange' = exchange /\ sends' = sends /\ asked' = asked
  BY DEF Receive, InLoop, Listens
<1>3. /\ nbx \in [Procs -> Phases] /\ exchange \in [Procs -> Nat \ {0}]
      /\ received \in [Procs -> Seq(Chunks)]
      /\ inFlight \cup matched \subseteq Chunks
      /\ asked \in [Procs -> SUBSET Messages]
  BY DEF ExchangeIInv, ExchangeTypeOK, ChunkTypes
<1>4. /\ c.src \in Procs /\ c \in Chunks /\ nbx[c.src] \in {"sending", "failed"}
      /\ exchange[p] = exchange[c.src]
  BY <1>2, <1>3, SenderOfChunk
<1>5. CASE /\ received' = [received EXCEPT ![p] = Append(@, c)]
           /\ inFlight' = inFlight \ {c}
           /\ matched'  = matched \cup {c}
           /\ nbx' = nbx
  <2>1. /\ \A r \in Procs : r # p => received'[r] = received[r]
        /\ received'[p] = Append(received[p], c) /\ received[p] \in Seq(Chunks)
        /\ inFlight' \cup matched' = inFlight \cup matched
        /\ c \notin matched
    BY <1>3, <1>5 DEF ExchangeIInv, OnePending
  <2>2. ChunkTypes'
    <3>1. received' \in [Procs -> Seq(Chunks)]
      BY <1>3, <1>4, <1>5, <2>1
    <3> QED BY <1>2, <1>3, <2>1, <3>1 DEF ChunkTypes
  <2>3. SendsProgress'
    BY <1>2, <2>1 DEF SendsProgress
  <2>4. ReceivedNow'
    <3>1. ASSUME NEW r \in Procs, nbx[r] \in Listens, NEW i \in DOMAIN received'[r]
          PROVE  /\ received'[r][i].exchange = exchange[r]
                 /\ exchange[received'[r][i].src] = exchange[r]
                 /\ nbx[received'[r][i].src] # "ready"
                 /\ received'[r][i].msg \in asked[received'[r][i].src]
      <4>1. CASE r = p /\ i = Len(received[p]) + 1
        <5>1. received'[r][i] = c
          BY <2>1, <4>1
        <5>2. c.exchange = exchange[c.src] /\ c.msg \in asked[c.src]
          BY DEF SendsProgress
        <5> QED BY <1>4, <4>1, <5>1, <5>2
      <4>2. CASE ~ (r = p /\ i = Len(received[p]) + 1)
        <5>1. i \in DOMAIN received[r] /\ received'[r][i] = received[r][i]
          BY <2>1, <3>1, <4>2
        <5> QED BY <3>1, <5>1 DEF ReceivedNow
      <4> QED BY <4>1, <4>2
    <3> QED BY <1>2, <1>5, <3>1 DEF ReceivedNow
  <2>5. Delivering'
    <3> SUFFICES ASSUME NEW r \in Procs, NEW q \in Procs, NEW m \in asked[q],
                        Paired(r, q)', m.dst = r
                 PROVE  Delivered(r, q, m)'
      BY <1>2 DEF Delivering
    <3>1. Delivered(r, q, m)
      BY <1>2, <1>5 DEF Delivering, Paired
    <3>2. CASE r # p
      <4>1. Heard(r)' = Heard(r)
        BY <1>5, <2>1, <3>2 DEF Heard
      <4>2. ~ IsOf(c, q, m)
        BY <1>1, <3>2 DEF IsOf
      <4>3. \A d : IsOf(d, q, m) => /\ d \in inFlight' <=> d \in inFlight
                                    /\ d \in matched' <=> d \in matched
        BY <1>5, <4>2
      <4> QED BY <3>1, <4>1, <4>3, DeliveredFrame
    <3>3. CASE r = p
      <4> DEFINE s == received[p]
                 t == Append(received[p], c)
                 I == From(q, m, s)
                 J == From(q, m, t)
      <4>1. Heard(r) = s /\ Heard(r)' = t /\ s \in Seq(Chunks)
        BY <1>2, <1>5, <2>1, <3>3 DEF Heard
      <4>2. /\ Successive(s, I)
            /\ \A d \in inFlight : IsOf(d, q, m) => Reach(s, I, d.from)
            /\ \A d \in matched  : IsOf(d, q, m) => Reach(s, I, d.from + d.n)
            /\ \/ \E d \in inFlight \cup matched : IsOf(d, q, m)
               \/ Reach(s, I, m.size)
        BY <3>1, <4>1 DEF Delivered
      <4>3. CASE IsOf(c, q, m)
        <5>1. Successive(t, J) /\ Reach(t, J, c.from + c.n)
          BY <1>4, <4>1, <4>2, <4>3, AppendNext
        <5>2. \A d \in inFlight \cup matched : IsOf(d, q, m) => d = c
          BY <4>3 DEF IsOf, ExchangeIInv, OnePending
        <5> HIDE DEF s, t, I, J
        <5>3. /\ \A d \in inFlight' : ~ IsOf(d, q, m)
              /\ \A d \in matched' : IsOf(d, q, m) => Reach(t, J, d.from + d.n)
              /\ \E d \in inFlight' \cup matched' : IsOf(d, q, m)
          BY <1>5, <4>3, <5>1, <5>2
        <5> QED BY <4>1, <5>1, <5>3 DEF Delivered, I, J
      <4>4. CASE ~ IsOf(c, q, m)
        <5>1. /\ J = I
              /\ \A n : Reach(s, I, n) <=> Reach(t, I, n)
              /\ Successive(s, I) <=> Successive(t, I)
          BY <1>4, <4>1, <4>4, AppendChunk
        <5> HIDE DEF s, t, I, J
        <5>2. /\ Successive(t, J)
              /\ \A d \in inFlight' : IsOf(d, q, m) => Reach(t, J, d.from)
              /\ \A d \in matched'  : IsOf(d, q, m) => Reach(t, J, d.from + d.n)
              /\ \/ \E d \in inFlight' \cup matched' : IsOf(d, q, m)
                 \/ Reach(t, J, m.size)
          BY <1>5, <2>1, <4>2, <4>4, <5>1
        <5> QED BY <4>1, <5>2 DEF Delivered, I, J
      <4> QED BY <4>3, <4>4
    <3> QED BY <3>2, <3>3
  <2> QED BY <2>2, <2>3, <2>4, <2>5
<1>6. CASE /\ nbx' = [nbx EXCEPT ![p] = "failed"]
           /\ UNCHANGED <<received, inFlight, matched>>
  <2>1. /\ \A r \in Procs : r # p => nbx'[r] = nbx[r]
        /\ nbx'[p] = "failed"
    BY <1>3, <1>6
  <2>2. ChunkTypes' /\ SendsProgress'
    BY <1>2, <1>6 DEF ChunkTypes, SendsProgress
  <2>3. ReceivedNow'
    <3>1. ASSUME NEW r \in Procs, nbx'[r] \in Listens, NEW i \in DOMAIN received[r]
          PROVE  /\ received[r][i].exchange = exchange[r]
                 /\ exchange[received[r][i].src] = exchange[r]
                 /\ nbx'[received[r][i].src] # "ready"
                 /\ received[r][i].msg \in asked[received[r][i].src]
      <4>1. r # p /\ nbx[r] \in Listens
        BY <2>1, <3>1 DEF Listens
      <4>2. received[r][i].src \in Procs
        <5>1. received[r] \in Seq(Chunks)
          BY <1>3
        <5>2. received[r][i] \in Chunks
          BY <3>1, <5>1
        <5> QED BY <5>2 DEF Chunks
      <4>3. /\ received[r][i].exchange = exchange[r]
            /\ exchange[received[r][i].src] = exchange[r]
            /\ nbx[received[r][i].src] # "ready"
            /\ received[r][i].msg \in asked[received[r][i].src]
        BY <4>1 DEF ReceivedNow
      <4> QED BY <2>1, <4>2, <4>3
    <3> QED BY <1>2, <1>6, <3>1 DEF ReceivedNow
  <2>4. Delivering'
    <3> SUFFICES ASSUME NEW r \in Procs, NEW q \in Procs, NEW m \in asked[q],
                        Paired(r, q)', m.dst = r
                 PROVE  Delivered(r, q, m)'
      BY <1>2 DEF Delivering
    <3>1. r # p
      BY <2>1 DEF Paired, Listens
    <3>2. Paired(r, q)
      <4>1. nbx[q] # "ready"
        BY <1>2, <2>1 DEF Paired
      <4> QED BY <1>2, <2>1, <3>1, <4>1 DEF Paired
    <3>3. Heard(r)' = Heard(r)
      BY <1>6, <2>1, <3>1 DEF Heard
    <3>4. Delivered(r, q, m)
      BY <3>2 DEF Delivering
    <3> QED BY <1>6, <3>3, <3>4, DeliveredFrame
  <2> QED BY <2>2, <2>3, <2>4
<1> QED BY <1>1, <1>5, <1>6

(* A send that is tested goes on where its chunk has been received, and is *)
(* done when that was the end of the message.                              *)
LEMMA TestDelivers ==
  ASSUME RoundIInv, NEW p \in Procs, TestSends(p)
  PROVE  ChunkTypes' /\ SendsProgress' /\ ReceivedNow' /\ Delivering'
<1> USE DEF RoundIInv
<1> DEFINE left(ready) == {s \in {Tested(ready, u) : u \in sends[p]} : Unfinished(s)}
           gone(ready) == UNION {LastChunkOf(p, s) : s \in ready}
<1>1. PICK ready \in SUBSET {s \in sends[p] : s.pending /\ LastChunkOf(p, s) # {}} :
        /\ sends'    = [sends EXCEPT ![p] = left(ready)]
        /\ inFlight' = inFlight \cup Continued(p, ready)
        /\ matched'  = matched \ gone(ready)
        /\ nbx' = [nbx EXCEPT ![p] = "draining"] \/ nbx' = nbx
  BY DEF TestSends
<1>2. /\ nbx[p] = "sending" /\ exchange' = exchange /\ received' = received /\ asked' = asked
  BY DEF TestSends
<1>3. /\ ExchangeTypeOK
      /\ nbx \in [Procs -> Phases] /\ exchange \in [Procs -> Nat \ {0}]
      /\ sends \in [Procs -> SUBSET Sends]
      /\ received \in [Procs -> Seq(Chunks)]
      /\ inFlight \cup matched \subseteq Chunks
      /\ asked \in [Procs -> SUBSET Messages]
  BY DEF ExchangeIInv, ExchangeTypeOK, ChunkTypes
<1>4. /\ \A q \in Procs : q # p => nbx'[q] = nbx[q] /\ sends'[q] = sends[q]
      /\ nbx'[p] \in {"sending", "draining"} /\ sends'[p] = left(ready)
  BY <1>1, <1>2, <1>3
<1>5. \A s \in sends[p] :
        /\ s \in Sends /\ s.msg \in asked[p] /\ s.sent \in 0 .. s.msg.size
        /\ \A t \in sends[p] : s.msg = t.msg => s = t
  BY <1>3 DEF SendsProgress, ExchangeIInv, OnePending
<1>6. \A s \in ready :
        /\ s \in sends[p]
        /\ \E c \in matched : IsOf(c, p, s.msg)
        /\ \A c \in matched : IsOf(c, p, s.msg) <=> c \in LastChunkOf(p, s)
  BY DEF LastChunkOf, IsOf
<1>7. \A c : c \in gone(ready) <=> \E s \in ready : c \in matched /\ IsOf(c, p, s.msg)
  BY DEF LastChunkOf, IsOf
<1>8. \A s \in left(ready) : \E u \in sends[p] : s = Tested(ready, u) /\ Unfinished(s)
  OBVIOUS
<1>9. \A c \in Continued(p, ready) : \E s \in ready : c = Chunk(p, s) /\ Next_n(s) > 0
  BY DEF Continued
<1>10. \A s \in ready : Next_n(s) > 0 => Chunk(p, s) \in Continued(p, ready)
  BY DEF Continued
<1> HIDE DEF left, gone
<1>11. \A s \in ready : Next_n(s) > 0 =>
         /\ Chunk(p, s) \in Chunks /\ IsOf(Chunk(p, s), p, s.msg)
         /\ Chunk(p, s).from = s.sent /\ Chunk(p, s).n = Next_n(s)
         /\ Chunk(p, s).exchange = exchange[p]
  BY <1>3, <1>5, <1>6, NewChunk DEF IsOf
\* The only chunk of a tested send has been received, and is given up.
<1>12. ASSUME NEW s \in ready, NEW c \in inFlight \cup matched, IsOf(c, p, s.msg)
       PROVE  c \in matched /\ c \in gone(ready) /\ s.sent = c.from + c.n
  <2>1. PICK d \in matched : IsOf(d, p, s.msg)
    BY <1>6
  <2>2. c = d
    BY <1>12, <2>1 DEF IsOf, ExchangeIInv, OnePending
  <2>3. s.sent = c.from + c.n
    BY <1>6, <1>12 DEF IsOf, SendsProgress
  <2> QED BY <1>7, <1>12, <2>1, <2>2, <2>3
<1>13. ASSUME NEW q, NEW m, q # p \/ \A s \in ready : s.msg # m, NEW c, IsOf(c, q, m)
       PROVE  /\ c \in inFlight' <=> c \in inFlight
              /\ c \in matched' <=> c \in matched
  <2>1. c \notin Continued(p, ready)
    BY <1>9, <1>11, <1>13 DEF IsOf
  <2>2. c \notin gone(ready)
    BY <1>7, <1>13 DEF IsOf
  <2> QED BY <1>1, <2>1, <2>2
<1>14. ChunkTypes'
  <2>1. inFlight' \cup matched' \subseteq Chunks
    BY <1>1, <1>3, <1>9, <1>11
  <2> QED BY <1>2, <1>3, <2>1 DEF ChunkTypes
<1>15. SendsProgress'
  <2>1. ASSUME NEW q \in Procs, NEW s \in sends'[q]
        PROVE  /\ s.msg \in asked[q]
               /\ s.sent \in 0 .. s.msg.size
               /\ \/ s.pending /\ \E c \in inFlight' \cup matched' : c.src = q /\ c.msg = s.msg
                  \/ ~ s.pending /\ s.sent = s.msg.size
    <3>1. ASSUME s \in sends[q], q # p \/ \A u \in ready : u.msg # s.msg
          PROVE  /\ s.msg \in asked[q]
                 /\ s.sent \in 0 .. s.msg.size
                 /\ \/ /\ s.pending
                       /\ \E c \in inFlight' \cup matched' : c.src = q /\ c.msg = s.msg
                    \/ ~ s.pending /\ s.sent = s.msg.size
      <4>1. /\ s.msg \in asked[q]
            /\ s.sent \in 0 .. s.msg.size
            /\ \/ s.pending /\ \E c \in inFlight \cup matched : c.src = q /\ c.msg = s.msg
               \/ ~ s.pending /\ s.sent = s.msg.size
        BY <3>1 DEF SendsProgress
      <4>2. \A c \in inFlight \cup matched : c.src = q /\ c.msg = s.msg =>
              c \in inFlight' \cup matched'
        BY <1>13, <3>1 DEF IsOf
      <4> QED BY <4>1, <4>2
    <3>2. CASE q # p
      BY <1>4, <2>1, <3>1, <3>2
    <3>3. CASE q = p
      <4>1. PICK u \in sends[p] : s = Tested(ready, u) /\ Unfinished(s)
        BY <1>4, <1>8, <2>1, <3>3
      <4>2. CASE u \notin ready
        <5>1. s = u
          BY <1>5, <4>1, <4>2, TestedSend
        <5>2. \A v \in ready : v.msg # s.msg
          BY <1>5, <1>6, <4>2, <5>1
        <5> QED BY <3>1, <3>3, <5>1, <5>2
      <4>3. CASE u \in ready
        <5>1. /\ s.msg = u.msg /\ s.pending = (Next_n(u) > 0) /\ s.sent = u.sent + Next_n(u)
              /\ Next_n(u) \in Nat /\ u.sent + Next_n(u) \in 0 .. u.msg.size
              /\ Next_n(u) = 0 => u.sent = u.msg.size
          BY <1>5, <4>1, <4>3, TestedSend, TestedChunk, FirstChunk
        <5>2. s.msg \in asked[q] /\ s.sent \in 0 .. s.msg.size
          BY <1>5, <3>3, <5>1
        <5>3. CASE Next_n(u) > 0
          <6>1. s.pending
            BY <5>1, <5>3
          <6>2. Chunk(p, u) \in inFlight' /\ Chunk(p, u).src = q /\ Chunk(p, u).msg = s.msg
            BY <1>1, <1>10, <1>11, <3>3, <4>3, <5>1, <5>3 DEF IsOf
          <6>3. \E c \in inFlight' \cup matched' : c.src = q /\ c.msg = s.msg
            BY <6>2
          <6> QED BY <5>2, <6>1, <6>3
        <5>4. CASE ~ (Next_n(u) > 0)
          <6>1. ~ s.pending
            BY <5>1, <5>4, Zenon
          <6>2. s.sent = s.msg.size
            BY <1>5, <5>1, <5>4
          <6> QED BY <5>2, <6>1, <6>2
        <5> QED BY <5>3, <5>4
      <4> QED BY <4>2, <4>3
    <3> QED BY <3>2, <3>3
  <2>2. ASSUME NEW c \in inFlight' \cup matched'
        PROVE  /\ c.exchange = exchange[c.src]
               /\ c.msg \in asked[c.src]
               /\ \A s \in sends'[c.src] : s.msg = c.msg => s.sent = c.from + c.n
    <3>1. CASE c \in Continued(p, ready)
      <4>1. PICK u \in ready : c = Chunk(p, u) /\ Next_n(u) > 0
        BY <1>9, <3>1
      <4>2. /\ c.src = p /\ c.msg = u.msg /\ c.from = u.sent /\ c.n = Next_n(u)
            /\ c.exchange = exchange[p] /\ u \in sends[p]
        BY <1>6, <1>11, <4>1 DEF IsOf
      <4>3. ASSUME NEW s \in sends'[p], s.msg = c.msg
            PROVE  s.sent = c.from + c.n
        <5>1. PICK v \in sends[p] : s = Tested(ready, v)
          BY <1>4, <1>8, <4>3
        <5>2. v = u
          BY <1>5, <4>2, <4>3, <5>1, TestedSend
        <5>3. s.sent = u.sent + Next_n(u)
          BY <1>5, <5>1, <5>2, TestedChunk
        <5> QED BY <4>2, <5>3
      <4> QED BY <1>5, <4>2, <4>3
    <3>2. CASE c \in inFlight \cup (matched \ gone(ready))
      <4>1. /\ c.exchange = exchange[c.src]
            /\ c.msg \in asked[c.src]
            /\ \A s \in sends[c.src] : s.msg = c.msg => s.sent = c.from + c.n
            /\ c.src \in Procs
        BY <3>2, SenderOfChunk DEF SendsProgress
      <4>2. CASE c.src # p
        BY <1>4, <4>1, <4>2
      <4>3. CASE c.src = p
        <5>1. \A u \in ready : u.msg # c.msg
          <6>1. inFlight \cap matched = {}
            BY DEF ExchangeIInv, OnePending
          <6> QED BY <1>12, <3>2, <4>3, <6>1 DEF IsOf
        <5>2. ASSUME NEW s \in sends'[p], s.msg = c.msg
              PROVE  s.sent = c.from + c.n
          <6>1. PICK u \in sends[p] : s = Tested(ready, u)
            BY <1>4, <1>8, <5>2
          <6>2. u.msg = c.msg
            BY <1>5, <5>2, <6>1, TestedSend
          <6>3. s = u
            BY <1>5, <5>1, <6>1, <6>2, TestedSend
          <6> QED BY <4>1, <4>3, <6>2, <6>3
        <5> QED BY <4>1, <4>3, <5>2
      <4> QED BY <4>2, <4>3
    <3> QED BY <1>1, <2>2, <3>1, <3>2
  <2> QED BY <1>2, <2>1, <2>2 DEF SendsProgress
<1>16. ReceivedNow'
  <2>1. \A r \in Procs : nbx'[r] \in Listens <=> nbx[r] \in Listens
    BY <1>2, <1>4 DEF Listens
  <2>2. ASSUME NEW r \in Procs, nbx[r] \in Listens, NEW i \in DOMAIN received[r]
        PROVE  nbx'[received[r][i].src] # "ready"
    <3>1. received[r] \in Seq(Chunks)
      BY <1>3
    <3>2. received[r][i] \in Chunks
      BY <2>2, <3>1
    <3>3. received[r][i].src \in Procs /\ nbx[received[r][i].src] # "ready"
      BY <2>2, <3>2 DEF Chunks, ReceivedNow
    <3> QED BY <1>4, <3>3
  <2> QED BY <1>2, <2>1, <2>2 DEF ReceivedNow
<1>17. Delivering'
  <2> SUFFICES ASSUME NEW r \in Procs, NEW q \in Procs, NEW m \in asked[q],
                      Paired(r, q)', m.dst = r
               PROVE  Delivered(r, q, m)'
    BY <1>2 DEF Delivering
  <2>1. Heard(r)' = Heard(r)
    BY <1>2, <1>4 DEF Heard, Listens
  <2>2. Paired(r, q)
    BY <1>2, <1>4 DEF Paired, Listens
  <2>3. Delivered(r, q, m)
    BY <2>2 DEF Delivering
  <2>4. CASE q # p \/ \A s \in ready : s.msg # m
    BY <1>13, <2>1, <2>3, <2>4, DeliveredFrame
  <2>5. CASE q = p /\ \E s \in ready : s.msg = m
    <3>1. PICK s \in ready : s.msg = m
      BY <2>5
    <3> DEFINE I == From(p, m, Heard(r))
               G == Heard(r)
    <3>2. /\ Successive(G, I)
          /\ \A c \in matched : IsOf(c, p, m) => Reach(G, I, c.from + c.n)
      BY <2>3, <2>5 DEF Delivered
    <3>3. Reach(G, I, s.sent)
      <4>1. PICK c \in matched : IsOf(c, p, m)
        BY <1>6, <3>1
      <4>2. s.sent = c.from + c.n
        BY <1>12, <3>1, <4>1
      <4> QED BY <3>2, <4>1, <4>2
    <3>4. \A c \in inFlight' : IsOf(c, p, m) => c.from = s.sent
      <4> SUFFICES ASSUME NEW c \in inFlight', IsOf(c, p, m)
                   PROVE  c.from = s.sent
        OBVIOUS
      <4>1. c \in Continued(p, ready)
        <5>1. c \notin inFlight
          BY <1>12, <3>1 DEF ExchangeIInv, OnePending
        <5> QED BY <1>1, <5>1
      <4>2. PICK u \in ready : c = Chunk(p, u) /\ Next_n(u) > 0
        BY <1>9, <4>1
      <4>3. u.msg = m
        BY <1>11, <4>2 DEF IsOf
      <4>4. u = s
        BY <1>5, <1>6, <3>1, <4>3
      <4> QED BY <1>11, <4>2, <4>4
    <3>5. \A c \in matched' : ~ IsOf(c, p, m)
      BY <1>1, <1>12, <3>1
    <3>6. \/ \E c \in inFlight' \cup matched' : IsOf(c, p, m)
          \/ m.size = s.sent
      <4>1. CASE Next_n(s) > 0
        BY <1>1, <1>10, <1>11, <3>1, <4>1
      <4>2. CASE ~ (Next_n(s) > 0)
        BY <1>5, <1>6, <3>1, <4>2, FirstChunk
      <4> QED BY <4>1, <4>2
    <3>7. /\ Successive(Heard(r)', From(p, m, Heard(r)'))
          /\ Reach(Heard(r)', From(p, m, Heard(r)'), s.sent)
      BY <2>1, <3>2, <3>3
    <3> QED BY <2>5, <3>4, <3>5, <3>6, <3>7 DEF Delivered
  <2> QED BY <2>4, <2>5
<1> QED BY <1>14, <1>15, <1>16, <1>17

(* The steps between the exchanges leave what has been received, until the *)
(* caller is at the barrier: nobody is in the next exchange before.        *)
LEMMA BetweenDelivers ==
  ASSUME RoundIInv, NEW p \in Procs, TestBarrier(p) \/ CallerEnters(p) \/ CallerLeaves(p)
  PROVE  ChunkTypes' /\ SendsProgress' /\ ReceivedNow' /\ Delivering'
<1> USE DEF RoundIInv
<1>1. /\ sends' = sends /\ inFlight' = inFlight /\ matched' = matched
      /\ received' = received /\ asked' = asked
      /\ \/ nbx[p] = "draining" /\ nbx' = [nbx EXCEPT ![p] = "returned"] /\ exchange' = exchange
         \/ nbx[p] = "returned" /\ nbx' = [nbx EXCEPT ![p] = "separating"] /\ exchange' = exchange
         \/ /\ nbx[p] = "separating" /\ nbx' = [nbx EXCEPT ![p] = "ready"]
            /\ exchange' = [exchange EXCEPT ![p] = @ + 1]
            /\ \A q \in Procs : Len(calls[p]) <= Len(calls[q])
  BY DEF TestBarrier, CallerEnters, CallerLeaves, Completed, LastCall
<1>2. /\ nbx \in [Procs -> Phases] /\ exchange \in [Procs -> Nat \ {0}]
      /\ received \in [Procs -> Seq(Chunks)]
      /\ \A q \in Procs : Len(calls[q]) \in Nat /\ exchange[q] \in Nat
  BY DEF ExchangeIInv, ExchangeTypeOK, ChunkTypes
<1>3. /\ \A q \in Procs : q # p => nbx'[q] = nbx[q] /\ exchange'[q] = exchange[q]
      /\ \/ nbx[p] = "draining" /\ nbx'[p] = "returned" /\ exchange'[p] = exchange[p]
         \/ nbx[p] = "returned" /\ nbx'[p] = "separating" /\ exchange'[p] = exchange[p]
         \/ nbx[p] = "separating" /\ nbx'[p] = "ready" /\ exchange'[p] = exchange[p] + 1
  BY <1>1, <1>2
\* Whose chunk is on its way is none of these.
<1>4. \A c \in inFlight \cup matched : c.src \in Procs /\ c.src # p
  BY <1>3, SenderOfChunk
\* Who leaves the barrier leaves nobody behind in the exchange.
<1>5. ASSUME nbx[p] = "separating", nbx'[p] = "ready", NEW q \in Procs, nbx[q] \in Listens
      PROVE  exchange[q] # exchange[p]
  <2>1. Len(calls[p]) = 2 * exchange[p] /\ Len(calls[p]) <= Len(calls[q])
    BY <1>1, <1>5 DEF ExchangeIInv, PhaseCalls
  <2>2. Len(calls[q]) \in {2 * exchange[q] - 2, 2 * exchange[q] - 1}
    BY <1>5 DEF ExchangeIInv, PhaseCalls, Listens
  <2> QED BY <1>2, <2>1, <2>2
<1>6. ChunkTypes'
  BY <1>1 DEF ChunkTypes
<1>7. SendsProgress'
  <2>1. \A c \in inFlight \cup matched : exchange'[c.src] = exchange[c.src]
    BY <1>3, <1>4
  <2> QED BY <1>1, <2>1 DEF SendsProgress
<1>8. ReceivedNow'
  <2> SUFFICES ASSUME NEW r \in Procs, nbx'[r] \in Listens, NEW i \in DOMAIN received[r]
               PROVE  /\ received[r][i].exchange = exchange'[r]
                      /\ exchange'[received[r][i].src] = exchange'[r]
                      /\ nbx'[received[r][i].src] # "ready"
                      /\ received[r][i].msg \in asked[received[r][i].src]
    BY <1>1 DEF ReceivedNow
  <2>1. nbx[r] \in Listens /\ exchange'[r] = exchange[r]
    BY <1>3 DEF Listens
  <2> DEFINE c == received[r][i]
  <2>2. c.src \in Procs
    <3>1. received[r] \in Seq(Chunks)
      BY <1>2
    <3>2. received[r][i] \in Chunks
      BY <3>1
    <3> QED BY <3>2 DEF Chunks
  <2>3. /\ c.exchange = exchange[r] /\ exchange[c.src] = exchange[r]
        /\ nbx[c.src] # "ready" /\ c.msg \in asked[c.src]
    BY <2>1 DEF ReceivedNow
  <2> HIDE DEF c
  <2>4. exchange'[c.src] = exchange[c.src] /\ nbx'[c.src] # "ready"
    <3>1. CASE c.src = p /\ nbx'[p] = "ready"
      <4>1. nbx[p] = "separating"
        BY <1>3, <3>1
      <4>2. exchange[r] # exchange[p]
        BY <1>5, <2>1, <3>1, <4>1
      <4> QED BY <2>3, <3>1, <4>2
    <3>2. CASE c.src # p \/ nbx'[p] # "ready"
      BY <1>3, <2>2, <2>3, <3>2
    <3> QED BY <3>1, <3>2
  <2> QED BY <2>1, <2>3, <2>4 DEF c
<1>9. Delivering'
  <2> SUFFICES ASSUME NEW r \in Procs, NEW q \in Procs, NEW m \in asked[q],
                      Paired(r, q)', m.dst = r
               PROVE  Delivered(r, q, m)'
    BY <1>1 DEF Delivering
  <2>1. /\ nbx'[q] # "ready"
        /\ \/ exchange'[r] = exchange'[q] /\ nbx'[r] \in Listens \cup {"ready"}
           \/ exchange'[r] + 1 = exchange'[q] /\ nbx'[r] = "separating"
    BY DEF Paired
  <2>2. nbx[q] # "ready" /\ exchange'[q] = exchange[q]
    BY <1>3, <2>1
  \* Nobody is an exchange ahead of a process that only now enters the barrier.
  <2>3. ASSUME r = p, nbx[p] = "returned" PROVE exchange[p] + 1 # exchange[q]
    <3>1. Len(calls[p]) = 2 * exchange[p] - 1 /\ Len(calls[p]) >= 2 * exchange[q] - 2
      BY <2>3 DEF ExchangeIInv, PhaseCalls, Together
    <3> QED BY <1>2, <3>1
  <2>4. Paired(r, q) /\ Heard(r)' = Heard(r)
    <3>1. CASE r # p
      BY <1>1, <1>3, <2>1, <2>2, <3>1 DEF Paired, Heard
    <3>2. CASE r = p
      BY <1>1, <1>3, <2>1, <2>2, <2>3, <3>2 DEF Paired, Heard, Listens
    <3> QED BY <3>1, <3>2
  <2>5. Delivered(r, q, m)
    BY <2>4 DEF Delivering
  <2> QED BY <1>1, <2>4, <2>5, DeliveredFrame
<1> QED BY <1>6, <1>7, <1>8, <1>9

LEMMA RoundStep == RoundIInv /\ [ExchangeNext]_exchangeVars => RoundIInv'
<1> SUFFICES ASSUME RoundIInv, [ExchangeNext]_exchangeVars PROVE RoundIInv'
  OBVIOUS
<1>1. ExchangeIInv'
  BY ExchangeStep DEF RoundIInv
<1>2. ASSUME NEW p \in Procs, allToAll(p) PROVE RoundIInv'
  BY <1>1, <1>2, CallDelivers DEF RoundIInv
<1>3. ASSUME NEW p \in Procs, Receive(p) PROVE RoundIInv'
  BY <1>1, <1>3, ReceiveDelivers DEF RoundIInv
<1>4. ASSUME NEW p \in Procs, TestSends(p) PROVE RoundIInv'
  BY <1>1, <1>4, TestDelivers DEF RoundIInv
<1>5. ASSUME NEW p \in Procs, TestBarrier(p) \/ CallerEnters(p) \/ CallerLeaves(p)
      PROVE  RoundIInv'
  BY <1>1, <1>5, BetweenDelivers DEF RoundIInv
<1>6. CASE UNCHANGED exchangeVars
  <2>1. \A p : Heard(p)' = Heard(p)
    BY <1>6 DEF exchangeVars, Heard
  <2>2. Delivering'
    BY <1>6, <2>1, DeliveredFrame DEF exchangeVars, RoundIInv, Delivering, Paired
  <2> QED
    BY <1>1, <1>6, <2>2 DEF exchangeVars, RoundIInv, ChunkTypes, SendsProgress, ReceivedNow
<1> QED
  BY <1>2, <1>3, <1>4, <1>5, <1>6 DEF ExchangeNext, Progress

(* When allToAll returns, the process has received every byte of every     *)
(* message that was sent to it in this exchange, each message in order,    *)
(* and nothing of another exchange: whatever the messages and the size     *)
(* that MPI takes, and however their chunks overtake each other.           *)
THEOREM RoundsDeliver == ExchangeSpec => []RoundDelivers
<1>1. RoundIInv => RoundDelivers
  <2> SUFFICES ASSUME RoundIInv, NEW p \in Procs, nbx[p] = "returned"
               PROVE  /\ \A q \in Procs : \A m \in asked[q] : m.dst = p =>
                           Complete(received[p], From(q, m, received[p]), m.size)
                      /\ \A i \in DOMAIN received[p] :
                           /\ received[p][i].exchange = exchange[p]
                           /\ received[p][i].msg \in asked[received[p][i].src]
    BY DEF RoundDelivers
  <2> USE DEF RoundIInv
  <2>1. nbx[p] \in Listens /\ Heard(p) = received[p]
    BY DEF Listens, Heard
  <2>2. \A c \in inFlight \cup matched : FALSE
    BY <2>1, SenderOfChunk
  <2>3. /\ Len(calls[p]) = 2 * exchange[p] - 1
        /\ \A q \in Procs : /\ Len(calls[q]) >= 2 * exchange[p] - 1
                            /\ Len(calls[p]) >= 2 * exchange[q] - 2
    BY DEF ExchangeIInv, PhaseCalls, Together
  <2>4. \A q \in Procs : exchange[q] \in Nat
    BY DEF ExchangeIInv, ExchangeTypeOK
  <2>5. ASSUME NEW q \in Procs PROVE Paired(p, q)
    <3>1. Len(calls[q]) # 2 * exchange[q] - 2
      BY <2>3, <2>4
    <3>2. nbx[q] # "ready"
      BY <3>1 DEF ExchangeIInv, PhaseCalls
    <3>3. nbx[q] \in Phases \ {"ready"}
      BY <3>2 DEF ExchangeIInv, ExchangeTypeOK
    <3>4. Len(calls[q]) \in {2 * exchange[q] - 2, 2 * exchange[q] - 1, 2 * exchange[q]}
      BY <3>3 DEF ExchangeIInv, PhaseCalls, Phases
    <3>5. exchange[p] = exchange[q]
      BY <2>3, <2>4, <3>1, <3>4
    <3> QED BY <2>1, <3>2, <3>5 DEF Paired
  <2>6. ASSUME NEW q \in Procs, NEW m \in asked[q], m.dst = p
        PROVE  Complete(received[p], From(q, m, received[p]), m.size)
    <3>1. Delivered(p, q, m)
      BY <2>5, <2>6 DEF Delivering
    <3> QED BY <2>1, <2>2, <3>1 DEF Delivered, Complete
  <2>7. ASSUME NEW i \in DOMAIN received[p]
        PROVE  /\ received[p][i].exchange = exchange[p]
               /\ received[p][i].msg \in asked[received[p][i].src]
    BY <2>1 DEF ReceivedNow
  <2> QED BY <2>6, <2>7
<1> QED BY <1>1, RoundStarts, RoundStep, PTL DEF ExchangeSpec

----------------------------------------------------------------------------
(* Time *)

(* Multiplication distributes over sums and differences of integers: the   *)
(* form in which the sums and differences of times need it.                *)
LEMMA Distributes ==
  ASSUME NEW a \in Int, NEW b \in Int, NEW c \in Int
  PROVE  /\ (a + b) * c = a * c + b * c
         /\ (a - b) * c = a * c - b * c
         /\ a * c \in Int
  OBVIOUS

(* The value of a normalised time is in order with its seconds.            *)
LEMMA MoreSeconds ==
  ASSUME NEW S \in Nat \ {0}, NEW s \in Int, NEW n \in 0 .. S - 1,
         NEW t \in Int, NEW m \in 0 .. S - 1, s < t
  PROVE  s * S + n < t * S + m
<1>1. t - s - 1 \in Nat
  OBVIOUS
<1> DEFINE d == t - s - 1
<1>2. d * S \in Nat
  BY <1>1
<1>3. t * S = s * S + S + d * S
  <2>1. t = s + (1 + d)
    OBVIOUS
  <2>2. t * S = s * S + (1 + d) * S
    BY <2>1, <1>1, Distributes
  <2>3. (1 + d) * S = 1 * S + d * S
    BY <1>1, Distributes
  <2> QED
    BY <2>2, <2>3, <1>2
<1>4. s * S \in Int
  OBVIOUS
<1> HIDE DEF d
<1> QED
  BY <1>2, <1>3, <1>4

(* Two remainders that differ by whole units are the same.                 *)
LEMMA SameRemainder ==
  ASSUME NEW S \in Nat \ {0}, NEW k \in Int, NEW n \in 0 .. S - 1, NEW m \in 0 .. S - 1,
         k * S + n = m
  PROVE  k = 0 /\ n = m
<1>1. CASE k > 0
  <2>1. 0 * S + m < k * S + n
    BY <1>1, MoreSeconds
  <2> QED
    BY <2>1
<1>2. CASE k < 0
  <2>1. k * S + n < 0 * S + m
    BY <1>2, MoreSeconds
  <2> QED
    BY <2>1
<1> QED
  BY <1>1, <1>2

(* Dividing as C does is exact for negative numbers too, and the remainder *)
(* has the sign of what is divided.                                        *)
LEMMA DividesExactly ==
  ASSUME NEW S \in Nat \ {0}, NEW x \in Int
  PROVE  /\ Quotient(x, S) \in Int
         /\ Remainder(x, S) \in -(S - 1) .. S - 1
         /\ x = Quotient(x, S) * S + Remainder(x, S)
         /\ x >= 0 => Remainder(x, S) >= 0
         /\ x <= 0 => Remainder(x, S) <= 0
<1>1. ASSUME NEW y \in Int
      PROVE  y \div S \in Int /\ y % S \in 0 .. S - 1 /\ y = (y \div S) * S + (y % S)
  OBVIOUS
<1>2. CASE x >= 0
  <2>1. /\ x \div S \in Int /\ x % S \in 0 .. S - 1
        /\ x = (x \div S) * S + (x % S)
    BY <1>1
  <2>2. ASSUME x = 0
        PROVE  x % S = 0
    <3>1. (x \div S) * S + (x % S) = 0 /\ 0 \in 0 .. S - 1
      BY <2>1, <2>2
    <3> QED
      BY <2>1, <3>1, SameRemainder
  <2>3. Quotient(x, S) = x \div S /\ Remainder(x, S) = x % S
    BY <1>2 DEF Quotient, Remainder
  <2> QED
    BY <1>2, <2>1, <2>2, <2>3
<1>3. CASE x < 0
  <2> DEFINE q == (-x) \div S
             r == (-x) % S
  <2>1. q \in Int /\ r \in 0 .. S - 1 /\ -x = q * S + r
    BY <1>1
  <2>2. Quotient(x, S) = -q /\ Remainder(x, S) = -r
    BY <1>3 DEF Quotient, Remainder
  <2> HIDE DEF q, r
  <2>3. (-q) * S = -(q * S) /\ q * S \in Int
    BY <2>1
  <2> QED
    BY <1>3, <2>1, <2>2, <2>3
<1> QED
  BY <1>2, <1>3

(* The two numbers are the exact time, normalised.                         *)
Normalised ==
  /\ tv_sec \in Int /\ tv_nsec \in 0 .. OneSecond - 1 /\ exact \in Int
  /\ tv_sec * OneSecond + tv_nsec = exact

(* Comparing normalised times, number by number, compares the times.       *)
LEMMA ComparesExactly ==
  ASSUME Normalised
  PROVE  TimeExact
<1>1. OneSecond \in Nat \ {0} /\ MaxSeconds \in Nat
  BY TimeAssumption
<1>2. SUFFICES ASSUME NEW x \in Times
               PROVE  /\ equals(x) <=> exact = Value(x)
                      /\ lessThan(x) <=> exact < Value(x)
  BY DEF Normalised, TimeExact
<1>3. x.sec \in Int /\ x.nsec \in 0 .. OneSecond - 1
  BY <1>1 DEF Times
<1>4. /\ tv_sec \in Int /\ tv_nsec \in 0 .. OneSecond - 1
      /\ exact = tv_sec * OneSecond + tv_nsec
      /\ Value(x) = x.sec * OneSecond + x.nsec
  BY DEF Normalised, Value
<1>5. /\ tv_sec * OneSecond \in Int /\ x.sec * OneSecond \in Int
  BY <1>1, <1>3, <1>4
<1>6. CASE tv_sec < x.sec
  <2>1. exact < Value(x)
    BY <1>1, <1>3, <1>4, <1>6, MoreSeconds
  <2> QED
    BY <1>1, <1>3, <1>4, <1>5, <1>6, <2>1 DEF equals, lessThan
<1>7. CASE tv_sec > x.sec
  <2>1. Value(x) < exact
    BY <1>1, <1>3, <1>4, <1>7, MoreSeconds
  <2> QED
    BY <1>1, <1>3, <1>4, <1>5, <1>7, <2>1 DEF equals, lessThan
<1>8. CASE tv_sec = x.sec
  BY <1>1, <1>3, <1>4, <1>5, <1>8 DEF equals, lessThan
<1> QED
  BY <1>3, <1>4, <1>6, <1>7, <1>8

LEMMA PlusExact ==
  ASSUME Normalised, NEW x \in Times, plus(x)
  PROVE  Normalised'
<1>1. /\ OneSecond \in Nat \ {0}
      /\ x.sec \in Int /\ x.nsec \in 0 .. OneSecond - 1
  BY TimeAssumption DEF Times
<1>2. /\ tv_sec \in Int /\ tv_nsec \in 0 .. OneSecond - 1
      /\ exact = tv_sec * OneSecond + tv_nsec
      /\ exact' = exact + (x.sec * OneSecond + x.nsec)
  BY DEF Normalised, plus, Value
<1>3. /\ (tv_sec + x.sec) * OneSecond = tv_sec * OneSecond + x.sec * OneSecond
      /\ tv_sec * OneSecond \in Int /\ x.sec * OneSecond \in Int
  BY <1>1, <1>2, Distributes
<1>4. CASE /\ Carries(x)
           /\ tv_sec' = tv_sec + x.sec + 1
           /\ tv_nsec' = tv_nsec + x.nsec - OneSecond
  <2>1. (tv_sec + x.sec + 1) * OneSecond = (tv_sec + x.sec) * OneSecond + 1 * OneSecond
    BY <1>1, <1>2, Distributes
  <2> QED
    BY <1>1, <1>2, <1>3, <1>4, <2>1 DEF Normalised, Carries
<1>5. CASE /\ ~ Carries(x)
           /\ tv_sec' = tv_sec + x.sec
           /\ tv_nsec' = tv_nsec + x.nsec
  BY <1>1, <1>2, <1>3, <1>5 DEF Normalised, Carries
<1> QED
  BY <1>4, <1>5 DEF plus

LEMMA MinusExact ==
  ASSUME Normalised, NEW x \in Times, minus(x)
  PROVE  Normalised'
<1>1. /\ OneSecond \in Nat \ {0}
      /\ x.sec \in Int /\ x.nsec \in 0 .. OneSecond - 1
  BY TimeAssumption DEF Times
<1>2. /\ tv_sec \in Int /\ tv_nsec \in 0 .. OneSecond - 1
      /\ exact = tv_sec * OneSecond + tv_nsec
      /\ exact' = exact - (x.sec * OneSecond + x.nsec)
  BY DEF Normalised, minus, Value
<1>3. /\ (tv_sec - x.sec) * OneSecond = tv_sec * OneSecond - x.sec * OneSecond
      /\ tv_sec * OneSecond \in Int /\ x.sec * OneSecond \in Int
  BY <1>1, <1>2, Distributes
<1>4. CASE /\ tv_nsec < x.nsec
           /\ tv_nsec' = OneSecond - x.nsec + tv_nsec
           /\ tv_sec' = tv_sec - x.sec - 1
  <2>1. (tv_sec - x.sec - 1) * OneSecond = (tv_sec - x.sec) * OneSecond - 1 * OneSecond
    BY <1>1, <1>2, Distributes
  <2> QED
    BY <1>1, <1>2, <1>3, <1>4, <2>1 DEF Normalised
<1>5. CASE /\ tv_nsec >= x.nsec
           /\ tv_nsec' = tv_nsec - x.nsec
           /\ tv_sec' = tv_sec - x.sec
  BY <1>1, <1>2, <1>3, <1>5 DEF Normalised
<1> QED
  BY <1>4, <1>5 DEF minus

(* The product is divided by C's rules, the nanoseconds on their own: the  *)
(* two remainders agree because both have the sign of the factor.          *)
LEMMA TimesExact ==
  ASSUME Normalised, NEW a \in Int, times(a)
  PROVE  Normalised'
<1> DEFINE nsec  == a * tv_nsec
           total == a * tv_sec * OneSecond + nsec
           rest  == Remainder(nsec, OneSecond)
           sec   == Quotient(total, OneSecond)
           whole == Quotient(nsec, OneSecond)
           left  == Remainder(total, OneSecond)
<1>1. /\ OneSecond \in Nat \ {0}
      /\ tv_sec \in Nat /\ tv_nsec \in 0 .. OneSecond - 1 /\ exact \in Int
      /\ exact = tv_sec * OneSecond + tv_nsec
      /\ exact' = a * exact
  BY TimeAssumption DEF Normalised, times
<1>2. /\ nsec \in Int /\ a * tv_sec \in Int /\ a * tv_sec * OneSecond \in Int
      /\ total \in Int
  BY <1>1
<1>3. exact' = total
  <2>1. a * (tv_sec * OneSecond + tv_nsec) = a * (tv_sec * OneSecond) + a * tv_nsec
    BY <1>1, SMT
  <2>2. a * (tv_sec * OneSecond) = a * tv_sec * OneSecond
    BY <1>1, SMT
  <2> QED
    BY <1>1, <2>1, <2>2
<1>4. /\ sec \in Int /\ left \in -(OneSecond - 1) .. OneSecond - 1
      /\ total = sec * OneSecond + left
      /\ total >= 0 => left >= 0
      /\ total <= 0 => left <= 0
  BY <1>1, <1>2, DividesExactly
<1>5. /\ whole \in Int /\ rest \in -(OneSecond - 1) .. OneSecond - 1
      /\ nsec = whole * OneSecond + rest
      /\ nsec >= 0 => rest >= 0
      /\ nsec <= 0 => rest <= 0
  BY <1>1, <1>2, DividesExactly
<1>6. \/ nsec >= 0 /\ total >= 0
      \/ nsec <= 0 /\ total <= 0
  <2>1. CASE a >= 0
    <3>1. a * tv_sec >= 0 /\ nsec >= 0
      BY <1>1, <2>1
    <3>2. a * tv_sec * OneSecond >= 0
      BY <1>1, <1>2, <3>1
    <3> QED
      BY <1>2, <3>1, <3>2
  <2>2. CASE a < 0
    <3>1. a * tv_sec <= 0 /\ nsec <= 0
      BY <1>1, <2>2
    <3>2. a * tv_sec * OneSecond <= 0
      BY <1>1, <1>2, <3>1
    <3> QED
      BY <1>2, <3>1, <3>2
  <2> QED
    BY <2>1, <2>2
<1>7. left = rest
  <2> DEFINE k == sec - a * tv_sec - whole
  <2>1. k \in Int
    BY <1>2, <1>4, <1>5
  <2>2. k * OneSecond + left = rest
    <3>1. k * OneSecond = (sec - a * tv_sec) * OneSecond - whole * OneSecond
      BY <1>1, <1>2, <1>4, <1>5, Distributes
    <3>2. (sec - a * tv_sec) * OneSecond = sec * OneSecond - a * tv_sec * OneSecond
      BY <1>1, <1>2, <1>4, Distributes
    <3>3. sec * OneSecond \in Int /\ whole * OneSecond \in Int
      BY <1>1, <1>4, <1>5
    <3> HIDE DEF k, sec, whole, left, rest, nsec
    <3> QED
      BY <1>2, <1>4, <1>5, <3>1, <3>2, <3>3
  <2>3. (-k) * OneSecond = -(k * OneSecond) /\ k * OneSecond \in Int
    BY <1>1, <2>1
  <2> HIDE DEF k, sec, whole, left, rest, nsec, total
  <2>4. CASE left >= 0 /\ rest >= 0
    BY <1>1, <1>4, <1>5, <2>1, <2>2, <2>4, SameRemainder
  <2>5. CASE left <= 0 /\ rest <= 0
    <3>1. (-k) * OneSecond + (-left) = -rest
      BY <1>4, <1>5, <2>2, <2>3
    <3>2. -k \in Int /\ -left \in 0 .. OneSecond - 1 /\ -rest \in 0 .. OneSecond - 1
      BY <1>1, <1>4, <1>5, <2>1, <2>5
    <3>3. -left = -rest
      BY <1>1, <3>1, <3>2, SameRemainder
    <3> QED
      BY <1>4, <1>5, <3>3
  <2> QED
    BY <1>4, <1>5, <1>6, <2>4, <2>5
<1>8. \/ rest >= 0 /\ tv_nsec' = rest /\ tv_sec' = sec
      \/ rest < 0 /\ tv_nsec' = rest + OneSecond /\ tv_sec' = sec - 1
  BY DEF times
<1>9. (sec - 1) * OneSecond = sec * OneSecond - 1 * OneSecond /\ sec * OneSecond \in Int
  BY <1>1, <1>4, Distributes
<1>10. /\ exact' \in Int /\ exact' = sec * OneSecond + rest
       /\ sec \in Int /\ rest \in -(OneSecond - 1) .. OneSecond - 1
  BY <1>2, <1>3, <1>4, <1>5, <1>7
<1> HIDE DEF sec, whole, left, rest, nsec, total
<1>11. CASE rest >= 0 /\ tv_nsec' = rest /\ tv_sec' = sec
  BY <1>1, <1>10, <1>11 DEF Normalised
<1>12. CASE rest < 0 /\ tv_nsec' = rest + OneSecond /\ tv_sec' = sec - 1
  <2>1. tv_sec' \in Int /\ tv_nsec' \in 0 .. OneSecond - 1
    BY <1>1, <1>10, <1>12
  <2>2. tv_sec' * OneSecond + tv_nsec' = exact'
    BY <1>1, <1>9, <1>10, <1>12
  <2> QED
    BY <1>10, <2>1, <2>2 DEF Normalised
<1> QED
  BY <1>8, <1>11, <1>12

(* However long the library calculates with times, sums that carry,        *)
(* differences that borrow and products of any sign included, seconds and  *)
(* nanoseconds are the exact time, normalised, and comparing them compares *)
(* times.                                                                  *)
THEOREM TimesAreExact == TimeSpec => []TimeExact
<1>1. OneSecond \in Nat \ {0} /\ Factors \subseteq Int /\ MaxSeconds \in Nat
  BY TimeAssumption
<1>2. TimeInit => Normalised
  BY <1>1 DEF TimeInit, Normalised
<1>3. Normalised /\ [TimeNext]_timeVars => Normalised'
  <2> SUFFICES ASSUME Normalised, [TimeNext]_timeVars
               PROVE  Normalised'
    OBVIOUS
  <2>1. ASSUME NEW x \in Times, fromSeconds(x)
        PROVE  Normalised'
    <3>1. x.sec \in Int /\ x.nsec \in 0 .. OneSecond - 1
      BY <1>1 DEF Times
    <3>2. x.sec * OneSecond \in Int
      BY <1>1, <3>1
    <3> QED
      BY <1>1, <2>1, <3>1, <3>2 DEF fromSeconds, Value, Normalised
  <2>2. ASSUME NEW x \in Times, plus(x)
        PROVE  Normalised'
    BY <2>2, PlusExact
  <2>3. ASSUME NEW x \in Times, minus(x)
        PROVE  Normalised'
    BY <2>3, MinusExact
  <2>4. ASSUME NEW a \in Factors, times(a)
        PROVE  Normalised'
    BY <1>1, <2>4, TimesExact
  <2>5. CASE UNCHANGED timeVars
    BY <2>5 DEF timeVars, Normalised
  <2> QED
    BY <2>1, <2>2, <2>3, <2>4, <2>5 DEF TimeNext
<1>4. Normalised => TimeExact
  BY ComparesExactly
<1> QED
  BY <1>2, <1>3, <1>4, PTL DEF TimeSpec

----------------------------------------------------------------------------
(* Waiting for requests: the inductive invariant *)

WaitPlaces == {"idle", "posting", "looping", "finishing", "barrier"}
Pieces == [msg : Planned, round : Nat, from : Nat, n : Nat \ {0}]

Buffer(p, m) == buffers[p][m.tag + 1]
GotTo(p, m)  == EndAt(Buffer(p, m), Len(Buffer(p, m)))
Width(p)     == Cardinality(Incoming(p, round[p]))

(* Where each process is: it has entered the barrier of every round behind *)
(* it.                                                                     *)
WaitTypeOK ==
  /\ waitall \in [Procs -> WaitPlaces]
  /\ round \in [Procs -> 0 .. Len(Rounds)]
  /\ calls \in [Procs -> Seq([op : {"barrier"}])]
  /\ toSend \in [Procs -> SUBSET Planned]
  /\ m_largeSends \in [Procs -> SUBSET Pieces]
  /\ channel \in [Procs -> [Procs -> Seq(Pieces)]]
  /\ DOMAIN buffers = Procs /\ DOMAIN m_irecvs = Procs /\ DOMAIN nMsgs = Procs
  /\ \A p \in Procs :
       /\ waitall[p] # "idle" => round[p] > 0
       /\ Len(calls[p]) = IF waitall[p] \in {"idle", "barrier"} THEN round[p] ELSE round[p] - 1
       /\ round[p] > 0 => buffers[p] \in [1 .. Width(p) -> Seq(Pieces)]
       /\ waitall[p] \in {"posting", "looping"} => m_irecvs[p] \in [1 .. Width(p) -> Nat]

(* Nobody leaves the barrier of a round that another has not entered.      *)
Apart ==
  \A p, q \in Procs :
    Len(calls[q]) >= IF waitall[p] = "idle" THEN round[p] ELSE round[p] - 1

(* What is to be sent, and what a next chunk has to follow, is of the      *)
(* round, one chunk of each message.                                       *)
ToBeSent ==
  \A q \in Procs :
    /\ toSend[q] # {} => waitall[q] = "posting"
    /\ m_largeSends[q] # {} => waitall[q] \in {"posting", "looping"}
    /\ \A m \in toSend[q] : m \in Outgoing(q, round[q])
    /\ \A c \in m_largeSends[q] :
         /\ c.msg \in Outgoing(q, round[q]) \ toSend[q]
         /\ c.from + c.n < c.msg.size
         /\ \A d \in m_largeSends[q] : c.msg = d.msg => c = d

(* What is in a channel is of the round of its sender.                     *)
InChannel ==
  \A q, p \in Procs : \A i \in DOMAIN channel[q][p] :
    /\ channel[q][p][i].round = round[q] /\ round[q] > 0
    /\ channel[q][p][i].msg \in Outgoing(q, round[q])
    /\ channel[q][p][i].msg.dst = p
    /\ channel[q][p][i].from < channel[q][p][i].msg.size
    /\ channel[q][p][i].n =
         Smaller(MaxSend, channel[q][p][i].msg.size - channel[q][p][i].from)

(* The places of a message in a channel, and that those of I lead from     *)
(* byte b to byte n.                                                       *)
Pos(s, m) == {i \in DOMAIN s : s[i].msg = m}
Before(I, i) == {j \in I : j < i}
Leads(b, s, I, n) ==
  \/ I = {} /\ n = b
  \/ \E i \in I : (\A j \in I : j <= i) /\ s[i].from + s[i].n = n
Chain(b, s, I) == \A i \in I : Leads(b, s, Before(I, i), s[i].from)

\* n bytes of message m have been given to MPI.
Sent(q, m, n) ==
  \/ m \in toSend[q] /\ n = 0
  \/ m \notin toSend[q] /\ \E c \in m_largeSends[q] : c.msg = m /\ n = c.from + c.n
  \/ m \notin toSend[q] /\ (\A c \in m_largeSends[q] : c.msg # m) /\ n = m.size

(* Behind what has been received come the chunks in the channel, in order, *)
(* up to what has been sent.                                               *)
Received(p, q, m) == IF round[p] = round[q] THEN GotTo(p, m) ELSE 0
Streams(p, q, m) ==
  /\ Chain(Received(p, q, m), channel[q][p], Pos(channel[q][p], m))
  /\ \A n : Sent(q, m, n) =>
       Leads(Received(p, q, m), channel[q][p], Pos(channel[q][p], m), n)
AllStreams ==
  \A p, q \in Procs : round[q] > 0 /\ round[p] <= round[q] =>
    \A m \in Outgoing(q, round[q]) : m.dst = p => Streams(p, q, m)

(* A buffer has the first bytes of its message.                            *)
BufferOK(p, m) ==
  /\ \A i \in DOMAIN Buffer(p, m) :
       /\ Buffer(p, m)[i].msg = m
       /\ Buffer(p, m)[i].round = round[p]
       /\ Buffer(p, m)[i].from = EndAt(Buffer(p, m), i - 1)
       /\ round[m.src] >= round[p]
  /\ GotTo(p, m) \in 0 .. m.size
  /\ waitall[p] \in {"posting", "looping"} /\ GotTo(p, m) < m.size =>
       m_irecvs[p][m.tag + 1] = m.size - GotTo(p, m)
Buffered ==
  \A p \in Procs : round[p] > 0 => \A m \in Incoming(p, round[p]) : BufferOK(p, m)

(* nMsgs is how many messages are missing, none behind the loop.           *)
Missing(p) == {m \in Incoming(p, round[p]) : GotTo(p, m) < m.size}
Behind == {"finishing", "barrier", "idle"}
Counted ==
  \A p \in Procs : round[p] > 0 =>
    /\ nMsgs[p] = Cardinality(Missing(p))
    /\ waitall[p] \in Behind => Missing(p) = {}

(* Nothing is left for a process that is through with the round of its     *)
(* sender.                                                                 *)
Past(p, q) == \/ round[p] > round[q]
              \/ round[p] = round[q] /\ waitall[p] \in Behind
Drained == \A p, q \in Procs : Past(p, q) => channel[q][p] = << >>

WaitIInv == /\ WaitTypeOK /\ Apart /\ ToBeSent /\ InChannel /\ AllStreams
            /\ Buffered /\ Counted /\ Drained

(* The messages of a round: a tag belongs to one of them, and its place is *)
(* there.                                                                  *)
LEMMA Tags ==
  ASSUME NEW k \in 1 .. Len(Rounds), NEW p \in Procs
  PROVE  /\ Rounds[k] \subseteq Planned
         /\ IsFiniteSet(Incoming(p, k)) /\ Cardinality(Incoming(p, k)) \in Nat
         /\ \A m \in Incoming(p, k) :
              /\ m \in Planned /\ m.dst = p
              /\ m.tag + 1 \in 1 .. Cardinality(Incoming(p, k))
              /\ MessageAt(p, k, m.tag) = m
         /\ \A m, n \in Incoming(p, k) : m.tag + 1 = n.tag + 1 => m = n
<1>1. /\ Rounds \in Seq(SUBSET Planned) /\ k \in DOMAIN Rounds
  BY RoundsAssumption
<1>2. Rounds[k] \subseteq Planned /\ IsFiniteSet(Rounds[k])
  BY <1>1, RoundsAssumption
<1> DEFINE In == Incoming(p, k)
<1>3. In = {m \in Rounds[k] : m.dst = p} /\ In \subseteq Rounds[k]
  BY DEF Incoming
<1>4. IsFiniteSet(In) /\ Cardinality(In) \in Nat
  BY <1>2, <1>3, FS_Subset, FS_CardinalityType
<1>5. /\ {m.tag : m \in In} = 0 .. Cardinality(In) - 1
      /\ \A m, n \in In : m.tag = n.tag => m = n
  BY <1>1, <1>3, RoundsAssumption
<1> HIDE DEF In
<1>6. \A m \in In : m \in Planned /\ m.dst = p /\ m.tag \in Nat
  BY <1>2, <1>3 DEF Planned
<1>7. \A m \in In : m.tag + 1 \in 1 .. Cardinality(In)
  <2>1. \A m \in In : m.tag \in 0 .. Cardinality(In) - 1
    BY <1>5
  <2> QED BY <1>4, <2>1
<1>8. \A m \in In : MessageAt(p, k, m.tag) = m
  BY <1>5 DEF MessageAt, In
<1>9. \A m, n \in In : m.tag + 1 = n.tag + 1 => m = n
  BY <1>5, <1>6
<1> QED
  BY <1>2, <1>4, <1>6, <1>7, <1>8, <1>9 DEF In

(* A channel that changes is the only one.                                 *)
LEMMA OneChannel ==
  ASSUME NEW f \in [Procs -> [Procs -> Seq(Pieces)]], NEW a \in Procs, NEW b \in Procs,
         NEW v \in Seq(Pieces)
  PROVE  /\ [f EXCEPT ![a][b] = v] \in [Procs -> [Procs -> Seq(Pieces)]]
         /\ [f EXCEPT ![a][b] = v][a][b] = v
         /\ \A x, y \in Procs : ~ (x = a /\ y = b) => [f EXCEPT ![a][b] = v][x][y] = f[x][y]
  OBVIOUS

(* A chunk appended where the others of its message end continues them,    *)
(* and disturbs no other message.                                          *)
LEMMA AppendLeads ==
  ASSUME NEW b, NEW s \in Seq(Pieces), NEW e \in Pieces, NEW m
  PROVE  LET t == Append(s, e)
             I == Pos(s, m)
             J == Pos(t, m) IN
         /\ e.msg # m => /\ Chain(b, s, I) => Chain(b, t, J)
                         /\ \A n : Leads(b, s, I, n) => Leads(b, t, J, n)
         /\ e.msg = m /\ Chain(b, s, I) /\ Leads(b, s, I, e.from) =>
              Chain(b, t, J) /\ Leads(b, t, J, e.from + e.n)
<1> DEFINE t == Append(s, e)
           I == Pos(s, m)
           J == Pos(t, m)
           l == Len(s) + 1
<1>1. /\ DOMAIN s = 1 .. Len(s) /\ DOMAIN t = 1 .. l /\ Len(s) \in Nat
      /\ \A i \in 1 .. Len(s) : t[i] = s[i]
      /\ t[l] = e
  OBVIOUS
<1>2. I \subseteq 1 .. Len(s) /\ l \notin I
  BY <1>1 DEF Pos
<1>3. /\ e.msg # m => J = I
      /\ e.msg = m => J = I \cup {l}
  BY <1>1 DEF Pos
<1> HIDE DEF t, I, J
<1>4. ASSUME NEW K \in SUBSET I, NEW n, Leads(b, s, K, n)
      PROVE  Leads(b, t, K, n)
  BY <1>1, <1>2, <1>4 DEF Leads
<1>5. ASSUME Chain(b, s, I), NEW i \in I
      PROVE  Leads(b, t, Before(I, i), t[i].from)
  <2>1. Leads(b, s, Before(I, i), s[i].from)
    BY <1>5 DEF Chain
  <2>2. Before(I, i) \in SUBSET I /\ t[i].from = s[i].from
    BY <1>1, <1>2 DEF Before
  <2> QED BY <1>4, <2>1, <2>2
<1>6. CASE e.msg # m
  <2>1. I = J /\ I \in SUBSET I
    BY <1>3, <1>6
  <2> QED BY <1>4, <1>5, <1>6, <2>1 DEF Chain, I, J, t
<1>7. ASSUME e.msg = m, Chain(b, s, I), Leads(b, s, I, e.from)
      PROVE  Chain(b, t, J) /\ Leads(b, t, J, e.from + e.n)
  <2>1. J = I \cup {l}
    BY <1>3, <1>7
  <2>2. \A j \in J : j <= l
    BY <1>1, <1>2, <2>1
  <2>3. Leads(b, t, J, e.from + e.n)
    BY <1>1, <2>1, <2>2 DEF Leads
  <2>4. Before(J, l) = I
    <3>1. \A j \in I : j \in J /\ j < l
      BY <1>1, <1>2, <2>1
    <3>2. \A j \in J : j < l => j \in I
      BY <1>1, <2>1
    <3> HIDE DEF l
    <3> QED BY <3>1, <3>2 DEF Before
  <2>5. \A i \in I : Before(J, i) = Before(I, i)
    <3>1. \A i \in I : ~ (l < i) /\ l # i
      BY <1>1, <1>2
    <3> HIDE DEF l
    <3> QED BY <2>1, <3>1 DEF Before
  <2>6. ASSUME NEW i \in J PROVE Leads(b, t, Before(J, i), t[i].from)
    <3>1. CASE i = l
      <4>1. Leads(b, t, I, e.from)
        BY <1>4, <1>7
      <4> QED BY <1>1, <2>4, <3>1, <4>1
    <3>2. CASE i \in I
      <4>1. Leads(b, t, Before(I, i), t[i].from)
        BY <1>5, <1>7, <3>2
      <4> QED BY <2>5, <3>2, <4>1
    <3> QED BY <2>1, <3>1, <3>2
  <2> QED BY <2>3, <2>6 DEF Chain
<1> QED
  BY <1>6, <1>7 DEF t, I, J

(* Receiving the first chunk of a channel moves the others one place up:   *)
(* those of its message now start behind it.                               *)
LEMMA TailLeads ==
  ASSUME NEW b, NEW s \in Seq(Pieces), s # << >>, NEW m
  PROVE  LET t == Tail(s)
             I == Pos(s, m)
             J == Pos(t, m)
             a == IF s[1].msg = m THEN s[1].from + s[1].n ELSE b IN
         /\ Chain(b, s, I) => Chain(a, t, J)
         /\ \A n : Leads(b, s, I, n) => Leads(a, t, J, n)
<1> DEFINE t == Tail(s)
           I == Pos(s, m)
           J == Pos(t, m)
           a == IF s[1].msg = m THEN s[1].from + s[1].n ELSE b
           Up(K) == {j \in J : j + 1 \in K}
<1>1. /\ DOMAIN s = 1 .. Len(s) /\ DOMAIN t = 1 .. Len(s) - 1 /\ Len(s) \in Nat \ {0}
      /\ \A i \in 1 .. Len(s) - 1 : t[i] = s[i + 1]
  OBVIOUS
<1>2. /\ I \subseteq 1 .. Len(s) /\ J \subseteq 1 .. Len(s) - 1
      /\ 1 \in I <=> s[1].msg = m
      /\ \A j \in J : j + 1 \in I /\ t[j] = s[j + 1]
      /\ \A i \in I : i # 1 => i - 1 \in J
  BY <1>1 DEF Pos
<1> HIDE DEF t, I, J
<1>3. ASSUME NEW K \in SUBSET I, 1 \in I => 1 \in K \/ K = {}, NEW n, Leads(b, s, K, n),
             K = {} => 1 \notin I
      PROVE  Leads(a, t, Up(K), n)
  <2>1. CASE K = {}
    <3>1. a = b /\ Up(K) = {} /\ n = b
      BY <1>2, <1>3, <2>1 DEF Leads
    <3> QED BY <3>1 DEF Leads
  <2>2. CASE K # {}
    <3>1. PICK i \in K : (\A j \in K : j <= i) /\ s[i].from + s[i].n = n
      BY <1>3, <2>2 DEF Leads
    <3>2. CASE i = 1
      <4>1. Up(K) = {}
        <5>1. \A j \in J : j + 1 \notin K
          BY <1>1, <1>2, <3>1, <3>2
        <5> QED BY <5>1
      <4>2. a = n
        BY <1>2, <3>1, <3>2
      <4> QED BY <4>1, <4>2 DEF Leads
    <3>3. CASE i # 1
      <4>1. i - 1 \in J /\ (i - 1) + 1 = i
        BY <1>1, <1>2, <3>3
      <4>2. i - 1 \in Up(K) /\ t[i - 1] = s[i]
        BY <1>2, <4>1
      <4>3. \A j \in Up(K) : j <= i - 1
        BY <1>1, <1>2, <3>1
      <4> HIDE DEF Up
      <4> QED BY <3>1, <4>2, <4>3 DEF Leads
    <3> QED BY <3>2, <3>3
  <2> QED BY <2>1, <2>2
<1>4. ASSUME NEW n, Leads(b, s, I, n) PROVE Leads(a, t, J, n)
  <2>1. Up(I) = J
    BY <1>2
  <2> QED BY <1>3, <1>4, <2>1
<1>5. ASSUME Chain(b, s, I), NEW j \in J
      PROVE  Leads(a, t, Before(J, j), t[j].from)
  <2>1. j + 1 \in I /\ t[j] = s[j + 1] /\ j \in Nat \ {0}
    BY <1>1, <1>2
  <2>2. Leads(b, s, Before(I, j + 1), t[j].from)
    BY <1>5, <2>1 DEF Chain
  <2>3. Before(I, j + 1) \in SUBSET I /\ (1 \in I => 1 \in Before(I, j + 1))
    BY <2>1 DEF Before
  <2>4. Up(Before(I, j + 1)) = Before(J, j)
    <3>1. \A i \in J : i \in Nat /\ i + 1 \in I
      BY <1>1, <1>2
    <3>2. \A i \in J : i + 1 < j + 1 <=> i < j
      BY <2>1, <3>1
    <3> QED BY <3>1, <3>2 DEF Before
  <2> HIDE DEF Up
  <2> QED BY <1>3, <2>2, <2>3, <2>4
<1> QED
  BY <1>4, <1>5 DEF Chain, t, I, J

(* The invariant at the start.                                             *)
LEMMA WaitStarts == WaitInit => WaitIInv
<1> SUFFICES ASSUME WaitInit PROVE WaitIInv
  OBVIOUS
<1>1. /\ \A p \in Procs : /\ waitall[p] = "idle" /\ round[p] = 0 /\ toSend[p] = {}
                          /\ m_largeSends[p] = {} /\ calls[p] = << >> /\ Len(calls[p]) = 0
      /\ \A q, p \in Procs : channel[q][p] = << >>
  BY DEF WaitInit
<1>2. Len(Rounds) \in Nat
  BY RoundsAssumption
<1>3. WaitTypeOK
  BY <1>1, <1>2 DEF WaitInit, WaitTypeOK, WaitPlaces
<1>4. Apart /\ ToBeSent /\ InChannel /\ Drained
  BY <1>1 DEF Apart, ToBeSent, InChannel, Drained
<1>5. AllStreams /\ Buffered /\ Counted
  BY <1>1 DEF AllStreams, Buffered, Counted
<1> QED
  BY <1>3, <1>4, <1>5 DEF WaitIInv

(* The numbers that a process with a round has.                            *)
LEMMA WaitNumbers ==
  ASSUME WaitTypeOK, NEW p \in Procs
  PROVE  /\ round[p] \in Nat /\ Len(calls[p]) \in Nat /\ Len(Rounds) \in Nat
         /\ waitall[p] \in WaitPlaces
         /\ round[p] > 0 => round[p] \in 1 .. Len(Rounds)
         /\ Len(calls[p]) = IF waitall[p] \in {"idle", "barrier"} THEN round[p]
                            ELSE round[p] - 1
<1>1. Len(Rounds) \in Nat
  BY RoundsAssumption
<1>2. round[p] \in 0 .. Len(Rounds) /\ calls[p] \in Seq([op : {"barrier"}])
  BY DEF WaitTypeOK
<1>3. Len(calls[p]) \in Nat
  BY <1>2
<1> QED
  BY <1>1, <1>2, <1>3 DEF WaitTypeOK

(* When a process is about to start a round everybody is through with its  *)
(* last one, and nothing that it has sent is left.                         *)
LEMMA IdleIsPast ==
  ASSUME WaitIInv, NEW p \in Procs, waitall[p] = "idle", NEW q \in Procs
  PROVE  Past(q, p) /\ channel[p][q] = << >>
<1>1. Len(calls[q]) >= round[p]
  BY DEF WaitIInv, Apart
<1>2. /\ round[p] \in Nat /\ round[q] \in Nat
      /\ Len(calls[q]) = IF waitall[q] \in {"idle", "barrier"} THEN round[q] ELSE round[q] - 1
  BY WaitNumbers DEF WaitIInv
<1>3. Past(q, p)
  BY <1>1, <1>2 DEF Past, Behind
<1> QED
  BY <1>3 DEF WaitIInv, Drained

(* Who still has something to send or to receive has not been left behind. *)
LEMMA NotLeftBehind ==
  ASSUME WaitIInv, NEW p \in Procs, waitall[p] \in {"posting", "looping"}, NEW q \in Procs
  PROVE  round[q] <= round[p]
<1>1. Len(calls[p]) >= IF waitall[q] = "idle" THEN round[q] ELSE round[q] - 1
  BY DEF WaitIInv, Apart
<1>2. /\ round[p] \in Nat /\ round[q] \in Nat
      /\ Len(calls[p]) = round[p] - 1
  BY WaitNumbers DEF WaitIInv
<1> QED
  BY <1>1, <1>2

(* Steps that leave a stream alone, and steps that leave a buffer alone.   *)
LEMMA StreamFrame ==
  ASSUME NEW p, NEW q, NEW m, channel'[q][p] = channel[q][p],
         Received(p, q, m)' = Received(p, q, m),
         \A n : Sent(q, m, n)' => Sent(q, m, n),
         Streams(p, q, m)
  PROVE  Streams(p, q, m)'
<1>1. /\ Chain(Received(p, q, m), channel[q][p], Pos(channel[q][p], m))
      /\ \A n : Sent(q, m, n) =>
           Leads(Received(p, q, m), channel[q][p], Pos(channel[q][p], m), n)
  BY DEF Streams
<1>2. /\ Chain(Received(p, q, m)', channel'[q][p], Pos(channel'[q][p], m))
      /\ \A n : Sent(q, m, n)' =>
           Leads(Received(p, q, m)', channel'[q][p], Pos(channel'[q][p], m), n)
  BY <1>1, Zenon
<1> QED
  BY <1>2 DEF Streams

LEMMA SentFrame ==
  ASSUME NEW q, NEW m, toSend'[q] = toSend[q], m_largeSends'[q] = m_largeSends[q]
  PROVE  \A n : Sent(q, m, n)' <=> Sent(q, m, n)
BY DEF Sent

LEMMA BufferFrame ==
  ASSUME NEW p, NEW m, buffers'[p] = buffers[p], round'[p] = round[p],
         round[m.src] >= round[p] => round'[m.src] >= round[p],
         waitall'[p] \in {"posting", "looping"} =>
           waitall[p] \in {"posting", "looping"} /\ m_irecvs'[p] = m_irecvs[p],
         BufferOK(p, m)
  PROVE  BufferOK(p, m)' /\ GotTo(p, m)' = GotTo(p, m)
<1>1. Buffer(p, m)' = Buffer(p, m) /\ GotTo(p, m)' = GotTo(p, m)
  BY DEF Buffer, GotTo
<1> QED
  BY <1>1 DEF BufferOK

(* A process posts its receives and starts a round.                        *)
LEMMA IrecvKeeps ==
  ASSUME WaitIInv, NEW p \in Procs, irecv(p) PROVE WaitIInv'
<1> DEFINE k  == round[p] + 1
           In == Incoming(p, k)
           n  == Cardinality(In)
<1>1. /\ waitall[p] = "idle" /\ round[p] < Len(Rounds)
      /\ round'    = [round EXCEPT ![p] = k]
      /\ m_irecvs' = [m_irecvs EXCEPT ![p] = [i \in 1 .. n |-> MessageAt(p, k, i - 1).size]]
      /\ nMsgs'    = [nMsgs EXCEPT ![p] = Cardinality({m \in In : m.size > 0})]
      /\ buffers'  = [buffers EXCEPT ![p] = [i \in 1 .. n |-> <<>>]]
      /\ toSend'   = [toSend EXCEPT ![p] = Outgoing(p, k)]
      /\ waitall'  = [waitall EXCEPT ![p] = "posting"]
      /\ m_largeSends' = m_largeSends /\ channel' = channel /\ calls' = calls
  BY DEF irecv
<1>2. /\ WaitTypeOK
      /\ waitall \in [Procs -> WaitPlaces] /\ round \in [Procs -> 0 .. Len(Rounds)]
      /\ toSend \in [Procs -> SUBSET Planned]
      /\ DOMAIN buffers = Procs /\ DOMAIN m_irecvs = Procs /\ DOMAIN nMsgs = Procs
      /\ Len(Rounds) \in Nat /\ \A q \in Procs : round[q] \in Nat
  BY WaitNumbers DEF WaitIInv, WaitTypeOK
<1>3. k \in 1 .. Len(Rounds) /\ k \in Nat /\ k > 0
  BY <1>1, <1>2
<1>4. /\ \A m \in In : /\ m \in Planned /\ m.dst = p /\ m.tag + 1 \in 1 .. n
                       /\ MessageAt(p, k, m.tag) = m
      /\ n \in Nat /\ Rounds[k] \subseteq Planned
      /\ \A i \in 1 .. n : \E m \in In : i - 1 = m.tag
  <2>1. k \in DOMAIN Rounds
    BY <1>3, RoundsAssumption
  <2>2. {m.tag : m \in In} = 0 .. n - 1
    BY <2>1, RoundsAssumption DEF Incoming
  <2>3. n \in Nat
    BY <1>3, Tags
  <2>4. \A i \in 1 .. n : i - 1 \in 0 .. n - 1
    BY <2>3
  <2>5. \A i \in 1 .. n : \E m \in In : i - 1 = m.tag
    BY <2>2, <2>4
  <2> QED BY <1>3, <2>5, Tags
<1>5. /\ \A q \in Procs : q # p =>
           /\ waitall'[q] = waitall[q] /\ round'[q] = round[q] /\ toSend'[q] = toSend[q]
           /\ m_irecvs'[q] = m_irecvs[q] /\ nMsgs'[q] = nMsgs[q] /\ buffers'[q] = buffers[q]
      /\ waitall'[p] = "posting" /\ round'[p] = k /\ toSend'[p] = Outgoing(p, k)
      /\ m_irecvs'[p] = [i \in 1 .. n |-> MessageAt(p, k, i - 1).size]
      /\ nMsgs'[p] = Cardinality({m \in In : m.size > 0})
      /\ buffers'[p] = [i \in 1 .. n |-> << >>]
  BY <1>1, <1>2
<1>6. m_largeSends[p] = {}
  BY <1>1 DEF WaitIInv, ToBeSent
<1>7. \A q \in Procs : Past(q, p) /\ channel[p][q] = << >>
  BY <1>1, IdleIsPast
<1>8. \A m \in In : (Buffer(p, m) = << >>)' /\ (GotTo(p, m) = 0)'
  <2>1. \A m \in In : buffers'[p][m.tag + 1] = << >>
    BY <1>4, <1>5
  <2>2. Len(<< >>) = 0
    OBVIOUS
  <2> QED BY <2>1, <2>2 DEF Buffer, GotTo, EndAt
<1>9. Incoming(p, round'[p]) = In
  BY <1>5 DEF Incoming
<1> HIDE DEF k, In, n
<1>10. WaitTypeOK'
  <2>1. /\ waitall' \in [Procs -> WaitPlaces] /\ round' \in [Procs -> 0 .. Len(Rounds)]
        /\ DOMAIN buffers' = Procs /\ DOMAIN m_irecvs' = Procs /\ DOMAIN nMsgs' = Procs
    BY <1>1, <1>2, <1>3 DEF WaitPlaces
  <2>2. toSend' \in [Procs -> SUBSET Planned]
    BY <1>1, <1>2, <1>4 DEF Outgoing
  <2>3. \A q \in Procs : /\ waitall'[q] # "idle" => round'[q] > 0
                         /\ Len(calls[q]) = IF waitall'[q] \in {"idle", "barrier"}
                                            THEN round'[q] ELSE round'[q] - 1
    <3>1. Len(calls[p]) = k - 1
      BY <1>1, <1>2, WaitNumbers DEF k
    <3> QED BY <1>2, <1>3, <1>5, <3>1 DEF WaitTypeOK
  <2>4. \A q \in Procs :
          /\ round'[q] > 0 => buffers'[q] \in [1 .. Width(q)' -> Seq(Pieces)]
          /\ waitall'[q] \in {"posting", "looping"} => m_irecvs'[q] \in [1 .. Width(q)' -> Nat]
    <3>1. \A q \in Procs : q # p => Width(q)' = Width(q)
      BY <1>5 DEF Width, Incoming
    <3>2. Width(p)' = n
      BY <1>5 DEF Width, Incoming, n, In
    <3>3. << >> \in Seq(Pieces)
      OBVIOUS
    <3>4. \A i \in 1 .. n : MessageAt(p, k, i - 1).size \in Nat
      BY <1>4 DEF Planned
    <3>5. /\ buffers'[p] \in [1 .. n -> Seq(Pieces)]
          /\ m_irecvs'[p] \in [1 .. n -> Nat]
      BY <1>5, <3>3, <3>4
    <3>6. ASSUME NEW q \in Procs, q # p
          PROVE  /\ round[q] > 0 => buffers[q] \in [1 .. Width(q) -> Seq(Pieces)]
                 /\ waitall[q] \in {"posting", "looping"} =>
                      m_irecvs[q] \in [1 .. Width(q) -> Nat]
      BY <1>2 DEF WaitTypeOK
    <3> QED BY <1>5, <3>1, <3>2, <3>5, <3>6
  <2> QED BY <1>1, <1>2, <2>1, <2>2, <2>3, <2>4 DEF WaitTypeOK
<1>11. Apart'
  <2>1. \A q \in Procs : Len(calls[q]) >= round[p]
    BY <1>1 DEF WaitIInv, Apart
  <2>2. k - 1 = round[p]
    BY <1>2 DEF k
  <2> QED BY <1>1, <1>5, <2>1, <2>2 DEF WaitIInv, Apart
<1>12. ToBeSent'
  <2> SUFFICES ASSUME NEW q \in Procs
               PROVE  /\ toSend'[q] # {} => waitall'[q] = "posting"
                      /\ m_largeSends[q] # {} => waitall'[q] \in {"posting", "looping"}
                      /\ \A m \in toSend'[q] : m \in Outgoing(q, round'[q])
                      /\ \A c \in m_largeSends[q] :
                           /\ c.msg \in Outgoing(q, round'[q]) \ toSend'[q]
                           /\ c.from + c.n < c.msg.size
                           /\ \A d \in m_largeSends[q] : c.msg = d.msg => c = d
    BY <1>1 DEF ToBeSent, Outgoing
  <2>1. CASE q = p
    BY <1>5, <1>6, <2>1
  <2>2. CASE q # p
    BY <1>5, <2>2 DEF WaitIInv, ToBeSent
  <2> QED BY <2>1, <2>2
<1>13. InChannel'
  <2> SUFFICES ASSUME NEW q \in Procs, NEW r \in Procs, NEW i \in DOMAIN channel[q][r]
               PROVE  /\ channel[q][r][i].round = round'[q] /\ round'[q] > 0
                      /\ channel[q][r][i].msg \in Outgoing(q, round'[q])
                      /\ channel[q][r][i].msg.dst = r
                      /\ channel[q][r][i].from < channel[q][r][i].msg.size
                      /\ channel[q][r][i].n =
                           Smaller(MaxSend, channel[q][r][i].msg.size - channel[q][r][i].from)
    BY <1>1 DEF InChannel, Outgoing
  <2>1. q # p
    BY <1>7
  <2> QED BY <1>5, <2>1 DEF WaitIInv, InChannel
<1>14. AllStreams'
  <2> SUFFICES ASSUME NEW r \in Procs, NEW q \in Procs, round'[q] > 0, round'[r] <= round'[q],
                      NEW m \in Outgoing(q, round'[q]), m.dst = r
               PROVE  Streams(r, q, m)'
    BY DEF AllStreams, Outgoing
  <2>1. CASE q = p
    <3>1. \A x : Sent(p, m, x)' => x = 0
      BY <1>1, <1>5, <1>6, <2>1 DEF Sent
    <3>2. Received(r, p, m)' = 0
      <4>1. CASE r = p
        <5>1. m \in In
          BY <1>5, <2>1, <4>1 DEF In, Incoming, Outgoing
        <5> QED BY <1>8, <4>1, <5>1 DEF Received
      <4>2. CASE r # p /\ round[r] = k
        <5>1. m \in Incoming(r, round[r]) /\ m.src = p
          BY <1>5, <2>1, <4>2 DEF Incoming, Outgoing
        <5>2. BufferOK(r, m)
          BY <1>3, <4>2, <5>1 DEF WaitIInv, Buffered
        <5>3. \A i \in DOMAIN Buffer(r, m) : FALSE
          BY <1>2, <4>2, <5>1, <5>2 DEF BufferOK, k
        <5>4. Buffer(r, m) \in Seq(Pieces)
          <6>1. m.tag + 1 \in 1 .. Width(r)
            BY <1>3, <4>2, <5>1, Tags DEF Width
          <6>2. buffers[r] \in [1 .. Width(r) -> Seq(Pieces)]
            BY <1>2, <1>3, <4>2 DEF WaitTypeOK
          <6> QED BY <6>1, <6>2 DEF Buffer
        <5>5. Len(Buffer(r, m)) = 0
          <6>1. Len(Buffer(r, m)) \in Nat /\ DOMAIN Buffer(r, m) = 1 .. Len(Buffer(r, m))
            BY <5>4
          <6>2. \A l \in Nat : l # 0 => 1 \in 1 .. l
            OBVIOUS
          <6> QED BY <5>3, <6>1, <6>2, Zenon
        <5>6. GotTo(r, m) = 0
          BY <5>5 DEF GotTo, EndAt
        <5>7. GotTo(r, m)' = GotTo(r, m)
          BY <1>5, <4>2 DEF GotTo, Buffer
        <5> QED BY <1>5, <4>2, <5>6, <5>7 DEF Received
      <4>3. CASE r # p /\ round[r] # k
        BY <1>5, <4>3 DEF Received
      <4> QED BY <4>1, <4>2, <4>3
    <3>3. channel'[p][r] = << >>
      BY <1>1, <1>7
    <3>4. Pos(<< >>, m) = {}
      BY DEF Pos
    <3> QED BY <2>1, <3>1, <3>2, <3>3, <3>4 DEF Streams, Chain, Leads
  <2>2. CASE q # p
    <3>1. round'[q] = round[q] /\ round[r] <= round[q]
      BY <1>2, <1>5, <2>2 DEF k
    <3>2. Streams(r, q, m)
      BY <2>2, <3>1 DEF WaitIInv, AllStreams
    <3>3. Received(r, q, m)' = Received(r, q, m)
      <4>1. CASE r = p
        <5>1. round[p] # round[q]
          BY <1>2, <1>5, <3>1, <4>1 DEF k
        <5>2. CASE k = round[q]
          <6>1. m \in In
            BY <2>2, <3>1, <4>1, <5>2 DEF In, Incoming, Outgoing
          <6> QED BY <1>5, <1>8, <2>2, <4>1, <5>1, <6>1 DEF Received
        <5>3. CASE k # round[q]
          BY <1>5, <2>2, <4>1, <5>1, <5>3 DEF Received
        <5> QED BY <5>2, <5>3
      <4>2. CASE r # p
        BY <1>5, <2>2, <4>2 DEF Received, GotTo, Buffer
      <4> QED BY <4>1, <4>2
    <3>4. \A x : Sent(q, m, x)' => Sent(q, m, x)
      BY <1>1, <1>5, <2>2, SentFrame
    <3> QED BY <1>1, <3>2, <3>3, <3>4, StreamFrame
  <2> QED BY <2>1, <2>2
<1>15. ASSUME NEW r \in Procs, r # p, round'[r] > 0, NEW m \in Incoming(r, round'[r])
       PROVE  BufferOK(r, m)' /\ GotTo(r, m)' = GotTo(r, m)
  <2>1. BufferOK(r, m)
    BY <1>5, <1>15 DEF WaitIInv, Buffered
  <2>2. m.src \in Procs
    <3>1. m \in Planned
      BY <1>5, <1>15, <1>2, WaitNumbers, Tags
    <3> QED BY <3>1 DEF Planned
  <2>3. round'[m.src] >= round[m.src] /\ round'[m.src] \in Nat
    BY <1>2, <1>3, <1>5, <2>2 DEF k
  <2>4. round[m.src] >= round[r] => round'[m.src] >= round[r]
    BY <1>2, <2>2, <2>3
  <2> QED BY <1>5, <1>15, <2>1, <2>4, BufferFrame
<1>16. Buffered'
  <2> SUFFICES ASSUME NEW r \in Procs, round'[r] > 0, NEW m \in Incoming(r, round'[r])
               PROVE  BufferOK(r, m)'
    BY DEF Buffered, Incoming
  <2>1. CASE r # p
    BY <1>15, <2>1
  <2>2. CASE r = p
    <3>1. m \in In
      BY <1>9, <2>2
    <3>2. m \in Planned /\ m.tag + 1 \in 1 .. n /\ MessageAt(p, k, m.tag) = m
          /\ (m.tag + 1) - 1 = m.tag
      BY <1>4, <3>1 DEF Planned
    <3>3. m_irecvs'[p][m.tag + 1] = m.size /\ m.size \in Nat
      BY <1>5, <3>2 DEF Planned
    <3>4. (Buffer(p, m) = << >>)' /\ (GotTo(p, m) = 0)'
      BY <1>8, <3>1
    <3> QED BY <2>2, <3>3, <3>4 DEF BufferOK
  <2> QED BY <2>1, <2>2
<1>17. Counted'
  <2> SUFFICES ASSUME NEW r \in Procs, round'[r] > 0
               PROVE  /\ nMsgs'[r] = Cardinality(Missing(r)')
                      /\ waitall'[r] \in Behind => Missing(r)' = {}
    BY DEF Counted
  <2>1. CASE r # p
    <3>1. Missing(r)' = Missing(r)
      <4>1. Incoming(r, round[r])' = Incoming(r, round[r])
        BY <1>5, <2>1 DEF Incoming
      <4>2. \A m \in Incoming(r, round[r]) : GotTo(r, m)' = GotTo(r, m)
        BY <1>5, <1>15, <2>1
      <4> QED BY <4>1, <4>2 DEF Missing
    <3> QED BY <1>5, <2>1, <3>1 DEF WaitIInv, Counted
  <2>2. CASE r = p
    <3>1. Incoming(p, round[p])' = In
      BY <1>9 DEF Incoming
    <3>2. Missing(p)' = {m \in In : 0 < m.size}
      BY <1>8, <3>1 DEF Missing
    <3>3. \A m \in In : m.size \in Nat
      BY <1>4 DEF Planned
    <3>4. {m \in In : 0 < m.size} = {m \in In : m.size > 0}
      BY <3>3
    <3> QED BY <1>5, <2>2, <3>2, <3>4 DEF Behind
  <2> QED BY <2>1, <2>2
<1>18. Drained'
  <2> SUFFICES ASSUME NEW r \in Procs, NEW q \in Procs, Past(r, q)'
               PROVE  channel[q][r] = << >>
    BY <1>1 DEF Drained
  <2>1. \/ round'[r] > round'[q]
        \/ round'[r] = round'[q] /\ waitall'[r] \in Behind
    BY DEF Past, Behind
  <2>2. CASE q = p
    BY <1>7, <2>2
  <2>3. CASE q # p /\ r # p
    BY <1>5, <2>1, <2>3 DEF WaitIInv, Drained, Past
  <2>4. CASE q # p /\ r = p
    <3>1. k > round[q]
      BY <1>5, <2>1, <2>4 DEF Behind
    <3>2. Past(p, q)
      BY <1>1, <1>2, <2>4, <3>1 DEF Past, Behind, k
    <3> QED BY <2>4, <3>2 DEF WaitIInv, Drained
  <2> QED BY <2>2, <2>3, <2>4
<1> QED
  BY <1>10, <1>11, <1>12, <1>13, <1>14, <1>16, <1>17, <1>18 DEF WaitIInv

(* The chunk at the head of a channel is the one that the receiver waits   *)
(* for next.                                                               *)
LEMMA HeadFits ==
  ASSUME WaitIInv, NEW p \in Procs, NEW q \in Procs, channel[q][p] # << >>,
         round[p] = round[q]
  PROVE  LET c == channel[q][p][1] IN
         /\ c \in Pieces /\ round[p] > 0
         /\ c.msg \in Incoming(p, round[p]) /\ c.msg \in Outgoing(q, round[q])
         /\ c.round = round[p]
         /\ c.from = GotTo(p, c.msg) /\ c.from < c.msg.size
         /\ c.n = Smaller(MaxSend, c.msg.size - c.from)
<1> DEFINE s == channel[q][p]
           c == s[1]
<1>1. s \in Seq(Pieces)
  BY DEF WaitIInv, WaitTypeOK
<1>2. 1 \in DOMAIN s /\ c \in Pieces
  BY <1>1
<1>3. /\ c.round = round[q] /\ round[q] > 0
      /\ c.msg \in Outgoing(q, round[q]) /\ c.msg.dst = p
      /\ c.from < c.msg.size
      /\ c.n = Smaller(MaxSend, c.msg.size - c.from)
  BY <1>2 DEF WaitIInv, InChannel
<1>4. c.msg \in Incoming(p, round[p])
  BY <1>3 DEF Incoming, Outgoing
<1>5. round[p] \in Nat
  BY WaitNumbers DEF WaitIInv
<1>6. Streams(p, q, c.msg)
  BY <1>3, <1>5 DEF WaitIInv, AllStreams
<1>7. Chain(GotTo(p, c.msg), s, Pos(s, c.msg))
  BY <1>6 DEF Streams, Received
<1>8. 1 \in Pos(s, c.msg) /\ Before(Pos(s, c.msg), 1) = {}
  <2>1. \A j \in DOMAIN s : ~ (j < 1)
    BY <1>1
  <2> QED BY <1>2, <2>1 DEF Pos, Before
<1>9. c.from = GotTo(p, c.msg)
  BY <1>7, <1>8 DEF Chain, Leads
<1> QED
  BY <1>2, <1>3, <1>4, <1>9

(* What waits for a process in the loop is of its round.                   *)
LEMMA SameRound ==
  ASSUME WaitIInv, NEW p \in Procs, waitall[p] \in {"posting", "looping"},
         NEW q \in Procs, channel[q][p] # << >>
  PROVE  round[p] = round[q]
<1>1. round[q] <= round[p]
  BY NotLeftBehind
<1>2. round[p] \in Nat /\ round[q] \in Nat
  BY WaitNumbers DEF WaitIInv
<1>3. ~ (round[p] > round[q])
  BY DEF WaitIInv, Drained, Past
<1> QED
  BY <1>1, <1>2, <1>3

(* Steps of a process that neither send nor receive.                       *)
LEMMA QuietKeeps ==
  ASSUME WaitIInv, NEW p \in Procs,
         WaitTypeOK', Apart',
         UNCHANGED <<channel, round, toSend, m_largeSends, buffers, nMsgs>>,
         \A q \in Procs : q # p => waitall'[q] = waitall[q] /\ m_irecvs'[q] = m_irecvs[q],
         toSend[p] # {} => waitall'[p] = "posting",
         m_largeSends[p] # {} => waitall'[p] \in {"posting", "looping"},
         waitall'[p] \in {"posting", "looping"} =>
           waitall[p] \in {"posting", "looping"} /\ m_irecvs'[p] = m_irecvs[p],
         round[p] > 0 /\ waitall'[p] \in Behind => Missing(p) = {}
  PROVE  WaitIInv'
<1>1. /\ channel' = channel /\ round' = round /\ toSend' = toSend
      /\ m_largeSends' = m_largeSends /\ buffers' = buffers /\ nMsgs' = nMsgs
  OBVIOUS
<1>2. ToBeSent' /\ InChannel'
  BY <1>1 DEF WaitIInv, ToBeSent, InChannel, Outgoing
<1>3. \A r, m : GotTo(r, m)' = GotTo(r, m) /\ Buffer(r, m)' = Buffer(r, m)
  BY <1>1 DEF GotTo, Buffer
<1>4. AllStreams'
  <2> SUFFICES ASSUME NEW r \in Procs, NEW q \in Procs, round[q] > 0, round[r] <= round[q],
                      NEW m \in Outgoing(q, round[q]), m.dst = r
               PROVE  Streams(r, q, m)'
    BY <1>1 DEF AllStreams, Outgoing
  <2>1. Streams(r, q, m)
    BY DEF WaitIInv, AllStreams
  <2>2. Received(r, q, m)' = Received(r, q, m)
    BY <1>1, <1>3 DEF Received
  <2>3. \A n : Sent(q, m, n)' => Sent(q, m, n)
    BY <1>1, SentFrame
  <2> QED BY <1>1, <2>1, <2>2, <2>3, StreamFrame
<1>5. Buffered'
  <2> SUFFICES ASSUME NEW r \in Procs, round[r] > 0, NEW m \in Incoming(r, round[r])
               PROVE  BufferOK(r, m)'
    BY <1>1 DEF Buffered, Incoming
  <2>1. BufferOK(r, m)
    BY DEF WaitIInv, Buffered
  <2>2. waitall'[r] \in {"posting", "looping"} =>
          waitall[r] \in {"posting", "looping"} /\ m_irecvs'[r] = m_irecvs[r]
    OBVIOUS
  <2> QED BY <1>1, <2>1, <2>2, BufferFrame
<1>6. \A r \in Procs : Missing(r)' = Missing(r)
  BY <1>1, <1>3 DEF Missing, Incoming
<1>7. Counted'
  BY <1>1, <1>6 DEF WaitIInv, Counted, Behind
<1>8. Drained'
  <2> SUFFICES ASSUME NEW r \in Procs, NEW q \in Procs, Past(r, q)', ~ Past(r, q),
                      channel[q][r] # << >>
               PROVE  FALSE
    BY <1>1 DEF WaitIInv, Drained
  <2>1. r = p /\ round[p] = round[q] /\ waitall'[p] \in Behind
    BY <1>1 DEF Past, Behind
  <2> DEFINE m == channel[q][p][1].msg
  <2>2. /\ m \in Incoming(p, round[p]) /\ round[p] > 0
        /\ GotTo(p, m) < m.size
    BY <2>1, HeadFits
  <2> QED BY <2>1, <2>2 DEF Missing
<1> QED
  BY <1>2, <1>4, <1>5, <1>7, <1>8 DEF WaitIInv

LEMMA IwaitallKeeps ==
  ASSUME WaitIInv, NEW p \in Procs, iwaitall(p) PROVE WaitIInv'
<1>1. /\ waitall[p] = "posting" /\ toSend[p] = {}
      /\ waitall' = [waitall EXCEPT ![p] = "looping"]
      /\ UNCHANGED <<channel, round, toSend, m_largeSends, buffers, nMsgs, m_irecvs, calls>>
  BY DEF iwaitall
<1>2. WaitTypeOK /\ waitall \in [Procs -> WaitPlaces]
  BY DEF WaitIInv, WaitTypeOK
<1>3. /\ waitall'[p] = "looping"
      /\ \A q \in Procs : q # p => waitall'[q] = waitall[q]
  BY <1>1, <1>2
<1>4. WaitTypeOK'
  BY <1>1, <1>2, <1>3 DEF WaitTypeOK, Width, Incoming, WaitPlaces
<1>5. Apart'
  BY <1>1, <1>3 DEF WaitIInv, Apart
<1> QED
  BY <1>1, <1>3, <1>4, <1>5, QuietKeeps DEF Behind

LEMMA LoopEndsKeeps ==
  ASSUME WaitIInv, NEW p \in Procs, LoopEnds(p) PROVE WaitIInv'
<1>1. /\ waitall[p] = "looping" /\ ~ (nMsgs[p] > 0) /\ m_largeSends[p] = {}
      /\ m_irecvs' = [m_irecvs EXCEPT ![p] = <<>>]
      /\ waitall' = [waitall EXCEPT ![p] = "finishing"]
      /\ UNCHANGED <<channel, round, toSend, m_largeSends, buffers, nMsgs, calls>>
  BY DEF LoopEnds, InWaitLoop
<1>2. /\ WaitTypeOK /\ waitall \in [Procs -> WaitPlaces] /\ DOMAIN m_irecvs = Procs
  BY DEF WaitIInv, WaitTypeOK
<1>3. /\ waitall'[p] = "finishing"
      /\ \A q \in Procs : q # p => waitall'[q] = waitall[q] /\ m_irecvs'[q] = m_irecvs[q]
  BY <1>1, <1>2
<1>4. WaitTypeOK'
  <2>1. /\ waitall' \in [Procs -> WaitPlaces] /\ DOMAIN m_irecvs' = Procs
    BY <1>1, <1>2 DEF WaitPlaces
  <2>2. \A q \in Procs : Width(q)' = Width(q)
    BY <1>1 DEF Width, Incoming
  <2> QED BY <1>1, <1>2, <1>3, <2>1, <2>2 DEF WaitTypeOK
<1>5. Apart'
  BY <1>1, <1>3 DEF WaitIInv, Apart
<1>6. toSend[p] = {}
  BY <1>1 DEF WaitIInv, ToBeSent
<1>7. ASSUME round[p] > 0 PROVE Missing(p) = {}
  <2>1. nMsgs[p] = Cardinality(Missing(p))
    BY <1>7 DEF WaitIInv, Counted
  <2>2. IsFiniteSet(Missing(p))
    <3>1. IsFiniteSet(Incoming(p, round[p]))
      BY <1>2, <1>7, WaitNumbers, Tags
    <3>2. Missing(p) \subseteq Incoming(p, round[p])
      BY DEF Missing
    <3> QED BY <3>1, <3>2, FS_Subset
  <2>3. Cardinality(Missing(p)) \in Nat
    BY <2>2, FS_CardinalityType
  <2>4. Cardinality(Missing(p)) = 0
    BY <1>1, <2>1, <2>3
  <2> QED BY <2>2, <2>4, FS_EmptySet
<1> QED
  BY <1>1, <1>3, <1>4, <1>5, <1>6, <1>7, QuietKeeps

(* The invariant does not depend on m_imsgs.                               *)
LEMMA WaitFrame ==
  ASSUME WaitIInv, UNCHANGED <<waitall, channel, round, toSend, m_largeSends, buffers, nMsgs,
                               m_irecvs, calls>>
  PROVE  WaitIInv'
<1>1. /\ waitall' = waitall /\ channel' = channel /\ round' = round /\ toSend' = toSend
      /\ m_largeSends' = m_largeSends /\ buffers' = buffers /\ nMsgs' = nMsgs
      /\ m_irecvs' = m_irecvs /\ calls' = calls
  OBVIOUS
<1>2. WaitTypeOK' /\ Apart'
  BY <1>1 DEF WaitIInv, WaitTypeOK, Apart, Width, Incoming
<1>3. CASE Procs = {}
  BY <1>3, ProcsAssumption
<1>4. ASSUME NEW p \in Procs PROVE WaitIInv'
  <2>1. WaitIInv /\ WaitTypeOK /\ Counted /\ ToBeSent
    BY DEF WaitIInv
  <2>2. round[p] > 0 /\ waitall[p] \in Behind => Missing(p) = {}
    BY <2>1 DEF Counted
  <2> QED BY <1>1, <1>2, <2>1, <2>2, QuietKeeps DEF ToBeSent
<1> QED
  BY <1>3, <1>4

LEMMA WaitSomeKeeps ==
  ASSUME WaitIInv, NEW p \in Procs, WaitSome(p) PROVE WaitIInv'
<1>1. UNCHANGED <<waitall, channel, round, toSend, m_largeSends, buffers, nMsgs, m_irecvs,
                  calls>>
  BY DEF WaitSome, FinishSend
<1> QED
  BY <1>1, WaitFrame

LEMMA EnterBarrierKeeps ==
  ASSUME WaitIInv, NEW p \in Procs, EnterBarrier(p) PROVE WaitIInv'
<1> DEFINE b == [op |-> "barrier"]
<1>1. /\ waitall[p] = "finishing"
      /\ calls' = [calls EXCEPT ![p] = Append(calls[p], b)]
      /\ waitall' = [waitall EXCEPT ![p] = "barrier"]
      /\ UNCHANGED <<channel, round, toSend, m_largeSends, buffers, nMsgs, m_irecvs>>
  BY DEF EnterBarrier, Enter
<1>2. /\ WaitTypeOK /\ waitall \in [Procs -> WaitPlaces]
      /\ calls \in [Procs -> Seq([op : {"barrier"}])] /\ b \in [op : {"barrier"}]
  BY DEF WaitIInv, WaitTypeOK
<1>3. /\ waitall'[p] = "barrier"
      /\ \A q \in Procs : q # p => waitall'[q] = waitall[q] /\ calls'[q] = calls[q]
      /\ calls'[p] = Append(calls[p], b)
  BY <1>1, <1>2
<1> HIDE DEF b
<1>4. Len(calls'[p]) = Len(calls[p]) + 1 /\ Len(calls[p]) \in Nat
      /\ Len(calls[p]) = round[p] - 1 /\ round[p] \in Nat /\ round[p] > 0
  <2>1. calls[p] \in Seq([op : {"barrier"}])
    BY <1>2
  <2>2. Len(calls'[p]) = Len(calls[p]) + 1 /\ Len(calls[p]) \in Nat
    BY <1>2, <1>3, <2>1
  <2>3. Len(calls[p]) = round[p] - 1 /\ round[p] \in Nat
    BY <1>1, <1>2, WaitNumbers
  <2> QED BY <2>2, <2>3
<1>5. WaitTypeOK'
  <2>1. /\ waitall' \in [Procs -> WaitPlaces]
        /\ calls' \in [Procs -> Seq([op : {"barrier"}])]
    <3>1. Append(calls[p], b) \in Seq([op : {"barrier"}])
      BY <1>2
    <3> QED BY <1>1, <1>2, <3>1 DEF WaitPlaces
  <2>2. \A q \in Procs : Width(q)' = Width(q)
    BY <1>1 DEF Width, Incoming
  <2>3. \A q \in Procs :
          Len(calls'[q]) = IF waitall'[q] \in {"idle", "barrier"} THEN round[q] ELSE round[q] - 1
    <3>1. \A q \in Procs : q # p =>
            Len(calls[q]) = IF waitall[q] \in {"idle", "barrier"} THEN round[q] ELSE round[q] - 1
      BY <1>2, WaitNumbers
    <3>2. Len(calls'[p]) = round[p]
      BY <1>4
    <3> QED BY <1>3, <3>1, <3>2
  <2>4. \A q \in Procs :
          /\ waitall'[q] # "idle" => round[q] > 0
          /\ waitall'[q] \in {"posting", "looping"} => waitall[q] \in {"posting", "looping"}
    BY <1>2, <1>3, <1>4 DEF WaitTypeOK
  <2> QED BY <1>1, <1>2, <2>1, <2>2, <2>3, <2>4 DEF WaitTypeOK
<1>6. Apart'
  <2>1. \A q \in Procs : Len(calls'[q]) >= Len(calls[q]) /\ Len(calls[q]) \in Nat
                         /\ Len(calls'[q]) \in Nat /\ round[q] \in Nat
    BY <1>2, <1>3, <1>4, WaitNumbers
  <2>2. \A q \in Procs : waitall'[q] = "idle" <=> waitall[q] = "idle"
    BY <1>1, <1>3
  <2> QED BY <1>1, <2>1, <2>2 DEF WaitIInv, Apart
<1>7. toSend[p] = {} /\ m_largeSends[p] = {} /\ (round[p] > 0 => Missing(p) = {})
  BY <1>1 DEF WaitIInv, ToBeSent, Counted, Behind
<1> QED
  BY <1>1, <1>3, <1>5, <1>6, <1>7, QuietKeeps

LEMMA LeaveBarrierKeeps ==
  ASSUME WaitIInv, NEW p \in Procs, LeaveBarrier(p) PROVE WaitIInv'
<1>1. /\ waitall[p] = "barrier" /\ Completed(p)
      /\ waitall' = [waitall EXCEPT ![p] = "idle"]
      /\ UNCHANGED <<channel, round, toSend, m_largeSends, buffers, nMsgs, m_irecvs, calls>>
  BY DEF LeaveBarrier, Separated
<1>2. WaitTypeOK /\ waitall \in [Procs -> WaitPlaces]
  BY DEF WaitIInv, WaitTypeOK
<1>3. /\ waitall'[p] = "idle"
      /\ \A q \in Procs : q # p => waitall'[q] = waitall[q]
  BY <1>1, <1>2
<1>4. WaitTypeOK'
  <2>1. waitall' \in [Procs -> WaitPlaces]
    BY <1>1, <1>2 DEF WaitPlaces
  <2>2. \A q \in Procs : Width(q)' = Width(q)
    BY <1>1 DEF Width, Incoming
  <2> QED BY <1>1, <1>2, <1>3, <2>1, <2>2 DEF WaitTypeOK
<1>5. Apart'
  <2>1. \A q \in Procs : Len(calls[q]) >= round[p]
    <3>1. \A q \in Procs : Len(calls[p]) <= Len(calls[q]) /\ Len(calls[q]) \in Nat
      BY <1>1, <1>2, WaitNumbers DEF Completed, LastCall
    <3>2. Len(calls[p]) = round[p] /\ round[p] \in Nat
      BY <1>1, <1>2, WaitNumbers
    <3> QED BY <3>1, <3>2
  <2> QED BY <1>1, <1>3, <2>1 DEF WaitIInv, Apart
<1>6. toSend[p] = {} /\ m_largeSends[p] = {} /\ (round[p] > 0 => Missing(p) = {})
  BY <1>1 DEF WaitIInv, ToBeSent, Counted, Behind
<1> QED
  BY <1>1, <1>3, <1>4, <1>5, <1>6, QuietKeeps

(* Giving a chunk of a message of the round to MPI, where the last one     *)
(* ended; it replaces the chunk it follows.                                *)
LEMMA GiveKeeps ==
  ASSUME WaitIInv, NEW p \in Procs, waitall[p] \in {"posting", "looping"},
         NEW m \in Outgoing(p, round[p]), NEW f \in Nat, Sent(p, m, f),
         f < m.size \/ (m.size = 0 /\ f = 0),
         Isend(p, ChunkOf(p, m, f), {d \in m_largeSends[p] : d.msg # m}),
         toSend' = [toSend EXCEPT ![p] = toSend[p] \ {m}],
         UNCHANGED <<waitall, round, m_irecvs, nMsgs, buffers, calls>>
  PROVE  WaitIInv'
<1> DEFINE c == ChunkOf(p, m, f)
           r == m.dst
           others == {d \in m_largeSends[p] : d.msg # m}
<1>1. /\ WaitTypeOK /\ round[p] \in Nat /\ round[p] > 0
      /\ m_largeSends \in [Procs -> SUBSET Pieces] /\ toSend \in [Procs -> SUBSET Planned]
      /\ channel \in [Procs -> [Procs -> Seq(Pieces)]]
  BY WaitNumbers DEF WaitIInv, WaitTypeOK
<1>2. /\ m \in Planned /\ m.src = p /\ r \in Procs /\ m.size \in Nat
      /\ m \in Incoming(r, round[p])
  <2>1. Rounds[round[p]] \subseteq Planned
    BY <1>1, WaitNumbers, Tags
  <2>2. m \in Planned /\ m.src = p /\ m \in Rounds[round[p]]
    BY <2>1 DEF Outgoing
  <2> QED BY <2>2 DEF Planned, Incoming
<1>3. MaxSend \in Nat \ {0}
  BY RoundsAssumption
<1>4. /\ c.msg = m /\ c.round = round[p] /\ c.from = f
      /\ c.n = Smaller(MaxSend, m.size - f)
  BY DEF ChunkOf
<1>5. /\ channel' = IF c.n = 0 THEN channel
                     ELSE [channel EXCEPT ![p][r] = Append(channel[p][r], c)]
      /\ m_largeSends' = [m_largeSends EXCEPT ![p] = IF c.from + c.n = m.size THEN others
                                                      ELSE others \cup {c}]
  BY <1>4 DEF Isend, IsLast
<1>6. /\ c.n \in Nat
      /\ c.n = 0 => f = 0 /\ m.size = 0
      /\ c.n # 0 => f < m.size /\ c \in Pieces
      /\ c.from + c.n # m.size => c \in Pieces /\ c.from + c.n < m.size
  <2>1. Smaller(MaxSend, m.size - f) = IF MaxSend <= m.size - f THEN MaxSend ELSE m.size - f
    BY DEF Smaller
  <2>2. /\ c.n \in Nat
        /\ c.n = 0 => f = 0 /\ m.size = 0
        /\ c.n # 0 => f < m.size
        /\ c.from + c.n # m.size => c.n # 0 /\ c.from + c.n < m.size
    BY <1>2, <1>3, <1>4, <2>1
  <2>3. c.n # 0 => c \in Pieces
    BY <1>1, <1>2, <2>2 DEF ChunkOf, Pieces
  <2> QED BY <2>2, <2>3
<1> HIDE DEF c
<1>7. /\ \A q \in Procs : q # p => toSend'[q] = toSend[q] /\ m_largeSends'[q] = m_largeSends[q]
      /\ toSend'[p] = toSend[p] \ {m}
      /\ m_largeSends'[p] = IF c.from + c.n = m.size THEN others ELSE others \cup {c}
  BY <1>1, <1>5
<1>8. /\ c.n # 0 => channel'[p][r] = Append(channel[p][r], c)
      /\ \A q, s \in Procs : ~ (q = p /\ s = r) => channel'[q][s] = channel[q][s]
      /\ c.n = 0 => channel' = channel
      /\ channel' \in [Procs -> [Procs -> Seq(Pieces)]]
  <2>1. CASE c.n = 0
    BY <1>1, <1>5, <2>1
  <2>2. CASE c.n # 0
    <3>1. channel' = [channel EXCEPT ![p][r] = Append(channel[p][r], c)]
      BY <1>5, <2>2
    <3>2. channel[p][r] \in Seq(Pieces)
      BY <1>1, <1>2
    <3>3. Append(channel[p][r], c) \in Seq(Pieces)
      BY <1>6, <2>2, <3>2
    <3> HIDE DEF r
    <3>4. r \in Procs
      BY <1>2
    <3> QED BY <1>1, <2>2, <3>1, <3>3, <3>4, OneChannel
  <2> QED BY <2>1, <2>2
<1>9. \A w : \A s \in Procs : /\ GotTo(s, w)' = GotTo(s, w)
                              /\ \A q \in Procs : Received(s, q, w)' = Received(s, q, w)
  BY DEF GotTo, Buffer, Received
<1>10. WaitTypeOK'
  <2>1. m_largeSends' \in [Procs -> SUBSET Pieces]
    <3>1. m_largeSends'[p] \in SUBSET Pieces
      BY <1>1, <1>6, <1>7
    <3> QED BY <1>1, <1>5, <1>7, <3>1
  <2>2. toSend' \in [Procs -> SUBSET Planned]
    BY <1>1
  <2>3. \A q \in Procs : Width(q)' = Width(q)
    BY DEF Width, Incoming
  <2> QED BY <1>1, <1>8, <2>1, <2>2, <2>3 DEF WaitTypeOK
<1>11. Apart'
  BY DEF WaitIInv, Apart
<1>12. ToBeSent'
  <2> SUFFICES ASSUME NEW q \in Procs
               PROVE  /\ toSend'[q] # {} => waitall[q] = "posting"
                      /\ m_largeSends'[q] # {} => waitall[q] \in {"posting", "looping"}
                      /\ \A w \in toSend'[q] : w \in Outgoing(q, round[q])
                      /\ \A d \in m_largeSends'[q] :
                           /\ d.msg \in Outgoing(q, round[q]) \ toSend'[q]
                           /\ d.from + d.n < d.msg.size
                           /\ \A e \in m_largeSends'[q] : d.msg = e.msg => d = e
    BY DEF ToBeSent, Outgoing
  <2>1. CASE q # p
    BY <1>7, <2>1 DEF WaitIInv, ToBeSent
  <2>2. CASE q = p
    <3>1. /\ toSend[p] # {} => waitall[p] = "posting"
          /\ \A w \in toSend[p] : w \in Outgoing(p, round[p])
          /\ \A d \in m_largeSends[p] :
               /\ d.msg \in Outgoing(p, round[p]) \ toSend[p]
               /\ d.from + d.n < d.msg.size
               /\ \A e \in m_largeSends[p] : d.msg = e.msg => d = e
      BY DEF WaitIInv, ToBeSent
    <3>2. \A d \in m_largeSends'[p] : d \in others \/ (d = c /\ c.from + c.n # m.size)
      BY <1>7
    <3>3. /\ toSend'[p] # {} => waitall[p] = "posting"
          /\ \A w \in toSend'[p] : w \in Outgoing(p, round[p])
      BY <1>7, <3>1
    <3>4. \A d \in m_largeSends'[p] :
            /\ d.msg \in Outgoing(p, round[p]) \ toSend'[p]
            /\ d.from + d.n < d.msg.size
      BY <1>4, <1>6, <1>7, <3>1, <3>2
    <3>5. \A d, e \in m_largeSends'[p] : d.msg = e.msg => d = e
      BY <1>4, <3>1, <3>2
    <3> QED BY <2>2, <3>3, <3>4, <3>5
  <2> QED BY <2>1, <2>2
<1>13. InChannel'
  <2> SUFFICES ASSUME NEW q \in Procs, NEW s \in Procs, NEW i \in DOMAIN channel'[q][s]
               PROVE  /\ channel'[q][s][i].round = round[q] /\ round[q] > 0
                      /\ channel'[q][s][i].msg \in Outgoing(q, round[q])
                      /\ channel'[q][s][i].msg.dst = s
                      /\ channel'[q][s][i].from < channel'[q][s][i].msg.size
                      /\ channel'[q][s][i].n =
                           Smaller(MaxSend, channel'[q][s][i].msg.size - channel'[q][s][i].from)
    BY DEF InChannel, Outgoing
  <2>1. CASE i \in DOMAIN channel[q][s] /\ channel'[q][s][i] = channel[q][s][i]
    BY <2>1 DEF WaitIInv, InChannel
  <2>2. CASE q = p /\ s = r /\ channel'[q][s][i] = c /\ c.n # 0
    BY <1>1, <1>4, <1>6, <2>2
  <2>3. \/ i \in DOMAIN channel[q][s] /\ channel'[q][s][i] = channel[q][s][i]
        \/ q = p /\ s = r /\ channel'[q][s][i] = c /\ c.n # 0
    <3>1. CASE q = p /\ s = r /\ c.n # 0
      <4>1. /\ channel[p][r] \in Seq(Pieces) /\ channel'[p][r] = Append(channel[p][r], c)
            /\ i \in DOMAIN channel'[p][r]
        BY <1>1, <1>2, <1>8, <3>1
      <4> DEFINE t == channel[p][r]
      <4>2. /\ t \in Seq(Pieces) /\ i \in DOMAIN Append(t, c) /\ channel'[p][r] = Append(t, c)
        BY <4>1
      <4> HIDE DEF t, r
      <4>3. \/ i \in DOMAIN t /\ Append(t, c)[i] = t[i]
            \/ Append(t, c)[i] = c
        BY <4>2
      <4> QED BY <3>1, <4>2, <4>3 DEF t
    <3>2. CASE ~ (q = p /\ s = r /\ c.n # 0)
      BY <1>8, <3>2
    <3> QED BY <3>1, <3>2
  <2> QED BY <2>1, <2>2, <2>3
<1>14. \A w : w # m => \A n : Sent(p, w, n)' => Sent(p, w, n)
  <2> SUFFICES ASSUME NEW w, w # m, NEW n, Sent(p, w, n)' PROVE Sent(p, w, n)
    OBVIOUS
  <2>1. w \in toSend'[p] <=> w \in toSend[p]
    BY <1>7
  <2>2. \A d : d.msg = w => (d \in m_largeSends'[p] <=> d \in m_largeSends[p])
    BY <1>4, <1>7
  <2> QED BY <2>1, <2>2 DEF Sent
<1>15. \A n : Sent(p, m, n)' => n = c.from + c.n
  <2>1. m \notin toSend'[p]
    BY <1>7
  <2>2. CASE c.from + c.n = m.size
    BY <1>7, <2>1, <2>2 DEF Sent
  <2>3. CASE c.from + c.n # m.size
    <3>1. m_largeSends'[p] = others \cup {c}
      BY <1>7, <2>3
    <3> QED BY <1>4, <2>1, <3>1 DEF Sent
  <2> QED BY <2>2, <2>3
<1>16. AllStreams'
  <2> SUFFICES ASSUME NEW s \in Procs, NEW q \in Procs, round[q] > 0, round[s] <= round[q],
                      NEW w \in Outgoing(q, round[q]), w.dst = s
               PROVE  Streams(s, q, w)'
    BY DEF AllStreams, Outgoing
  <2>1. Streams(s, q, w) /\ Received(s, q, w)' = Received(s, q, w)
    BY <1>9 DEF WaitIInv, AllStreams
  <2>2. CASE q # p
    <3>1. \A n : Sent(q, w, n)' => Sent(q, w, n)
      BY <1>7, <2>2, SentFrame
    <3>2. channel'[q][s] = channel[q][s]
      BY <1>8, <2>2
    <3> QED BY <2>1, <3>1, <3>2, StreamFrame
  <2>3. CASE q = p /\ w # m /\ (s # r \/ c.n = 0)
    <3>1. channel'[p][s] = channel[p][s]
      BY <1>8, <2>3
    <3> QED BY <1>14, <2>1, <2>3, <3>1, StreamFrame
  <2> DEFINE b == Received(s, q, w)
             t == channel[p][r]
  <2>4. /\ t \in Seq(Pieces)
        /\ q = p /\ s = r => Chain(b, t, Pos(t, w)) /\ \A n : Sent(p, w, n) => Leads(b, t, Pos(t, w), n)
    BY <1>1, <1>2, <2>1 DEF Streams
  <2>5. CASE q = p /\ w # m /\ s = r /\ c.n # 0
    <3>1. channel'[p][r] = Append(t, c) /\ c.msg # w
      BY <1>4, <1>8, <2>5
    <3>2. /\ Chain(b, t, Pos(t, w)) => Chain(b, Append(t, c), Pos(Append(t, c), w))
          /\ \A n : Leads(b, t, Pos(t, w), n) => Leads(b, Append(t, c), Pos(Append(t, c), w), n)
      BY <1>6, <2>4, <2>5, <3>1, AppendLeads
    <3>3. /\ Chain(b, channel'[p][r], Pos(channel'[p][r], w))
          /\ \A n : Sent(p, w, n)' => Leads(b, channel'[p][r], Pos(channel'[p][r], w), n)
      BY <1>14, <2>4, <2>5, <3>1, <3>2
    <3> QED BY <2>1, <2>5, <3>3 DEF Streams
  <2>6. CASE q = p /\ w = m /\ c.n # 0
    <3>1. channel'[p][r] = Append(t, c) /\ c.msg = w /\ s = r
      BY <1>4, <1>8, <2>6
    <3>2. Chain(b, t, Pos(t, w)) /\ Leads(b, t, Pos(t, w), c.from)
      BY <1>4, <2>4, <2>6, <3>1
    <3>3. /\ Chain(b, Append(t, c), Pos(Append(t, c), w))
          /\ Leads(b, Append(t, c), Pos(Append(t, c), w), c.from + c.n)
      BY <1>6, <2>4, <2>6, <3>1, <3>2, AppendLeads
    <3>4. /\ Chain(b, channel'[p][r], Pos(channel'[p][r], w))
          /\ \A n : Sent(p, w, n)' => Leads(b, channel'[p][r], Pos(channel'[p][r], w), n)
      BY <1>15, <2>6, <3>1, <3>3
    <3> QED BY <2>1, <2>6, <3>1, <3>4 DEF Streams
  <2>7. CASE q = p /\ w = m /\ c.n = 0
    <3>1. \A n : Sent(p, m, n)' => Sent(p, m, n)
      BY <1>4, <1>6, <1>15, <2>7
    <3> QED BY <1>8, <2>1, <2>7, <3>1, StreamFrame
  <2> QED BY <2>2, <2>3, <2>5, <2>6, <2>7
<1>17. Buffered'
  <2> SUFFICES ASSUME NEW s \in Procs, round[s] > 0, NEW w \in Incoming(s, round[s])
               PROVE  BufferOK(s, w)'
    BY DEF Buffered, Incoming
  <2>1. BufferOK(s, w)
    BY DEF WaitIInv, Buffered
  <2> QED BY <2>1, BufferFrame
<1>18. \A s \in Procs : Missing(s)' = Missing(s)
  BY <1>9 DEF Missing, Incoming
<1>19. Counted'
  BY <1>18 DEF WaitIInv, Counted, Behind
<1>20. Drained'
  <2> SUFFICES ASSUME NEW s \in Procs, NEW q \in Procs, Past(s, q)
               PROVE  channel'[q][s] = << >>
    BY DEF Drained, Past, Behind
  <2>1. channel[q][s] = << >>
    BY DEF WaitIInv, Drained
  <2>2. CASE ~ (q = p /\ s = r /\ c.n # 0)
    BY <1>8, <2>1, <2>2
  <2>3. ASSUME q = p, s = r, c.n # 0 PROVE FALSE
    <3>1. round[s] \in Nat /\ round[s] <= round[p]
      BY <1>1, WaitNumbers, NotLeftBehind
    <3>2. round[s] = round[p] /\ waitall[s] \in Behind
      BY <1>1, <2>3, <3>1 DEF Past
    <3>3. m \in Incoming(s, round[s]) /\ Missing(s) = {} /\ BufferOK(s, m)
      BY <1>1, <1>2, <2>3, <3>2 DEF WaitIInv, Counted, Buffered
    <3>4. GotTo(s, m) = m.size
      BY <1>2, <3>3 DEF Missing, BufferOK
    <3>5. Streams(s, p, m)
      BY <1>1, <2>3, <3>1 DEF WaitIInv, AllStreams
    <3>6. Leads(m.size, << >>, Pos(<< >>, m), f)
      BY <2>1, <2>3, <3>2, <3>4, <3>5 DEF Streams, Received
    <3>7. f = m.size
      BY <3>6 DEF Leads, Pos
    <3> QED BY <1>2, <1>6, <2>3, <3>7
  <2> QED BY <2>2, <2>3
<1> QED
  BY <1>10, <1>11, <1>12, <1>13, <1>16, <1>17, <1>19, <1>20 DEF WaitIInv

LEMMA IsendKeeps ==
  ASSUME WaitIInv, NEW p \in Procs, isend(p) PROVE WaitIInv'
<1>1. PICK m \in toSend[p] :
        /\ Isend(p, ChunkOf(p, m, 0), m_largeSends[p])
        /\ toSend' = [toSend EXCEPT ![p] = toSend[p] \ {m}]
  BY DEF isend
<1>2. /\ waitall[p] = "posting"
      /\ UNCHANGED <<waitall, round, m_irecvs, nMsgs, buffers, calls>>
  BY DEF isend
<1>3. /\ m \in Outgoing(p, round[p])
      /\ \A d \in m_largeSends[p] : d.msg \notin toSend[p]
  BY DEF WaitIInv, ToBeSent
<1>4. m_largeSends[p] = {d \in m_largeSends[p] : d.msg # m}
  BY <1>3
<1>5. m.size \in Nat
  <2>1. m \in Planned
    BY DEF WaitIInv, WaitTypeOK
  <2> QED BY <2>1 DEF Planned
<1>6. Sent(p, m, 0)
  BY DEF Sent
<1>7. 0 < m.size \/ m.size = 0
  BY <1>5
<1>8. Isend(p, ChunkOf(p, m, 0), {d \in m_largeSends[p] : d.msg # m})
  BY <1>1, <1>4
<1> QED
  BY <1>1, <1>2, <1>3, <1>6, <1>7, <1>8, GiveKeeps

LEMMA NextChunkKeeps ==
  ASSUME WaitIInv, NEW p \in Procs, NEW c \in m_largeSends[p], NextChunk(p, c)
  PROVE  WaitIInv'
<1> DEFINE m == c.msg
           f == c.from + c.n
<1>1. /\ waitall[p] = "looping"
      /\ Isend(p, ChunkOf(p, m, f), m_largeSends[p] \ {c})
      /\ UNCHANGED <<waitall, round, toSend, m_irecvs, nMsgs, buffers, calls>>
  BY DEF NextChunk
<1>2. /\ m \in Outgoing(p, round[p]) /\ m \notin toSend[p] /\ f < m.size
      /\ \A d \in m_largeSends[p] : c.msg = d.msg => c = d
  BY DEF WaitIInv, ToBeSent
<1>3. m_largeSends[p] \ {c} = {d \in m_largeSends[p] : d.msg # m}
  BY <1>2
<1>4. f \in Nat
  <2>1. c \in Pieces
    BY DEF WaitIInv, WaitTypeOK
  <2> QED BY <2>1 DEF Pieces
<1>5. Sent(p, m, f)
  BY <1>2 DEF Sent
<1>6. toSend' = [toSend EXCEPT ![p] = toSend[p] \ {m}]
  <2>1. toSend \in [Procs -> SUBSET Planned]
    BY DEF WaitIInv, WaitTypeOK
  <2>2. toSend[p] \ {m} = toSend[p]
    BY <1>2
  <2> QED BY <1>1, <2>1, <2>2
<1>7. Isend(p, ChunkOf(p, m, f), {d \in m_largeSends[p] : d.msg # m})
  BY <1>1, <1>3
<1>8. UNCHANGED <<waitall, round, m_irecvs, nMsgs, buffers, calls>>
  BY <1>1
<1>9. waitall[p] \in {"posting", "looping"} /\ (f < m.size \/ (m.size = 0 /\ f = 0))
  BY <1>1, <1>2
<1>10. m \in Outgoing(p, round[p])
  BY <1>2
<1> HIDE DEF m, f
<1> QED
  BY <1>4, <1>5, <1>6, <1>7, <1>8, <1>9, <1>10, GiveKeeps

(* A chunk is received: it goes behind the others of its message.          *)
LEMMA RecvKeeps ==
  ASSUME WaitIInv, NEW p \in Procs, Recv(p) PROVE WaitIInv'
<1>1. waitall[p] = "looping" /\ UNCHANGED <<waitall, round, toSend, m_largeSends, calls>>
  BY DEF Recv, InWaitLoop
<1>2. PICK q \in Procs :
        LET c == Head(channel[q][p])
            i == c.msg.tag + 1
            left == m_irecvs[p][i] IN
        /\ channel[q][p] # << >>
        /\ channel'  = [channel EXCEPT ![q][p] = Tail(channel[q][p])]
        /\ buffers'  = [buffers EXCEPT ![p][i] = Append(buffers[p][i], c)]
        /\ m_irecvs' = [m_irecvs EXCEPT ![p][i] = IF left > MaxSend THEN left - MaxSend
                                                  ELSE m_irecvs[p][i]]
        /\ nMsgs'    = [nMsgs EXCEPT ![p] = IF left > MaxSend THEN nMsgs[p] ELSE nMsgs[p] - 1]
  BY DEF Recv
<1>head. PICK s, c, m, i, left :
         /\ s = channel[q][p] /\ c = s[1] /\ m = c.msg /\ i = m.tag + 1
         /\ left = m_irecvs[p][i]
  OBVIOUS
<1>3. /\ WaitTypeOK /\ s \in Seq(Pieces) /\ s # << >> /\ Head(s) = c
      /\ Tail(s) \in Seq(Pieces)
      /\ channel \in [Procs -> [Procs -> Seq(Pieces)]]
      /\ DOMAIN buffers = Procs /\ DOMAIN m_irecvs = Procs /\ DOMAIN nMsgs = Procs
  <2>1. WaitTypeOK
    BY DEF WaitIInv
  <2>2. /\ channel \in [Procs -> [Procs -> Seq(Pieces)]]
        /\ DOMAIN buffers = Procs /\ DOMAIN m_irecvs = Procs /\ DOMAIN nMsgs = Procs
    BY <2>1 DEF WaitTypeOK
  <2>3. s \in Seq(Pieces) /\ s # << >>
    BY <1>2, <1>head, <2>2
  <2> QED BY <1>head, <2>1, <2>2, <2>3
<1>4. round[p] = round[q]
  BY <1>1, <1>2, SameRound
<1>5. /\ c \in Pieces /\ round[p] > 0
      /\ m \in Incoming(p, round[p]) /\ m \in Outgoing(q, round[q])
      /\ c.round = round[p]
      /\ c.from = GotTo(p, m) /\ c.from < m.size
      /\ c.n = Smaller(MaxSend, m.size - c.from)
  BY <1>2, <1>4, <1>head, HeadFits
<1>6. /\ round[p] \in 1 .. Len(Rounds) /\ m \in Planned /\ i \in 1 .. Width(p)
      /\ \A w \in Incoming(p, round[p]) : w.tag + 1 = i => w = m
      /\ \A w \in Incoming(p, round[p]) : w.tag + 1 \in 1 .. Width(p)
      /\ m.size \in Nat /\ c.from \in Nat /\ c.n \in Nat
      /\ MaxSend \in Nat \ {0}
  <2>1. round[p] \in 1 .. Len(Rounds)
    BY <1>3, <1>5, WaitNumbers
  <2>2. /\ m \in Planned /\ i \in 1 .. Width(p)
        /\ \A w \in Incoming(p, round[p]) : w.tag + 1 = i => w = m
        /\ \A w \in Incoming(p, round[p]) : w.tag + 1 \in 1 .. Width(p)
    BY <1>5, <1>head, <2>1, Tags DEF Width
  <2> QED BY <1>5, <2>1, <2>2, RoundsAssumption DEF Planned, Pieces
<1>7. /\ buffers[p] \in [1 .. Width(p) -> Seq(Pieces)]
      /\ m_irecvs[p] \in [1 .. Width(p) -> Nat]
  BY <1>1, <1>3, <1>5 DEF WaitTypeOK
<1>8. BufferOK(p, m)
  BY <1>5 DEF WaitIInv, Buffered
<1>9. left = m.size - c.from /\ left \in Nat
  BY <1>1, <1>5, <1>6, <1>7, <1>8, <1>head DEF BufferOK
<1> DEFINE newLeft == IF left > MaxSend THEN left - MaxSend ELSE left
           newCount == IF left > MaxSend THEN nMsgs[p] ELSE nMsgs[p] - 1
           newBuffer == Append(buffers[p][i], c)
<1>10. /\ channel'  = [channel EXCEPT ![q][p] = Tail(s)]
       /\ buffers'  = [buffers EXCEPT ![p][i] = newBuffer]
       /\ m_irecvs' = [m_irecvs EXCEPT ![p][i] = newLeft]
       /\ nMsgs'    = [nMsgs EXCEPT ![p] = newCount]
  BY <1>2, <1>3, <1>head
<1>11. newBuffer \in Seq(Pieces) /\ newLeft \in Nat
  <2>1. buffers[p][i] \in Seq(Pieces)
    BY <1>6, <1>7
  <2>2. newBuffer \in Seq(Pieces)
    BY <1>5, <2>1
  <2>3. newLeft \in Nat
    BY <1>6, <1>9
  <2> QED BY <2>2, <2>3
<1> HIDE DEF newLeft, newCount, newBuffer
<1>12. /\ \A x \in Procs : x # p => /\ buffers'[x] = buffers[x] /\ m_irecvs'[x] = m_irecvs[x]
                                   /\ nMsgs'[x] = nMsgs[x]
       /\ buffers'[p] = [buffers[p] EXCEPT ![i] = newBuffer]
       /\ m_irecvs'[p] = [m_irecvs[p] EXCEPT ![i] = newLeft]
       /\ nMsgs'[p] = newCount
       /\ DOMAIN buffers' = Procs /\ DOMAIN m_irecvs' = Procs /\ DOMAIN nMsgs' = Procs
  BY <1>3, <1>10
<1>13. /\ buffers'[p] \in [1 .. Width(p) -> Seq(Pieces)]
       /\ m_irecvs'[p] \in [1 .. Width(p) -> Nat]
       /\ buffers'[p][i] = newBuffer /\ m_irecvs'[p][i] = newLeft
       /\ \A x \in 1 .. Width(p) : x # i => /\ buffers'[p][x] = buffers[p][x]
                                          /\ m_irecvs'[p][x] = m_irecvs[p][x]
  BY <1>6, <1>7, <1>11, <1>12, ZenonT(30)
<1>14. /\ channel' \in [Procs -> [Procs -> Seq(Pieces)]]
       /\ channel'[q][p] = Tail(s)
       /\ \A x, y \in Procs : ~ (x = q /\ y = p) => channel'[x][y] = channel[x][y]
  BY <1>3, <1>10, OneChannel
\* What is in the buffers now.
<1>15. ASSUME NEW x \in Procs, NEW w \in Incoming(x, round[x]), ~ (x = p /\ w = m)
       PROVE  /\ Buffer(x, w)' = Buffer(x, w) /\ GotTo(x, w)' = GotTo(x, w)
              /\ m_irecvs'[x][w.tag + 1] = m_irecvs[x][w.tag + 1]
  <2>1. /\ buffers'[x][w.tag + 1] = buffers[x][w.tag + 1]
        /\ m_irecvs'[x][w.tag + 1] = m_irecvs[x][w.tag + 1]
    <3>1. CASE x # p
      BY <1>12, <3>1
    <3>2. CASE x = p
      <4>1. w.tag + 1 \in 1 .. Width(p) /\ w.tag + 1 # i
        BY <1>6, <1>15, <3>2
      <4> QED BY <1>13, <3>2, <4>1
    <3> QED BY <3>1, <3>2
  <2> QED BY <2>1 DEF Buffer, GotTo
<1>16. /\ Buffer(p, m) \in Seq(Pieces)
       /\ Buffer(p, m)' = Append(Buffer(p, m), c)
       /\ GotTo(p, m)' = c.from + c.n
  <2>1. /\ Buffer(p, m) \in Seq(Pieces) /\ Buffer(p, m) = buffers[p][i]
        /\ Buffer(p, m)' = Append(Buffer(p, m), c)
    BY <1>6, <1>7, <1>13, <1>head DEF Buffer, newBuffer
  <2> DEFINE l == Len(Buffer(p, m))
  <2>2. /\ l \in Nat /\ Len(Append(Buffer(p, m), c)) = l + 1
        /\ Append(Buffer(p, m), c)[l + 1] = c
    BY <1>5, <2>1
  <2>3. l + 1 # 0
    BY <2>2
  <2> QED BY <2>1, <2>2, <2>3 DEF GotTo, EndAt
<1>17. /\ left > MaxSend => c.n = MaxSend /\ newLeft = m.size - (c.from + c.n)
                            /\ c.from + c.n < m.size
       /\ ~ (left > MaxSend) => c.from + c.n = m.size
  <2>1. c.n = IF MaxSend <= m.size - c.from THEN MaxSend ELSE m.size - c.from
    BY <1>5 DEF Smaller
  <2> QED BY <1>6, <1>9, <2>1 DEF newLeft
<1>18. WaitTypeOK'
  <2>1. \A x \in Procs : Width(x)' = Width(x)
    BY <1>1 DEF Width, Incoming
  <2>2. \A x \in Procs :
          /\ round[x] > 0 => buffers'[x] \in [1 .. Width(x) -> Seq(Pieces)]
          /\ waitall[x] \in {"posting", "looping"} => m_irecvs'[x] \in [1 .. Width(x) -> Nat]
    <3>1. \A x \in Procs : x # p =>
            /\ round[x] > 0 => buffers[x] \in [1 .. Width(x) -> Seq(Pieces)]
            /\ waitall[x] \in {"posting", "looping"} => m_irecvs[x] \in [1 .. Width(x) -> Nat]
      BY <1>3 DEF WaitTypeOK
    <3> QED BY <1>12, <1>13, <3>1
  <2> QED BY <1>1, <1>3, <1>12, <1>14, <2>1, <2>2 DEF WaitTypeOK
<1>19. Apart' /\ ToBeSent'
  BY <1>1 DEF WaitIInv, Apart, ToBeSent, Outgoing
<1>20. \A j \in DOMAIN Tail(s) : j + 1 \in DOMAIN s /\ Tail(s)[j] = s[j + 1]
  BY <1>3
<1>21. InChannel'
  <2> SUFFICES ASSUME NEW x \in Procs, NEW y \in Procs, NEW j \in DOMAIN channel'[x][y]
               PROVE  /\ channel'[x][y][j].round = round[x] /\ round[x] > 0
                      /\ channel'[x][y][j].msg \in Outgoing(x, round[x])
                      /\ channel'[x][y][j].msg.dst = y
                      /\ channel'[x][y][j].from < channel'[x][y][j].msg.size
                      /\ channel'[x][y][j].n =
                           Smaller(MaxSend, channel'[x][y][j].msg.size - channel'[x][y][j].from)
    BY <1>1 DEF InChannel, Outgoing
  <2>1. PICK l \in DOMAIN channel[x][y] : channel'[x][y][j] = channel[x][y][l]
    <3>1. CASE x = q /\ y = p
      BY <1>14, <1>20, <3>1, <1>head, ZenonT(30)
    <3>2. CASE ~ (x = q /\ y = p)
      BY <1>14, <3>2
    <3> QED BY <3>1, <3>2
  <2> QED BY <2>1 DEF WaitIInv, InChannel
<1>22. AllStreams'
  <2> SUFFICES ASSUME NEW x \in Procs, NEW y \in Procs, round[y] > 0, round[x] <= round[y],
                      NEW w \in Outgoing(y, round[y]), w.dst = x
               PROVE  Streams(x, y, w)'
    BY <1>1 DEF AllStreams, Outgoing
  <2>1. Streams(x, y, w)
    BY DEF WaitIInv, AllStreams
  <2>2. \A n : Sent(y, w, n)' => Sent(y, w, n)
    BY <1>1, SentFrame
  <2>3. ~ (x = p /\ w = m) => Received(x, y, w)' = Received(x, y, w)
    <3>1. CASE round[x] = round[y]
      <4>1. w \in Incoming(x, round[x])
        BY <3>1 DEF Incoming, Outgoing
      <4> QED BY <1>1, <1>15, <3>1, <4>1 DEF Received
    <3>2. CASE round[x] # round[y]
      BY <1>1, <3>2 DEF Received
    <3> QED BY <3>1, <3>2
  <2>4. CASE ~ (x = p /\ y = q)
    <3>1. ~ (x = p /\ w = m)
      <4>1. w.src = y /\ m.src = q
        BY <1>5 DEF Outgoing
      <4> QED BY <2>4, <4>1
    <3>2. channel'[y][x] = channel[y][x]
      BY <1>14, <2>4
    <3> QED BY <2>1, <2>2, <2>3, <3>1, <3>2, StreamFrame
  <2>5. CASE x = p /\ y = q
    <3> DEFINE b == Received(p, q, w)
               a == IF s[1].msg = w THEN s[1].from + s[1].n ELSE b
    <3>1. /\ Chain(b, s, Pos(s, w)) /\ \A n : Sent(q, w, n) => Leads(b, s, Pos(s, w), n)
      BY <2>1, <2>5, <1>head DEF Streams
    <3>2. /\ Chain(b, s, Pos(s, w)) => Chain(a, Tail(s), Pos(Tail(s), w))
          /\ \A n : Leads(b, s, Pos(s, w), n) => Leads(a, Tail(s), Pos(Tail(s), w), n)
      BY <1>3, TailLeads
    <3>3. Received(p, q, w)' = a
      <4>1. CASE w = m
        <5>1. Received(p, q, m)' = GotTo(p, m)'
          BY <1>1, <1>4 DEF Received
        <5> QED BY <1>16, <1>head, <4>1, <5>1
      <4>2. CASE w # m
        BY <1>head, <2>3, <2>5, <4>2
      <4> QED BY <4>1, <4>2
    <3>4. /\ Chain(Received(p, q, w)', channel'[q][p], Pos(channel'[q][p], w))
          /\ \A n : Sent(q, w, n)' =>
               Leads(Received(p, q, w)', channel'[q][p], Pos(channel'[q][p], w), n)
      <4> HIDE DEF a, b
      <4> QED BY <1>14, <2>2, <2>5, <3>1, <3>2, <3>3
    <3> QED BY <2>5, <3>4 DEF Streams
  <2> QED BY <2>4, <2>5
<1>23. Buffered'
  <2> SUFFICES ASSUME NEW x \in Procs, round[x] > 0, NEW w \in Incoming(x, round[x])
               PROVE  BufferOK(x, w)'
    BY <1>1 DEF Buffered, Incoming
  <2>1. BufferOK(x, w)
    BY DEF WaitIInv, Buffered
  <2>2. CASE ~ (x = p /\ w = m)
    <3>1. /\ Buffer(x, w)' = Buffer(x, w) /\ GotTo(x, w)' = GotTo(x, w)
          /\ m_irecvs'[x][w.tag + 1] = m_irecvs[x][w.tag + 1]
      BY <1>15, <2>2
    <3> QED BY <1>1, <2>1, <3>1 DEF BufferOK
  <2>3. CASE x = p /\ w = m
    <3> DEFINE t == Buffer(p, m)
    <3>1. /\ t \in Seq(Pieces) /\ Buffer(p, m)' = Append(t, c) /\ GotTo(p, m)' = c.from + c.n
      BY <1>16
    <3>2. /\ Len(t) \in Nat /\ DOMAIN t = 1 .. Len(t)
          /\ DOMAIN Append(t, c) = 1 .. Len(t) + 1 /\ Append(t, c)[Len(t) + 1] = c
          /\ \A j \in 1 .. Len(t) : Append(t, c)[j] = t[j]
      BY <1>5, <3>1
    <3>3. EndAt(t, Len(t)) = c.from
      BY <1>5 DEF GotTo
    <3>4. \A j \in 1 .. Len(t) : /\ t[j].msg = m /\ t[j].round = round[p]
                                 /\ t[j].from = EndAt(t, j - 1)
      BY <1>8, <3>2 DEF BufferOK
    <3>5. round[m.src] >= round[p]
      <4>1. m.src = q /\ round[p] \in Nat
        BY <1>3, <1>5, WaitNumbers DEF Outgoing
      <4> QED BY <1>4, <4>1
    <3> HIDE DEF t
    <3>6. ASSUME NEW j \in DOMAIN Append(t, c)
          PROVE  /\ Append(t, c)[j].msg = m /\ Append(t, c)[j].round = round[p]
                 /\ Append(t, c)[j].from = EndAt(Append(t, c), j - 1)
      <4>1. \A l \in 0 .. Len(t) : EndAt(Append(t, c), l) = EndAt(t, l)
        BY <3>2 DEF EndAt
      <4>2. CASE j = Len(t) + 1
        <5>1. j - 1 = Len(t) /\ Len(t) \in 0 .. Len(t)
          BY <3>2, <4>2
        <5> QED BY <1>5, <1>head, <3>2, <3>3, <4>1, <4>2, <5>1
      <4>3. CASE j \in 1 .. Len(t)
        <5>1. j - 1 \in 0 .. Len(t)
          BY <3>2, <4>3
        <5> QED BY <3>2, <3>4, <4>1, <4>3, <5>1
      <4> QED BY <3>2, <4>2, <4>3
    <3>7. GotTo(p, m)' \in 0 .. m.size
      BY <1>6, <1>17, <3>1
    <3>8. GotTo(p, m)' < m.size => m_irecvs'[p][i] = m.size - GotTo(p, m)'
      <4> QED BY <1>6, <1>13, <1>17, <3>1
    <3> QED BY <1>1, <2>3, <3>1, <3>5, <3>6, <3>7, <3>8, <1>head, SMTT(20) DEF BufferOK
  <2> QED BY <2>2, <2>3
<1>24. Counted'
  <2>1. \A x \in Procs : Incoming(x, round[x])' = Incoming(x, round[x])
    BY <1>1 DEF Incoming
  <2>2. \A x \in Procs : x # p => Missing(x)' = Missing(x)
    BY <1>15, <2>1 DEF Missing
  <2>3. m \in Missing(p) /\ nMsgs[p] = Cardinality(Missing(p)) /\ IsFiniteSet(Missing(p))
    <3>1. IsFiniteSet(Incoming(p, round[p])) /\ Missing(p) \subseteq Incoming(p, round[p])
      BY <1>6, Tags DEF Missing
    <3> QED BY <1>5, <3>1, FS_Subset DEF WaitIInv, Counted, Missing
  <2>4. nMsgs'[p] = Cardinality(Missing(p)')
    <3>1. CASE left > MaxSend
      <4>1. Missing(p)' = Missing(p)
        <5>1. \A w \in Incoming(p, round[p]) : GotTo(p, w)' < w.size <=> GotTo(p, w) < w.size
          <6>1. GotTo(p, m)' < m.size /\ GotTo(p, m) < m.size
            BY <1>5, <1>16, <1>17, <3>1
          <6> QED BY <1>15, <6>1
        <5> QED BY <2>1, <5>1 DEF Missing
      <4> QED BY <1>12, <2>3, <3>1, <4>1 DEF newCount
    <3>2. CASE ~ (left > MaxSend)
      <4>1. Missing(p)' = Missing(p) \ {m}
        <5>1. ~ (GotTo(p, m)' < m.size)
          BY <1>6, <1>16, <1>17, <3>2
        <5>2. \A w \in Incoming(p, round[p]) : w # m => GotTo(p, w)' = GotTo(p, w)
          BY <1>15
        <5>3. Missing(p)' = {w \in Incoming(p, round[p]) : GotTo(p, w)' < w.size}
          BY <2>1 DEF Missing
        <5> QED BY <5>1, <5>2, <5>3 DEF Missing
      <4>2. Cardinality(Missing(p) \ {m}) = Cardinality(Missing(p)) - 1
        BY <2>3, FS_RemoveElement
      <4> QED BY <1>12, <2>3, <3>2, <4>1, <4>2 DEF newCount
    <3> QED BY <3>1, <3>2
  <2> QED BY <1>1, <1>12, <2>2, <2>4 DEF WaitIInv, Counted, Behind
<1>25. Drained'
  <2> SUFFICES ASSUME NEW x \in Procs, NEW y \in Procs, Past(x, y) PROVE channel'[y][x] = << >>
    BY <1>1 DEF Drained, Past, Behind
  <2>1. channel[y][x] = << >>
    BY DEF WaitIInv, Drained
  <2> QED BY <1>3, <1>14, <2>1, <1>head
<1> QED
  BY <1>18, <1>19, <1>21, <1>22, <1>23, <1>24, <1>25 DEF WaitIInv

LEMMA WaitStep == WaitIInv /\ [WaitNext]_waitVars => WaitIInv'
<1> SUFFICES ASSUME WaitIInv, [WaitNext]_waitVars PROVE WaitIInv'
  OBVIOUS
<1>1. CASE UNCHANGED waitVars
  BY <1>1, WaitFrame DEF waitVars
<1>2. ASSUME NEW p \in Procs,
             \/ irecv(p) \/ isend(p) \/ iwaitall(p)
             \/ Testsome(p) \/ Recv(p) \/ LoopEnds(p)
             \/ WaitSome(p) \/ EnterBarrier(p) \/ LeaveBarrier(p)
      PROVE  WaitIInv'
  <2>1. CASE irecv(p)
    BY <2>1, IrecvKeeps
  <2>2. CASE isend(p)
    BY <2>2, IsendKeeps
  <2>3. CASE iwaitall(p)
    BY <2>3, IwaitallKeeps
  <2>4. CASE Testsome(p)
    BY <2>4, NextChunkKeeps DEF Testsome
  <2>5. CASE Recv(p)
    BY <2>5, RecvKeeps
  <2>6. CASE LoopEnds(p)
    BY <2>6, LoopEndsKeeps
  <2>7. CASE WaitSome(p)
    BY <2>7, WaitSomeKeeps
  <2>8. CASE EnterBarrier(p)
    BY <2>8, EnterBarrierKeeps
  <2>9. CASE LeaveBarrier(p)
    BY <2>9, LeaveBarrierKeeps
  <2> QED BY <1>2, <2>1, <2>2, <2>3, <2>4, <2>5, <2>6, <2>7, <2>8, <2>9
<1> QED
  BY <1>1, <1>2 DEF WaitNext

(* A process behind the loop of iwaitall has all of its messages, and what *)
(* waits for a process in the loop is the next piece of one of its round:  *)
(* the barrier keeps the rounds apart, whatever MPI buffers.               *)
THEOREM MessagesDelivered == WaitSpec => []WaitallDelivers
<1>1. WaitIInv => WaitallDelivers
  <2> SUFFICES ASSUME WaitIInv, NEW p \in Procs
               PROVE  /\ waitall[p] \in {"finishing", "barrier"} =>
                           \A m \in Incoming(p, round[p]) :
                             IsMessage(buffers[p][m.tag + 1], m, round[p])
                      /\ InWaitLoop(p) =>
                           \A q \in Procs : channel[q][p] # << >> =>
                             LET c == Head(channel[q][p])
                                 buffer == buffers[p][c.msg.tag + 1] IN
                             c.round = round[p] /\ c.from = EndAt(buffer, Len(buffer))
    BY DEF WaitallDelivers
  <2>1. ASSUME waitall[p] \in {"finishing", "barrier"}, NEW m \in Incoming(p, round[p])
        PROVE  IsMessage(buffers[p][m.tag + 1], m, round[p])
    <3>1. round[p] > 0
      BY <2>1 DEF WaitIInv, WaitTypeOK
    <3>2. BufferOK(p, m) /\ Missing(p) = {}
      BY <2>1, <3>1 DEF WaitIInv, Buffered, Counted, Behind
    <3>3. m.size \in Nat
      <4>1. m \in Planned
        BY <2>1, <3>1, WaitNumbers, Tags DEF WaitIInv
      <4> QED BY <4>1 DEF Planned
    <3>4. GotTo(p, m) = m.size
      BY <2>1, <3>2, <3>3 DEF Missing, BufferOK
    <3> QED BY <3>2, <3>4 DEF IsMessage, BufferOK, Buffer, GotTo
  <2>2. ASSUME InWaitLoop(p), NEW q \in Procs, channel[q][p] # << >>
        PROVE  LET c == Head(channel[q][p])
                   buffer == buffers[p][c.msg.tag + 1] IN
               c.round = round[p] /\ c.from = EndAt(buffer, Len(buffer))
    <3>1. round[p] = round[q]
      BY <2>2, SameRound DEF InWaitLoop
    <3>2. Head(channel[q][p]) = channel[q][p][1]
      BY <2>2 DEF WaitIInv, WaitTypeOK
    <3> QED BY <2>2, <3>1, <3>2, HeadFits DEF GotTo, Buffer
  <2> QED BY <2>1, <2>2
<1> QED
  BY <1>1, WaitStarts, WaitStep, PTL DEF WaitSpec

----------------------------------------------------------------------------
(* The command line *)


\* A way to place the new arguments from the i-th on: in order, into strings
\* that hold them.
Fits(place) == /\ Increasing(place)
               /\ \A i \in DOMAIN place : new_argv[i] <= arglengths[place[i]]
Ways == {place \in [1 .. Len(new_argv) -> 1 .. argc] : Fits(place)}

ArgTypeOK ==
  /\ arglengths \in Seq(Nat) /\ new_argv \in Seq(Nat)
  /\ Len(new_argv) <= argc
  /\ new_pos \in 0 .. argc
  /\ modified \in Seq(Nat)

\* The arguments before the current one are in modified, in order.
InOrder ==
  /\ Current - 1 \in 0 .. Len(new_argv)
  /\ {modified[k] : k \in Taken(modified)} = 1 .. Current - 1
  /\ \A j, k \in Taken(modified) : j < k => modified[j] < modified[k]
  /\ \A k \in Taken(modified) : k <= argc => new_argv[modified[k]] <= arglengths[k]

\* Each is as far to the front as it can be.
Greedy ==
  /\ \/ Len(modified) = new_pos
     \/ Len(modified) > argc /\ new_pos = argc /\ Ways = {}
  /\ \A place \in Ways : \A i \in Current .. Len(new_argv) : place[i] > new_pos

\* An array that MPI has not edited points to its own strings.
Aimed == ~ inPlace => target = [k \in 1 .. argc |-> k]

Ended ==
  /\ ~ inPlace => copying # "undefined"
  /\ ~ inPlace /\ copying = "copied" =>
       /\ Len(modified) <= argc /\ Current > Len(new_argv)
       /\ argv = [k \in 1 .. argc |-> IF k <= Len(modified) THEN modified[k] ELSE Empty]
  /\ copying = "aborted" => Len(modified) > argc

ArgIInv == ArgTypeOK /\ InOrder /\ Greedy /\ Aimed /\ Ended

LEMMA ArgInitOK ==
  ASSUME ArgumentsInit
  PROVE  ArgIInv
<1>1. ArgTypeOK /\ modified = <<>> /\ new_pos = 0 /\ copying = "copying"
  <2>1. ASSUME NEW n \in Nat, NEW s \in SeqOf(Lengths, n)
        PROVE  s \in Seq(Nat) /\ Len(s) <= n
    <3>1. PICK m \in 0 .. n : s \in [1 .. m -> Lengths]  BY <2>1 DEF SeqOf
    <3>2. m \in Nat /\ m <= n  OBVIOUS
    <3>3. \A k \in 1 .. m : s[k] \in Nat  BY <3>1, ArgumentsAssumption
    <3>4. s \in [1 .. m -> Nat]  BY <3>1, <3>3
    <3> QED  BY <3>2, <3>4
  <2>2. arglengths \in SeqOf(Lengths, MaxArgc) /\ (NewArray \/ EditedInPlace)
    BY DEF ArgumentsInit
  <2>3. arglengths \in Seq(Nat)  BY <2>1, <2>2, ArgumentsAssumption
  <2>4. argc \in Nat  BY <2>3 DEF argc
  <2>5. CASE NewArray  BY <2>1, <2>3, <2>4, <2>5 DEF NewArray, ArgumentsInit, ArgTypeOK
  <2>6. CASE EditedInPlace
    <3>1. PICK n \in 1 .. argc - 1 :
            \E kept \in [1 .. n -> 1 .. argc] : new_argv = [i \in 1 .. n |-> arglengths[kept[i]]]
      BY <2>6 DEF EditedInPlace
    <3>2. PICK kept \in [1 .. n -> 1 .. argc] : new_argv = [i \in 1 .. n |-> arglengths[kept[i]]]
      BY <3>1
    <3>3. n \in Nat /\ n <= argc  BY <2>4
    <3>4. \A i \in 1 .. n : arglengths[kept[i]] \in Nat
      <4>1. \A k \in 1 .. argc : arglengths[k] \in Nat  BY <2>3 DEF argc
      <4> QED  BY <4>1
    <3>5. new_argv \in Seq(Nat) /\ Len(new_argv) = n  BY <3>3, <3>4, <3>2
    <3> QED  BY <2>3, <2>4, <3>3, <3>5 DEF ArgumentsInit, ArgTypeOK
  <2> QED  BY <2>2, <2>5, <2>6
<1>2. Taken(modified) = {} /\ Current = 1
  <2>1. Taken(modified) = {}  BY <1>1 DEF Taken
  <2> QED  BY <2>1, FS_EmptySet DEF Current
<1>3. InOrder
  <2>1. Len(new_argv) \in Nat  BY <1>1 DEF ArgTypeOK
  <2> QED  BY <1>2, <2>1 DEF InOrder
<1>4. Greedy
  <2>1. argc \in Nat  BY <1>1 DEF ArgTypeOK, argc
  <2>2. ASSUME NEW place \in Ways, NEW i \in Current .. Len(new_argv) PROVE place[i] > new_pos
    <3>1. i \in 1 .. Len(new_argv)  BY <1>2
    <3>2. place[i] \in 1 .. argc  BY <3>1 DEF Ways
    <3> QED  BY <1>1, <2>1, <3>2
  <2> QED  BY <1>1, <2>2 DEF Greedy
<1>5. Ended  BY <1>1 DEF Ended
<1>6. Aimed  BY DEF Aimed, ArgumentsInit, NewArray, EditedInPlace
<1> QED  BY <1>1, <1>3, <1>4, <1>5, <1>6 DEF ArgIInv

LEMMA TakenFinite ==
  ASSUME NEW s \in Seq(Nat)
  PROVE  IsFiniteSet(Taken(s)) /\ Cardinality(Taken(s)) \in Nat /\ Taken(s) \subseteq 1 .. Len(s)
<1>1. Taken(s) \subseteq 1 .. Len(s)  BY DEF Taken
<1>2. IsFiniteSet(1 .. Len(s))  BY FS_Interval
<1> QED  BY <1>1, <1>2, FS_Subset, FS_CardinalityType

LEMMA TakenAppend ==
  ASSUME NEW s \in Seq(Nat), NEW a \in Nat
  PROVE  /\ Append(s, a) \in Seq(Nat) /\ Len(Append(s, a)) = Len(s) + 1
         /\ \A k \in 1 .. Len(s) : Append(s, a)[k] = s[k]
         /\ Append(s, a)[Len(s) + 1] = a
         /\ Taken(Append(s, a)) = IF a = Empty THEN Taken(s) ELSE Taken(s) \cup {Len(s) + 1}
         /\ Len(s) + 1 \notin Taken(s)
<1>1. /\ Append(s, a) \in Seq(Nat) /\ Len(Append(s, a)) = Len(s) + 1
      /\ DOMAIN Append(s, a) = 1 .. Len(s) + 1 /\ DOMAIN s = 1 .. Len(s) /\ Len(s) \in Nat
      /\ \A k \in 1 .. Len(s) : Append(s, a)[k] = s[k]
      /\ Append(s, a)[Len(s) + 1] = a
  OBVIOUS
<1>2. PICK t : t = Append(s, a)  OBVIOUS
<1>3. 1 .. Len(s) + 1 = (1 .. Len(s)) \cup {Len(s) + 1} /\ Len(s) + 1 \notin 1 .. Len(s)
  BY <1>1
<1>4. Taken(t) = IF a = Empty THEN Taken(s) ELSE Taken(s) \cup {Len(s) + 1}
  BY <1>1, <1>2, <1>3 DEF Taken
<1>5. Len(s) + 1 \notin Taken(s)  BY <1>1, <1>3 DEF Taken
<1> QED  BY <1>1, <1>2, <1>4, <1>5

\* Where nothing has been copied back, only the lists and the place matter.
LEMMA PassStep ==
  ASSUME ArgIInv, PushEmpty
  PROVE  ArgIInv'
<1>1. /\ new_pos < argc /\ new_argv[Current] > arglengths[new_pos + 1] /\ Current <= Len(new_argv)
      /\ modified' = Append(modified, Empty) /\ new_pos' = new_pos + 1
      /\ UNCHANGED <<copying, inPlace, target, arglengths, new_argv, argv>>
      /\ copying = "copying"
  BY DEF PushEmpty, Passes, TooShort
<1>2. /\ argc' = argc /\ argc \in Nat /\ new_pos \in Nat /\ Len(new_argv) \in Nat
      /\ modified \in Seq(Nat) /\ Empty \in Nat /\ Current \in Nat \ {0}
      /\ Len(modified) = new_pos
  <2>1. argc' = argc  BY <1>1 DEF argc
  <2>2. argc \in Nat /\ new_pos \in Nat /\ Len(new_argv) \in Nat /\ modified \in Seq(Nat)
    BY DEF ArgIInv, ArgTypeOK, argc
  <2>3. Current \in Nat \ {0}  BY <2>2, TakenFinite DEF Current
  <2>4. Len(modified) = new_pos  BY <1>1, <2>2 DEF ArgIInv, Greedy
  <2> QED  BY <2>1, <2>2, <2>3, <2>4 DEF Empty
<1>3. /\ modified' \in Seq(Nat) /\ Len(modified') = new_pos + 1
      /\ \A k \in 1 .. Len(modified) : modified'[k] = modified[k]
      /\ Taken(modified') = Taken(modified)
  BY <1>1, <1>2, TakenAppend
<1>4. Taken(modified) \subseteq 1 .. Len(modified)  BY <1>2, TakenFinite
<1>5. Current' = Current  BY <1>3 DEF Current
<1>6. ArgTypeOK'  BY <1>1, <1>2, <1>3 DEF ArgIInv, ArgTypeOK
<1>7. InOrder'
  <2>1. \A k \in Taken(modified) : modified'[k] = modified[k]  BY <1>3, <1>4
  <2>2. {modified'[k] : k \in Taken(modified)} = {modified[k] : k \in Taken(modified)}
    BY <2>1
  <2> QED  BY <1>1, <1>2, <1>3, <1>5, <2>1, <2>2 DEF ArgIInv, InOrder
<1>8. Ways' = Ways  BY <1>1 DEF Ways, Fits, argc
<1>9. Greedy'
  <2>1. ASSUME NEW place \in Ways, NEW i \in Current .. Len(new_argv)
        PROVE  place[i] > new_pos + 1
    <3>1. Current \in 1 .. Len(new_argv) /\ i \in 1 .. Len(new_argv)  BY <1>1, <1>2
    <3>2. /\ \A j \in 1 .. Len(new_argv) : place[j] \in 1 .. argc
          /\ DOMAIN place = 1 .. Len(new_argv)
      BY DEF Ways
    <3>3. place[Current] > new_pos /\ place[i] > new_pos
      BY <1>1, <1>2, Current \in Current .. Len(new_argv) DEF ArgIInv, Greedy
    <3>4. place[Current] # new_pos + 1
      <4>1. new_argv[Current] <= arglengths[place[Current]]  BY <3>1, <3>2 DEF Ways, Fits
      <4>2. new_argv[Current] \in Nat  BY <3>1 DEF ArgIInv, ArgTypeOK
      <4>3. arglengths[new_pos + 1] \in Nat
        <5>1. new_pos + 1 \in 1 .. Len(arglengths)  BY <1>1, <1>2 DEF argc
        <5> QED  BY <5>1 DEF ArgIInv, ArgTypeOK
      <4> QED  BY <1>1, <4>1, <4>2, <4>3
    <3>5. i > Current => place[Current] < place[i]  BY <3>1, <3>2 DEF Ways, Fits, Increasing
    <3>6. place[Current] \in Nat /\ place[i] \in Nat  BY <1>2, <3>1, <3>2
    <3>7. i = Current \/ i > Current  BY <1>2
    <3> QED  BY <1>2, <3>3, <3>4, <3>5, <3>6, <3>7
  <2> QED  BY <1>1, <1>2, <1>3, <1>5, <1>8, <2>1 DEF Greedy
<1>10. Ended' /\ Aimed'  BY <1>1, <1>2 DEF ArgIInv, Ended, Aimed
<1> QED  BY <1>6, <1>7, <1>9, <1>10 DEF ArgIInv

LEMMA PlaceStep ==
  ASSUME ArgIInv, PushArgument
  PROVE  ArgIInv'
<1>1. /\ ~ Passes(Current) /\ Current <= Len(new_argv)
      /\ modified' = Append(modified, Current)
      /\ new_pos' = IF new_pos < argc THEN new_pos + 1 ELSE new_pos
      /\ UNCHANGED <<copying, inPlace, target, arglengths, new_argv, argv>>
      /\ copying = "copying"
  BY DEF PushArgument
<1>2. /\ argc' = argc /\ argc \in Nat /\ new_pos \in 0 .. argc /\ Len(new_argv) \in Nat
      /\ modified \in Seq(Nat) /\ Current \in Nat \ {0} /\ Len(modified) \in Nat
      /\ Current = 1 + Cardinality(Taken(modified)) /\ Cardinality(Taken(modified)) \in Nat
  <2>1. argc' = argc  BY <1>1 DEF argc
  <2>2. argc \in Nat /\ new_pos \in 0 .. argc /\ Len(new_argv) \in Nat /\ modified \in Seq(Nat)
    BY DEF ArgIInv, ArgTypeOK, argc
  <2>3. Cardinality(Taken(modified)) \in Nat  BY <2>2, TakenFinite
  <2> QED  BY <2>1, <2>2, <2>3 DEF Current
<1>3. PICK c, n : c = Current /\ n = Len(modified)  OBVIOUS
<1>4. /\ modified' \in Seq(Nat) /\ Len(modified') = n + 1
      /\ \A k \in 1 .. n : modified'[k] = modified[k]
      /\ modified'[n + 1] = c
      /\ Taken(modified') = Taken(modified) \cup {n + 1}
      /\ n + 1 \notin Taken(modified)
  BY <1>1, <1>2, <1>3, TakenAppend DEF Empty
<1>5. Taken(modified) \subseteq 1 .. n /\ IsFiniteSet(Taken(modified))  BY <1>2, <1>3, TakenFinite
<1>6. Current' = c + 1
  <2>1. Cardinality(Taken(modified) \cup {n + 1}) = Cardinality(Taken(modified)) + 1
    BY <1>4, <1>5, FS_AddElement
  <2> QED  BY <1>2, <1>3, <1>4, <2>1 DEF Current
<1>7. ArgTypeOK'  BY <1>1, <1>2, <1>4 DEF ArgIInv, ArgTypeOK
<1>8. n = new_pos \/ (n > argc /\ new_pos = argc /\ Ways = {})
  BY <1>3 DEF ArgIInv, Greedy
<1>9. InOrder'
  <2>1. \A k \in Taken(modified) : modified'[k] = modified[k] /\ k <= n /\ k \in Nat
    BY <1>2, <1>3, <1>4, <1>5
  <2>2. {modified[k] : k \in Taken(modified)} = 1 .. (c - 1)
    BY <1>3 DEF ArgIInv, InOrder
  <2>3. {modified'[k] : k \in Taken(modified')} = 1 .. c
    <3>1. {modified'[k] : k \in Taken(modified) \cup {n + 1}}
            = {modified[k] : k \in Taken(modified)} \cup {c}
      BY <1>4, <2>1
    <3>2. (1 .. (c - 1)) \cup {c} = 1 .. c  BY <1>2, <1>3
    <3> QED  BY <1>4, <2>2, <3>1, <3>2
  <2>4. \A k \in Taken(modified) : modified[k] < c
    <3>1. \A k \in Taken(modified) : modified[k] \in 1 .. (c - 1)  BY <2>2
    <3> QED  BY <1>2, <1>3, <3>1
  <2>5. ASSUME NEW j \in Taken(modified'), NEW k \in Taken(modified'), j < k
        PROVE  modified'[j] < modified'[k]
    <3>1. CASE k = n + 1
      <4>1. j \in Taken(modified)  BY <1>2, <1>3, <1>4, <2>5, <3>1
      <4> QED  BY <1>4, <2>1, <2>4, <3>1, <4>1
    <3>2. CASE k \in Taken(modified)
      <4>1. j \in Taken(modified)  BY <1>2, <1>3, <1>4, <2>1, <2>5, <3>2
      <4> QED  BY <2>1, <2>5, <3>2, <4>1 DEF ArgIInv, InOrder
    <3> QED  BY <1>4, <3>1, <3>2
  <2>6. n + 1 <= argc => new_argv[c] <= arglengths[n + 1]
    <3>1. SUFFICES ASSUME n + 1 <= argc PROVE new_argv[c] <= arglengths[n + 1]  OBVIOUS
    <3>2. n = new_pos /\ new_pos < argc  BY <1>2, <1>3, <1>8, <3>1
    <3>3. ~ (new_argv[c] > arglengths[n + 1])  BY <1>1, <1>3, <3>2 DEF Passes, TooShort
    <3>4. c \in 1 .. Len(new_argv) /\ n + 1 \in 1 .. Len(arglengths)
      BY <1>1, <1>2, <1>3, <3>1 DEF argc
    <3>5. new_argv \in Seq(Nat) /\ arglengths \in Seq(Nat)  BY DEF ArgIInv, ArgTypeOK
    <3>6. new_argv[c] \in Nat /\ arglengths[n + 1] \in Nat
      BY ONLY <3>4, <3>5, ElementOfSeq
    <3> QED  BY ONLY <3>3, <3>6
  <2>7. ASSUME NEW k \in Taken(modified'), k <= argc
        PROVE  new_argv[modified'[k]] <= arglengths[k]
    BY <1>4, <2>1, <2>6, <2>7 DEF ArgIInv, InOrder
  <2>8. Current' - 1 = c /\ c \in 0 .. Len(new_argv)  BY <1>1, <1>2, <1>3, <1>6
  <2> QED  BY <1>1, <1>2, <2>3, <2>5, <2>7, <2>8 DEF InOrder
<1>10. Ways' = Ways  BY <1>1 DEF Ways, Fits, argc
<1>16. Ended' /\ Aimed'  BY <1>1, <1>2 DEF ArgIInv, Ended, Aimed
<1>11. \A place \in Ways : /\ \A i \in 1 .. Len(new_argv) : place[i] \in 1 .. argc
                           /\ DOMAIN place = 1 .. Len(new_argv)
                           /\ Increasing(place)
  BY DEF Ways, Fits
<1>12. \A place \in Ways : \A i \in c .. Len(new_argv) : place[i] > new_pos
  BY <1>3 DEF ArgIInv, Greedy
<1>13. c \in 1 .. Len(new_argv) /\ c \in c .. Len(new_argv)  BY <1>1, <1>2, <1>3
<1>14. CASE new_pos < argc
  <2>1. n = new_pos /\ new_pos' = new_pos + 1  BY <1>1, <1>2, <1>8, <1>14
  <2>2. ASSUME NEW place \in Ways, NEW i \in (c + 1) .. Len(new_argv)
        PROVE  place[i] > new_pos + 1
    <3>1. i \in 1 .. Len(new_argv) /\ c < i  BY <1>2, <1>3
    <3>2. place[c] < place[i]  BY <1>11, <1>13, <3>1 DEF Increasing
    <3>3. place[c] > new_pos  BY <1>12, <1>13
    <3>4. place[c] \in Nat /\ place[i] \in Nat  BY <1>2, <1>11, <1>13, <3>1
    <3> QED  BY <1>2, <3>2, <3>3, <3>4
  <2>3. Greedy'  BY <1>1, <1>4, <1>6, <1>10, <2>1, <2>2 DEF Greedy
  <2> QED  BY <1>7, <1>9, <1>16, <2>3 DEF ArgIInv
<1>15. CASE ~ (new_pos < argc)
  <2>1. new_pos = argc /\ new_pos' = argc  BY <1>1, <1>2, <1>15
  <2>2. Ways = {}
    <3>1. SUFFICES ASSUME NEW place \in Ways PROVE FALSE  OBVIOUS
    <3>2. place[c] \in 1 .. argc /\ place[c] > argc  BY <1>11, <1>12, <1>13, <2>1
    <3> QED  BY <1>2, <3>2
  <2>3. n + 1 > argc  BY <1>2, <1>3, <1>8, <2>1
  <2>4. Greedy'  BY <1>1, <1>2, <1>4, <1>10, <2>1, <2>2, <2>3 DEF Greedy
  <2> QED  BY <1>7, <1>9, <1>16, <2>4 DEF ArgIInv
<1> QED  BY <1>14, <1>15

\* In an array that points to its own strings every entry has room for what is
\* written to it, and holds it then.
LEMMA OwnString ==
  ASSUME ArgIInv, ~ inPlace, NEW k \in 1 .. argc
  PROVE  target[k] = k /\ HasRoom(k) /\ Stored(target[k]) = Padded(k)
<1>1. target[k] = k /\ \A i \in 1 .. argc : target[i] = i  BY DEF ArgIInv, Aimed
<1>2. k \in 1 .. Len(arglengths) /\ arglengths \in Seq(Nat)  BY DEF ArgIInv, ArgTypeOK, argc
<1>3. arglengths[k] \in Nat  BY ONLY <1>2, ElementOfSeq
<1>4. k # Null  BY <1>2 DEF Null
<1>5. HasRoom(k)
  <2>1. arglengths[k] <= arglengths[k] + 1 /\ arglengths[k] # arglengths[k] + 1  BY <1>3
  <2> QED  BY <1>1, <1>4, <2>1 DEF HasRoom
<1>6. LastWriter(k) = k
  <2>1. {i \in 1 .. argc : target[i] = k} = {k}  BY <1>1
  <2>2. k \in Int /\ k >= k  BY <1>2
  <2>3. Max({k}) = k  BY <2>2 DEF Max
  <2> QED  BY <2>1, <2>3 DEF LastWriter
<1>7. ~ (arglengths[k] < arglengths[k])  BY <1>3
<1> QED  BY <1>1, <1>5, <1>6, <1>7 DEF Stored

LEMMA CopyStep ==
  ASSUME ArgIInv, CopyBack
  PROVE  ArgIInv'
<1>1. UNCHANGED <<inPlace, target, arglengths, new_argv, new_pos, modified>>  BY DEF CopyBack
<1>2. ArgTypeOK' /\ InOrder' /\ Greedy'
  BY <1>1 DEF ArgIInv, ArgTypeOK, InOrder, Greedy, Ways, Fits, Current, argc
<1>3. Current' = Current /\ argc' = argc  BY <1>1 DEF Current, argc
<1>5. Aimed'  BY <1>1, <1>3 DEF ArgIInv, Aimed
<1>4. Ended'
  <2>1. CASE copying' = "aborted"
    <3>1. Len(modified) > argc  BY <2>1 DEF CopyBack
    <3> QED  BY <1>1, <1>3, <2>1, <3>1 DEF Ended
  <2>2. CASE copying' = "undefined"
    <3>1. inPlace  BY <2>2, OwnString DEF CopyBack
    <3> QED  BY <1>1, <2>2, <3>1 DEF Ended
  <2>3. CASE copying' = "copied"
    <3>1. /\ Len(modified) <= argc /\ Current > Len(new_argv)
          /\ argv' = [k \in 1 .. argc |-> Stored(target[k])]
      BY <2>3 DEF CopyBack
    <3>2. ~ inPlace => argv' = [k \in 1 .. argc |-> IF k <= Len(modified) THEN modified[k] ELSE Empty]
      BY <3>1, OwnString DEF Padded
    <3> QED  BY <1>1, <1>3, <2>3, <3>1, <3>2 DEF Ended
  <2> QED  BY <2>1, <2>2, <2>3 DEF CopyBack
<1> QED  BY <1>2, <1>4, <1>5 DEF ArgIInv

LEMMA KeptFollows ==
  ASSUME ArgIInv
  PROVE  ArgumentsKept
<1>1. /\ argc \in Nat /\ modified \in Seq(Nat) /\ Len(modified) \in Nat /\ Len(new_argv) \in Nat
      /\ new_argv \in Seq(Nat) /\ arglengths \in Seq(Nat) /\ argc = Len(arglengths)
  BY DEF ArgIInv, ArgTypeOK, argc
<1>2. CASE copying = "copied" /\ ~ inPlace
  <2>1. /\ Len(modified) <= argc /\ Current > Len(new_argv)
        /\ argv = [k \in 1 .. argc |-> IF k <= Len(modified) THEN modified[k] ELSE Empty]
    BY <1>2 DEF ArgIInv, Ended
  <2>2. DOMAIN argv = 1 .. argc /\ Len(argv) = argc
    <3>1. argv \in [1 .. argc -> Nat]
      <4>1. \A k \in 1 .. Len(modified) : modified[k] \in Nat  BY <1>1
      <4> QED  BY <1>1, <2>1, <4>1 DEF Empty
    <3> QED  BY <1>1, <3>1
  <2>3. Taken(argv) = Taken(modified) /\ \A k \in Taken(modified) : argv[k] = modified[k] /\ k \in 1 .. argc
    <3>1. DOMAIN modified = 1 .. Len(modified)  BY <1>1
    <3>2. \A k \in 1 .. argc : argv[k] = IF k <= Len(modified) THEN modified[k] ELSE Empty
      BY <2>1
    <3>3. ASSUME NEW k PROVE k \in Taken(argv) <=> k \in Taken(modified)
      BY <1>1, <2>1, <2>2, <3>1, <3>2 DEF Taken
    <3>4. \A k \in Taken(modified) : k \in 1 .. Len(modified)  BY <3>1 DEF Taken
    <3>5. Taken(argv) = Taken(modified)  BY <3>3
    <3>6. \A k \in Taken(modified) : k \in 1 .. argc /\ k <= Len(modified)
      BY <1>1, <2>1, <3>4
    <3> QED  BY <3>2, <3>5, <3>6
  <2>4. {argv[k] : k \in Taken(argv)} = 1 .. Len(new_argv)
    <3>1. {argv[k] : k \in Taken(argv)} = {modified[k] : k \in Taken(modified)}  BY <2>3
    <3>2. Current - 1 \in 0 .. Len(new_argv) /\ {modified[k] : k \in Taken(modified)} = 1 .. Current - 1
      BY DEF ArgIInv, InOrder
    <3>3. Cardinality(Taken(modified)) \in Nat  BY <1>1, TakenFinite
    <3>4. Current - 1 = Len(new_argv)  BY <1>1, <2>1, <3>2, <3>3 DEF Current
    <3> QED  BY <3>1, <3>2, <3>4
  <2>5. /\ \A j, k \in Taken(argv) : j < k => argv[j] < argv[k]
        /\ \A k \in Taken(argv) : new_argv[argv[k]] <= arglengths[k]
    <3>1. \A k \in Taken(modified) : k <= argc  BY <1>1, <2>3
    <3> QED  BY <2>3, <3>1 DEF ArgIInv, InOrder
  <2> QED  BY <1>2, <2>2, <2>4, <2>5 DEF ArgumentsKept
<1>3. CASE copying = "aborted"
  <2>1. Ways = {}
    <3>1. Len(modified) > argc  BY <1>3 DEF ArgIInv, Ended
    <3>2. new_pos <= argc /\ new_pos \in Nat  BY <1>1 DEF ArgIInv, ArgTypeOK
    <3> QED  BY <1>1, <3>1, <3>2 DEF ArgIInv, Greedy
  <2>2. ASSUME NEW place \in [1 .. Len(new_argv) -> 1 .. argc], Increasing(place),
               ~ \E i \in DOMAIN place : new_argv[i] > arglengths[place[i]]
        PROVE  FALSE
    <3>1. ASSUME NEW i \in DOMAIN place PROVE new_argv[i] <= arglengths[place[i]]
      <4>1. i \in 1 .. Len(new_argv) /\ place[i] \in 1 .. argc  BY <3>1
      <4>2. new_argv[i] \in Nat /\ arglengths[place[i]] \in Nat  BY <1>1, <4>1
      <4> QED  BY <2>2, <4>2
    <3> QED  BY <2>1, <2>2, <3>1 DEF Ways, Fits
  <2> QED  BY <1>3, <2>2 DEF ArgumentsKept
<1>4. ~ inPlace => copying # "undefined"  BY DEF ArgIInv, Ended
<1> QED
  <2>1. CASE copying = "copied" /\ ~ inPlace  BY <1>2, <2>1
  <2>2. CASE copying = "aborted"  BY <1>3, <2>2
  <2>3. CASE ~ (copying = "copied" /\ ~ inPlace) /\ copying # "aborted"
    BY <1>4, <2>3 DEF ArgumentsKept
  <2> QED  BY <2>1, <2>2, <2>3

(* Whatever arguments MPI returns in an array of its own, the program gets *)
(* all of them, in their order and in strings that hold them, and nothing  *)
(* is written outside the strings.  Whether or not MPI has edited the old  *)
(* array instead, the constructor of init.cpp aborts only when there is no *)
(* way to place the arguments: taking the first string that is long enough *)
(* for each of them finds a way when there is one.                         *)
THEOREM CommandLineKept == ArgumentsSpec => []ArgumentsKept
<1>1. ArgumentsInit => ArgIInv  BY ArgInitOK
<1>2. ArgIInv /\ [ArgumentsNext]_argVars => ArgIInv'
  <2> SUFFICES ASSUME ArgIInv, [ArgumentsNext]_argVars PROVE ArgIInv'  OBVIOUS
  <2>1. CASE UNCHANGED argVars
    <3>1. UNCHANGED <<copying, inPlace, target, arglengths, new_argv, new_pos, modified, argv>>
      BY <2>1 DEF argVars
    <3>2. argc' = argc /\ Current' = Current /\ Ways' = Ways
      BY <3>1 DEF argc, Current, Ways, Fits
    <3>3. ArgTypeOK'  BY <3>1, <3>2 DEF ArgIInv, ArgTypeOK
    <3>4. InOrder'  BY <3>1, <3>2 DEF ArgIInv, InOrder
    <3>5. Greedy' /\ Ended' /\ Aimed'
      BY <3>1, <3>2 DEF ArgIInv, Greedy, Ended, Aimed
    <3> QED  BY <3>3, <3>4, <3>5 DEF ArgIInv
  <2> QED  BY <2>1, PassStep, PlaceStep, CopyStep DEF ArgumentsNext
<1>3. ArgIInv => ArgumentsKept  BY KeptFollows
<1> QED  BY <1>1, <1>2, <1>3, PTL DEF ArgumentsSpec

----------------------------------------------------------------------------
(* Numbers in bytes *)

LEMMA Masked ==
  ASSUME NEW r \in 0 .. Base - 1
  PROVE  (Base + r) % Base = r
<1>1. Base \in Nat /\ Base >= 2  BY EncodingAssumption
<1>2. PICK x, B, d, m : x = B + r /\ B = Base /\ d = x \div B /\ m = x % B  OBVIOUS
<1>3. x \in Nat /\ B \in Nat \ {0} /\ r \in 0 .. B - 1  BY <1>1, <1>2
<1>4. d \in Int /\ m \in 0 .. B - 1 /\ x = d * B + m  BY ONLY <1>2, <1>3
<1>5. d = 1
  <2>1. d <= 0 => d * B <= 0  BY ONLY <1>3, <1>4
  <2>2. d >= 2 => d * B >= 2 * B  BY ONLY <1>3, <1>4
  <2> QED  BY ONLY <1>2, <1>3, <1>4, <2>1, <2>2
<1>6. m = r  BY ONLY <1>2, <1>3, <1>4, <1>5
<1> QED  BY <1>2, <1>6

LEMMA DigitOf ==
  ASSUME NEW n \in Nat
  PROVE  /\ n \div Base \in Nat /\ n % Base \in 0 .. Base - 1
         /\ n = (n \div Base) * Base + (n % Base)
         /\ n \div Base <= n
         /\ n >= Base => n \div Base < n /\ n \div Base # 0
         /\ n < Base => n % Base = n
<1>1. Base \in Nat /\ Base >= 2  BY EncodingAssumption
<1>2. PICK q, r : q = n \div Base /\ r = n % Base  OBVIOUS
<1>3. q \in Int /\ r \in 0 .. Base - 1 /\ n = q * Base + r
  BY <1>1, <1>2
<1>4. PICK B : B = Base  OBVIOUS
<1>5. q >= 0
  <2>1. SUFFICES ASSUME q <= -1 PROVE FALSE  BY <1>3
  <2>2. q * B <= -B  BY ONLY <1>1, <1>3, <1>4, <2>1
  <2> QED  BY <1>1, <1>3, <1>4, <2>2
<1>6. q <= n /\ (q # 0 => q < n)
  <2>1. q * B >= 2 * q  BY ONLY <1>1, <1>3, <1>4, <1>5
  <2> QED  BY <1>1, <1>3, <1>4, <1>5, <2>1
<1>7. n >= Base => q # 0  BY <1>1, <1>3
<1>8. n < Base => q = 0
  <2>1. SUFFICES ASSUME n < Base, q >= 1 PROVE FALSE  BY <1>3, <1>5
  <2>2. q * B >= B  BY ONLY <1>1, <1>3, <1>4, <2>1
  <2> QED  BY <1>1, <1>3, <1>4, <2>1, <2>2
<1>9. n < Base => r = n  BY <1>1, <1>3, <1>8
<1>11. q \in Nat /\ (n >= Base => q < n)  BY <1>3, <1>5, <1>6, <1>7
<1>12. /\ q \in Nat /\ r \in 0 .. Base - 1
       /\ n = q * Base + r
       /\ q <= n
       /\ n >= Base => q < n /\ q # 0
       /\ n < Base => r = n
  BY ONLY <1>3, <1>6, <1>7, <1>9, <1>11
<1> QED  BY ONLY <1>2, <1>12

\* A set of numbers has a least one.
LEMMA LeastOf ==
  ASSUME NEW S \in SUBSET Nat, S # {}
  PROVE  \E m \in S : \A x \in S : m <= x
<1> DEFINE Below(x) == {y \in S : y < x}
           T == {Below(x) : x \in S}
<1>1. T \subseteq FiniteSubsetsOf(Nat)
  <2>1. SUFFICES ASSUME NEW x \in S PROVE Below(x) \subseteq Nat /\ IsFiniteSet(Below(x))
    BY DEF FiniteSubsetsOf
  <2>2. x \in Int /\ IsFiniteSet(0 .. x)  BY FS_Interval
  <2>3. ASSUME NEW y \in Below(x) PROVE y \in 0 .. x
    <3>1. y \in Nat /\ y < x  BY <2>3
    <3> QED  BY <2>2, <3>1
  <2> QED  BY <2>2, <2>3, FS_Subset
<1>2. PICK U \in T : \A V \in T : ~ (<<V, U>> \in StrictSubsetOrdering(Nat))
  <2>1. IsWellFoundedOn(StrictSubsetOrdering(Nat), FiniteSubsetsOf(Nat))
    BY FS_StrictSubsetOrderingWellFounded
  <2>2. T # {}  OBVIOUS
  <2> HIDE DEF T
  <2> QED  BY <1>1, <2>1, <2>2, WFMin
<1>3. PICK x \in S : U = Below(x)  OBVIOUS
<1>4. \A y \in S : x <= y
  <2> SUFFICES ASSUME NEW y \in S, y < x PROVE FALSE  OBVIOUS
  <2>1. Below(y) \in T  OBVIOUS
  <2>2. Below(y) \subseteq U /\ y \in U /\ y \notin Below(y)
    <3>1. x \in Int /\ y \in Int /\ \A z \in S : z \in Int  OBVIOUS
    <3>2. \A z \in S : z < y => z < x  BY <3>1
    <3>3. ~ (y < y)  BY <3>1
    <3> HIDE DEF T
    <3> QED  BY <1>3, <3>2, <3>3
  <2>3. U \subseteq Nat  BY <1>3
  <2> QED  BY <1>2, <2>1, <2>2, <2>3 DEF StrictSubsetOrdering
<1> QED  BY <1>4

----------------------------------------------------------------------------
(* What Encode and Decode compute.  Both are recursive functions: that they *)
(* exist, and what they are, is shown for the least counterexample.         *)

Digits(enc, n) == IF n < Base THEN <<n>> ELSE <<Base + (n % Base)>> \o enc[n \div Base]
Encoder(enc, m) == enc = [n \in 0 .. m |-> Digits(enc, n)]

LEMMA EncoderExists ==
  ASSUME NEW m \in Nat
  PROVE  \E enc : Encoder(enc, m)
<1> DEFINE Bad == {n \in Nat : ~ \E enc : Encoder(enc, n)}
<1>1. SUFFICES ASSUME Bad # {} PROVE FALSE  OBVIOUS
<1>2. PICK n \in Bad : \A x \in Bad : n <= x
  <2>1. Bad \in SUBSET Nat  OBVIOUS
  <2> HIDE DEF Bad
  <2> QED  BY <1>1, <2>1, LeastOf
<1>3. PICK f : n > 0 => Encoder(f, n - 1)
  <2>1. CASE n > 0
    <3>1. n - 1 \in Nat /\ n - 1 \notin Bad  BY <1>2, <2>1
    <3> QED  BY <3>1
  <2> QED  BY <2>1
<1>4. PICK g : g = [k \in 0 .. n |-> IF k < n THEN f[k] ELSE Digits(f, n)]  OBVIOUS
<1>5. ASSUME NEW k \in 0 .. n PROVE g[k] = Digits(g, k)
  <2>1. n \in Nat /\ k \in Nat  OBVIOUS
  <2>2. CASE k < Base
    <3>1. Digits(g, k) = <<k>> /\ Digits(f, k) = <<k>>  BY <2>2 DEF Digits
    <3>2. CASE k < n
      <4>1. n > 0 /\ k \in 0 .. n - 1  BY <2>1, <3>2
      <4>2. f[k] = Digits(f, k)  BY <1>3, <4>1 DEF Encoder
      <4> QED  BY <1>4, <3>1, <3>2, <4>2
    <3>3. CASE ~ (k < n)
      <4>1. k = n  BY <2>1, <3>3
      <4> QED  BY <1>4, <3>1, <3>3, <4>1
    <3> QED  BY <3>2, <3>3
  <2>3. CASE ~ (k < Base)
    <3>1. k \div Base \in 0 .. n /\ k \div Base < k /\ k \div Base < n
      <4>1. PICK q : q = k \div Base  OBVIOUS
      <4>2. q \in Nat /\ q < k
        <5>1. k >= Base  BY <2>1, <2>3, EncodingAssumption
        <5> QED  BY <2>1, <4>1, <5>1, DigitOf
      <4> QED  BY <2>1, <4>1, <4>2
    <3>2. g[k \div Base] = f[k \div Base]  BY <1>4, <3>1
    <3>3. Digits(g, k) = Digits(f, k)  BY <2>3, <3>2 DEF Digits
    <3>4. CASE k < n
      <4>1. n > 0 /\ k \in 0 .. n - 1  BY <2>1, <3>4
      <4>2. f[k] = Digits(f, k)  BY <1>3, <4>1 DEF Encoder
      <4> QED  BY <1>4, <3>3, <3>4, <4>2
    <3>5. CASE ~ (k < n)
      <4>1. k = n  BY <2>1, <3>5
      <4> QED  BY <1>4, <3>3, <3>5, <4>1
    <3> QED  BY <3>4, <3>5
  <2> QED  BY <2>2, <2>3
<1>6. g = [k \in 0 .. n |-> Digits(g, k)]  BY <1>4, <1>5
<1>7. n \notin Bad  BY <1>6 DEF Encoder
<1> QED  BY <1>2, <1>7

LEMMA EncodeIs ==
  ASSUME NEW m \in Nat
  PROVE  \E enc : Encoder(enc, m) /\ Encode(m) = enc[m]
<1>1. PICK f : f = CHOOSE enc : Encoder(enc, m)  OBVIOUS
<1>2. Encoder(f, m)  BY <1>1, EncoderExists
<1>3. Encode(m) = (CHOOSE enc : Encoder(enc, m))[m]  BY ONLY DEF Encode, Encoder, Digits
<1> QED  BY <1>1, <1>2, <1>3

Reads(v, bytes, width, k) ==
  IF k = 0 THEN 0 ELSE (v[k - 1] * Base + (bytes[Len(bytes) - k + 1] % Base)) % width
Reader(v, bytes, width, m) == v = [k \in 0 .. m |-> Reads(v, bytes, width, k)]

LEMMA ReaderAt ==
  ASSUME NEW bytes, NEW width, NEW m, NEW v, Reader(v, bytes, width, m), NEW k \in 0 .. m
  PROVE  v[k] = Reads(v, bytes, width, k)
<1>1. PICK f : f = [j \in 0 .. m |-> Reads(v, bytes, width, j)]  OBVIOUS
<1>2. f[k] = Reads(v, bytes, width, k)  BY ONLY <1>1, k \in 0 .. m
<1>3. v = f  BY ONLY <1>1, Reader(v, bytes, width, m) DEF Reader
<1> QED  BY ONLY <1>2, <1>3

LEMMA ReaderExists ==
  ASSUME NEW bytes, NEW width, NEW m \in Nat
  PROVE  \E v : Reader(v, bytes, width, m)
<1> DEFINE Bad == {n \in Nat : ~ \E v : Reader(v, bytes, width, n)}
<1>1. SUFFICES ASSUME Bad # {} PROVE FALSE  OBVIOUS
<1>2. PICK n \in Bad : \A x \in Bad : n <= x
  <2>1. Bad \in SUBSET Nat  OBVIOUS
  <2> HIDE DEF Bad
  <2> QED  BY <1>1, <2>1, LeastOf
<1>3. PICK f : n > 0 => Reader(f, bytes, width, n - 1)
  <2>1. CASE n > 0
    <3>1. n - 1 \in Nat /\ n - 1 \notin Bad  BY <1>2, <2>1
    <3> QED  BY <3>1
  <2> QED  BY <2>1
<1>4. PICK g : g = [k \in 0 .. n |-> IF k < n THEN f[k] ELSE Reads(f, bytes, width, n)]  OBVIOUS
<1>5. ASSUME NEW k \in 0 .. n PROVE g[k] = Reads(g, bytes, width, k)
  <2>1. n \in Nat /\ k \in Nat  OBVIOUS
  <2>2. Reads(g, bytes, width, k) = Reads(f, bytes, width, k)
    <3>1. k # 0 => k - 1 \in 0 .. n /\ k - 1 < n  BY <2>1
    <3>2. k # 0 => g[k - 1] = f[k - 1]  BY <1>4, <3>1
    <3> QED  BY <3>2 DEF Reads
  <2>3. CASE k < n
    <3>1. n > 0 /\ k \in 0 .. n - 1  BY <2>1, <2>3
    <3>2. f[k] = Reads(f, bytes, width, k)  BY <1>3, <3>1 DEF Reader
    <3> QED  BY <1>4, <2>2, <2>3, <3>2
  <2>4. CASE ~ (k < n)
    <3>1. k = n  BY <2>1, <2>4
    <3> QED  BY <1>4, <2>2, <2>4, <3>1
  <2> QED  BY <2>3, <2>4
<1>6. g = [k \in 0 .. n |-> Reads(g, bytes, width, k)]  BY <1>4, <1>5
<1>7. n \notin Bad  BY <1>6 DEF Reader
<1> QED  BY <1>2, <1>7

LEMMA DecodeIs ==
  ASSUME NEW bytes, NEW width, Len(bytes) \in Nat
  PROVE  \E v : Reader(v, bytes, width, Len(bytes)) /\ Decode(bytes, width) = v[Len(bytes)]
<1>1. PICK f : f = CHOOSE v : Reader(v, bytes, width, Len(bytes))  OBVIOUS
<1>2. Reader(f, bytes, width, Len(bytes))  BY <1>1, ReaderExists
<1>3. Decode(bytes, width) = (CHOOSE v : Reader(v, bytes, width, Len(bytes)))[Len(bytes)]
  BY ONLY DEF Decode, Reader, Reads
<1> QED  BY <1>1, <1>2, <1>3

\* All bytes but the last have the mark.
NumberShape(bytes) ==
  /\ bytes \in Seq(Nat) /\ Len(bytes) >= 1
  /\ bytes[Len(bytes)] < Base
  /\ \A i \in 1 .. Len(bytes) - 1 : bytes[i] >= Base
\* A number that is within the width is read as it is.
Says(bytes, n) ==
  /\ NumberShape(bytes)
  /\ \A width \in Nat : n < width =>
       \A v : Reader(v, bytes, width, Len(bytes)) => v[Len(bytes)] = n

LEMMA SmallMod ==
  ASSUME NEW n \in Nat, NEW width \in Nat, n < width
  PROVE  n % width = n
  OBVIOUS

LEMMA OneByte ==
  ASSUME NEW n \in Nat, n < Base
  PROVE  Says(<<n>>, n)
<1>1. Base \in Nat /\ Base >= 2  BY EncodingAssumption
<1>2. PICK b : b = <<n>>  OBVIOUS
<1>3. b \in Seq(Nat) /\ Len(b) = 1 /\ b[1] = n  BY <1>2
<1>4. NumberShape(b)  BY <1>1, <1>3 DEF NumberShape
<1>5. ASSUME NEW width \in Nat, n < width, NEW v, Reader(v, b, width, 1)
      PROVE  v[1] = n
  <2>1. v[0] = 0  BY <1>5 DEF Reader, Reads
  <2>2. v[1] = (v[0] * Base + (b[1 - 1 + 1] % Base)) % width
    <3>1. v[1] = Reads(v, b, width, 1)  BY <1>5 DEF Reader
    <3> QED  BY <1>3, <3>1 DEF Reads
  <2>3. n % Base = n  BY <1>1, SmallMod
  <2>4. v[1] = (0 * Base + n) % width  BY <1>3, <2>1, <2>2, <2>3
  <2>5. 0 * Base + n = n  BY <1>1
  <2> QED  BY <1>5, <2>4, <2>5, SmallMod
<1> QED  BY <1>2, <1>3, <1>4, <1>5 DEF Says

LEMMA MoreBytes ==
  ASSUME NEW n \in Nat, n >= Base, NEW q, q = n \div Base, NEW tail, Says(tail, q),
         NEW b, b = <<Base + (n % Base)>> \o tail
  PROVE  Says(b, n)
<1>1. Base \in Nat /\ Base >= 2  BY EncodingAssumption
<1>2. PICK r : r = n % Base  OBVIOUS
<1>3. q \in Nat /\ r \in 0 .. Base - 1 /\ n = q * Base + r /\ q <= n
  BY <1>2, DigitOf
<1>4. PICK l : l = Len(tail) /\ b = <<Base + r>> \o tail  BY <1>2
<1>5. tail \in Seq(Nat) /\ l \in Nat /\ l >= 1  BY <1>4 DEF Says, NumberShape
<1>6. /\ b \in Seq(Nat) /\ Len(b) = l + 1 /\ b[1] = Base + r
      /\ \A i \in 1 .. l : b[i + 1] = tail[i]
  <2>1. <<Base + r>> \in Seq(Nat) /\ Len(<<Base + r>>) = 1  BY <1>1, <1>3
  <2> QED  BY <1>4, <1>5, <2>1
<1>7. NumberShape(b)
  <2>1. b[Len(b)] < Base
    <3>1. b[l + 1] = tail[l]  BY <1>5, <1>6
    <3> QED  BY <1>4, <1>6, <3>1 DEF Says, NumberShape
  <2>2. ASSUME NEW i \in 1 .. l PROVE b[i] >= Base
    <3>1. CASE i = 1  BY <1>1, <1>3, <1>6, <3>1
    <3>2. CASE i # 1
      <4>1. i - 1 \in 1 .. l - 1 /\ i - 1 \in 1 .. l /\ (i - 1) + 1 = i  BY <1>5, <3>2
      <4>2. b[i] = tail[i - 1]  BY <1>6, <4>1
      <4> QED  BY <1>4, <4>1, <4>2 DEF Says, NumberShape
    <3> QED  BY <3>1, <3>2
  <2>3. Len(b) - 1 = l  BY <1>5, <1>6
  <2> QED  BY <1>5, <1>6, <2>1, <2>2, <2>3 DEF NumberShape
<1>8. ASSUME NEW width \in Nat, n < width, NEW v, Reader(v, b, width, l + 1)
      PROVE  v[l + 1] = n
  <2>1. PICK u : u = [k \in 0 .. l |-> v[k]]  OBVIOUS
  <2>2. ASSUME NEW k \in 0 .. l PROVE u[k] = Reads(u, tail, width, k)
    <3>1. u[k] = v[k] /\ (k # 0 => u[k - 1] = v[k - 1])  BY <1>5, <2>1
    <3>2. v[k] = Reads(v, b, width, k)
      <4>1. k \in 0 .. l + 1  BY <1>5
      <4> QED  BY ONLY <1>8, <4>1, ReaderAt
    <3>3. k # 0 => b[Len(b) - k + 1] = tail[Len(tail) - k + 1]
      <4>1. SUFFICES ASSUME k # 0 PROVE b[(l + 1) - k + 1] = tail[l - k + 1]  BY <1>4, <1>6
      <4>2. PICK j : j = l - k + 1  OBVIOUS
      <4>3. j \in 1 .. l /\ j + 1 = (l + 1) - k + 1  BY <1>5, <4>1, <4>2
      <4>4. b[j + 1] = tail[j]  BY <1>6, <4>3
      <4> QED  BY ONLY <4>2, <4>3, <4>4
    <3> QED  BY <3>1, <3>2, <3>3 DEF Reads
  <2>3. Reader(u, tail, width, Len(tail))  BY <1>4, <2>1, <2>2 DEF Reader
  <2>4. q < width  BY <1>3, <1>8
  <2>5. u[l] = q  BY <1>2, <1>4, <2>3, <2>4 DEF Says
  <2>6. v[l] = q  BY <1>5, <2>1, <2>5
  <2>7. v[l + 1] = (v[l] * Base + (b[1] % Base)) % width
    <3>1. v[l + 1] = Reads(v, b, width, l + 1)
      <4>1. l + 1 \in 0 .. l + 1  BY <1>5
      <4> QED  BY ONLY <1>8, <4>1, ReaderAt
    <3>2. l + 1 # 0 /\ (l + 1) - 1 = l /\ Len(b) - (l + 1) + 1 = 1  BY <1>5, <1>6
    <3> QED  BY <3>1, <3>2 DEF Reads
  <2>8. b[1] % Base = r  BY <1>3, <1>6, Masked
  <2>9. v[l + 1] = n % width  BY <1>3, <2>6, <2>7, <2>8
  <2> QED  BY <1>8, <2>9, SmallMod
<1>9. Len(b) = l + 1  BY <1>6
<1> QED  BY <1>7, <1>8, <1>9 DEF Says

LEMMA EncoderAt ==
  ASSUME NEW m, NEW enc, Encoder(enc, m), NEW k \in 0 .. m
  PROVE  enc[k] = Digits(enc, k)
<1>1. PICK f : f = [j \in 0 .. m |-> Digits(enc, j)]  OBVIOUS
<1>2. f[k] = Digits(enc, k)  BY ONLY <1>1, k \in 0 .. m
<1>3. enc = f  BY ONLY <1>1, Encoder(enc, m) DEF Encoder
<1> QED  BY ONLY <1>2, <1>3

LEMMA EncodeSays ==
  ASSUME NEW n \in Nat
  PROVE  Says(Encode(n), n)
<1>1. PICK enc : Encoder(enc, n) /\ Encode(n) = enc[n]  BY EncodeIs
<1> DEFINE Bad == {k \in 0 .. n : ~ Says(enc[k], k)}
<1>2. SUFFICES ASSUME Bad # {} PROVE FALSE  BY <1>1
<1>3. PICK k \in Bad : \A x \in Bad : k <= x
  <2>1. Bad \in SUBSET Nat  OBVIOUS
  <2> HIDE DEF Bad
  <2> QED  BY <1>2, <2>1, LeastOf
<1>4. k \in Nat /\ k \in 0 .. n /\ ~ Says(enc[k], k)  OBVIOUS
<1>5. enc[k] = Digits(enc, k)  BY <1>1, <1>4, EncoderAt
<1>6. CASE k < Base
  <2>1. enc[k] = <<k>>  BY <1>5, <1>6 DEF Digits
  <2> QED  BY <1>4, <1>6, <2>1, OneByte
<1>7. CASE ~ (k < Base)
  <2>1. PICK q : q = k \div Base  OBVIOUS
  <2>2. k >= Base  BY <1>4, <1>7, EncodingAssumption
  <2>3. q \in Nat /\ q < k  BY <1>4, <2>1, <2>2, DigitOf
  <2>4. q \in 0 .. n /\ q \notin Bad  BY <1>3, <1>4, <2>3
  <2>5. Says(enc[q], q)  BY <2>4
  <2>6. enc[k] = <<Base + (k % Base)>> \o enc[k \div Base]  BY <1>5, <1>7 DEF Digits
  <2>7. PICK b : b = enc[k]  OBVIOUS
  <2>8. b = <<Base + (k % Base)>> \o enc[q]  BY <2>1, <2>6, <2>7
  <2>9. Says(b, k)  BY ONLY <1>4, <2>1, <2>2, <2>5, <2>8, MoreBytes
  <2> QED  BY <1>4, <2>7, <2>9
<1> QED  BY <1>6, <1>7

\* What is written of a number is read as that number.
LEMMA DecodesTo ==
  ASSUME NEW width \in Nat, NEW n \in 0 .. width - 1
  PROVE  Decode(Encode(n), width) = n
<1>1. n \in Nat /\ n < width  OBVIOUS
<1>2. PICK bytes : bytes = Encode(n)  OBVIOUS
<1>3. Says(bytes, n)  BY <1>1, <1>2, EncodeSays
<1>4. Len(bytes) \in Nat  BY <1>3 DEF Says, NumberShape
<1>5. PICK v : Reader(v, bytes, width, Len(bytes)) /\ Decode(bytes, width) = v[Len(bytes)]
  BY <1>4, DecodeIs
<1> QED  BY <1>1, <1>2, <1>3, <1>5 DEF Says

----------------------------------------------------------------------------
(* The message *)

Kinds  == DOMAIN Widths \cup {"bool", "blob"}
Values == (UNION {Numbers[t] : t \in DOMAIN Widths}) \cup BOOLEAN \cup Blobs
FieldRecords  == [kind : Kinds, value : Values, at : Nat]
ResultRecords == [value : Values, end : Nat]

OfKind(kind, value) ==
  /\ kind \in DOMAIN Widths => value \in Numbers[kind]
  /\ kind = "bool" => value \in BOOLEAN
  /\ kind = "blob" => value \in Blobs
BytesOf(kind, value) ==
  IF kind = "blob" THEN value
  ELSE IF kind = "bool" THEN Encode(IF value THEN 1 ELSE 0) ELSE Encode(value)
FieldBytes(i) == BytesOf(fields[i].kind, fields[i].value)

IpcTypeOK ==
  /\ phase \in {"idle", "writing", "sent", "reading"}
  /\ m_buffer \in Seq(Nat) /\ m_msgSize \in Nat /\ m_pos \in Nat
  /\ fields \in Seq(FieldRecords) /\ results \in Seq(ResultRecords)

\* The bytes of each field are in the buffer, one field behind the other.
PlaceOK(i) ==
  /\ OfKind(fields[i].kind, fields[i].value)
  /\ fields[i].at + Len(FieldBytes(i)) <= Len(m_buffer)
  /\ fields[i].at + Len(FieldBytes(i)) = EndOf(i)
  /\ \A k \in 1 .. Len(FieldBytes(i)) : m_buffer[fields[i].at + k] = FieldBytes(i)[k]
StartOf(i) == IF i <= Len(fields) THEN fields[i].at ELSE Len(m_buffer)
Layout ==
  phase # "idle" => /\ Len(m_buffer) >= 1 /\ StartOf(1) = 1
                    /\ \A i \in 1 .. Len(fields) : PlaceOK(i)

\* The cursor of the sender is behind the last field, that of the receiver
\* behind the last one that it has read.
CursorOK ==
  /\ phase \in {"writing", "sent"} => m_pos = Len(m_buffer) /\ results = <<>>
  /\ phase = "reading" =>
       /\ m_msgSize = Len(m_buffer)
       /\ Len(results) <= Len(fields)
       /\ m_pos = StartOf(Len(results) + 1)
       /\ \A i \in 1 .. Len(results) : results[i] = [value |-> fields[i].value, end |-> EndOf(i)]

IpcIInv == IpcTypeOK /\ Layout /\ CursorOK

LEMMA BytesType ==
  ASSUME NEW kind \in Kinds, NEW value, OfKind(kind, value)
  PROVE  /\ BytesOf(kind, value) \in Seq(Nat) /\ Len(BytesOf(kind, value)) \in Nat
         /\ kind \in DOMAIN Widths => /\ value \in 0 .. Widths[kind] - 1 /\ Widths[kind] \in Nat
                                      /\ BytesOf(kind, value) = Encode(value)
         /\ kind = "bool" => BytesOf(kind, value) = Encode(IF value THEN 1 ELSE 0)
         /\ kind # "blob" => NumberShape(BytesOf(kind, value))
         /\ kind = "blob" => BytesOf(kind, value) = value
<1>0. \A n \in Nat : NumberShape(Encode(n))  BY EncodeSays DEF Says
<1>1. CASE kind = "blob"
  <2>1. BytesOf(kind, value) = value /\ value \in Seq(Nat)
    BY <1>1, EncodingAssumption DEF BytesOf, OfKind
  <2>2. kind \notin DOMAIN Widths  BY <1>1, EncodingAssumption
  <2>3. Len(value) \in Nat  BY <2>1
  <2> QED  BY <1>1, <2>1, <2>2, <2>3
<1>2. CASE kind = "bool"
  <2>1. BytesOf(kind, value) = Encode(IF value THEN 1 ELSE 0)  BY <1>2 DEF BytesOf
  <2>2. (IF value THEN 1 ELSE 0) \in Nat  OBVIOUS
  <2>3. NumberShape(BytesOf(kind, value))  BY <1>0, <2>1, <2>2
  <2>4. kind \notin DOMAIN Widths  BY <1>2, EncodingAssumption
  <2>5. BytesOf(kind, value) \in Seq(Nat) /\ Len(BytesOf(kind, value)) \in Nat
    BY <2>3 DEF NumberShape
  <2> QED  BY <1>2, <2>1, <2>3, <2>4, <2>5
<1>3. CASE kind \in DOMAIN Widths
  <2>1. kind # "blob" /\ kind # "bool"  BY <1>3, EncodingAssumption
  <2>2. BytesOf(kind, value) = Encode(value)  BY <2>1 DEF BytesOf
  <2>3. Widths[kind] \in Nat /\ value \in 0 .. Widths[kind] - 1
    BY <1>3, EncodingAssumption DEF OfKind
  <2>4. value \in Nat  BY <2>3
  <2>5. NumberShape(BytesOf(kind, value))  BY <1>0, <2>2, <2>4
  <2>6. BytesOf(kind, value) \in Seq(Nat) /\ Len(BytesOf(kind, value)) \in Nat
    BY <2>5 DEF NumberShape
  <2> QED  BY <2>1, <2>2, <2>3, <2>5, <2>6
<1> QED  BY <1>1, <1>2, <1>3 DEF Kinds

LEMMA IpcInitOK ==
  ASSUME IpcInit
  PROVE  IpcIInv
  BY DEF IpcInit, IpcIInv, IpcTypeOK, Layout, CursorOK

LEMMA NewStep ==
  ASSUME NEW type \in MsgTypes, newMsg(type)
  PROVE  IpcIInv'
<1>1. /\ phase' = "writing" /\ m_buffer' = <<type>> /\ m_msgSize' = MaxSize /\ m_pos' = 1
      /\ fields' = <<>> /\ results' = <<>>
  BY DEF newMsg
<1>2. type \in Nat /\ MaxSize \in Nat  BY EncodingAssumption
<1>3. IpcTypeOK'  BY <1>1, <1>2 DEF IpcTypeOK
<1>4. Len(m_buffer') = 1 /\ Len(fields') = 0  BY <1>1
<1>5. Layout'  BY <1>4 DEF Layout, StartOf
<1>6. CursorOK'  BY <1>1, <1>4 DEF CursorOK
<1> QED  BY <1>3, <1>5, <1>6 DEF IpcIInv

LEMMA RewindStep ==
  ASSUME IpcIInv, rewind
  PROVE  IpcIInv'
<1>1. /\ phase = "writing" /\ m_pos' = 1 /\ m_buffer' = <<m_buffer[1]>> /\ fields' = <<>>
      /\ UNCHANGED <<phase, m_msgSize, results>>
  BY DEF rewind
<1>2. m_buffer[1] \in Nat
  <2>1. m_buffer \in Seq(Nat) /\ Len(m_buffer) >= 1  BY <1>1 DEF IpcIInv, IpcTypeOK, Layout
  <2> QED  BY <2>1
<1>3. IpcTypeOK'  BY <1>1, <1>2 DEF IpcIInv, IpcTypeOK
<1>4. Len(m_buffer') = 1 /\ Len(fields') = 0  BY <1>1
<1>5. Layout'  BY <1>4 DEF Layout, StartOf
<1>6. CursorOK'  BY <1>1, <1>4 DEF IpcIInv, CursorOK
<1> QED  BY <1>3, <1>5, <1>6 DEF IpcIInv

\* A field behind the others leaves them where they are.
LEMMA PutStep ==
  ASSUME IpcIInv, NEW kind \in Kinds, NEW value, OfKind(kind, value),
         NEW b, b = BytesOf(kind, value), Put(kind, value, b)
  PROVE  IpcIInv'
<1>1. PICK rec : rec = [kind |-> kind, value |-> value, at |-> m_pos]  OBVIOUS
<1>2. /\ phase = "writing" /\ phase' = "writing"
      /\ m_buffer' = m_buffer \o b /\ m_pos' = m_pos + Len(b)
      /\ fields' = Append(fields, rec) /\ m_msgSize' = m_msgSize /\ results' = results
  BY <1>1 DEF Put
<1>3. PICK n : n = Len(fields)  OBVIOUS
<1>4. /\ m_buffer \in Seq(Nat) /\ fields \in Seq(FieldRecords) /\ results \in Seq(ResultRecords)
      /\ m_msgSize \in Nat /\ m_pos \in Nat /\ n \in Nat
  BY <1>3 DEF IpcIInv, IpcTypeOK
<1>5. /\ m_pos = Len(m_buffer) /\ results = <<>> /\ m_pos >= 1
      /\ StartOf(1) = 1 /\ \A i \in 1 .. n : PlaceOK(i)
  BY <1>2, <1>3 DEF IpcIInv, Layout, CursorOK
<1>6. b \in Seq(Nat) /\ Len(b) \in Nat  BY BytesType
<1>7. /\ m_buffer' \in Seq(Nat) /\ Len(m_buffer') = m_pos + Len(b)
      /\ \A k \in 1 .. m_pos : m_buffer'[k] = m_buffer[k]
      /\ \A k \in 1 .. Len(b) : m_buffer'[m_pos + k] = b[k]
  <2>1. PICK c : c = m_buffer \o b  OBVIOUS
  <2>2. c \in Seq(Nat) /\ Len(c) = Len(m_buffer) + Len(b)  BY <1>4, <1>6, <2>1, ConcatProperties
  <2>3. \A k \in 1 .. Len(c) : c[k] = IF k <= Len(m_buffer) THEN m_buffer[k] ELSE b[k - Len(m_buffer)]
    BY <1>4, <1>6, <2>1, ConcatProperties
  <2>4. PICK l : l = Len(b)  OBVIOUS
  <2>5. m_pos \in Nat /\ l \in Nat /\ l = Len(b) /\ Len(m_buffer) = m_pos /\ Len(c) = m_pos + l
    BY <1>4, <1>5, <1>6, <2>2, <2>4
  <2>6. ASSUME NEW k \in 1 .. m_pos PROVE c[k] = m_buffer[k]
    <3>1. k \in 1 .. Len(c) /\ k <= Len(m_buffer)  BY ONLY <2>5, k \in 1 .. m_pos
    <3> QED  BY <2>3, <3>1
  <2>7. ASSUME NEW k \in 1 .. Len(b) PROVE c[m_pos + k] = b[k]
    <3>1. m_pos + k \in 1 .. Len(c) /\ ~ (m_pos + k <= Len(m_buffer)) /\ (m_pos + k) - m_pos = k
      BY ONLY <2>5, k \in 1 .. Len(b)
    <3>2. c[m_pos + k] = b[(m_pos + k) - Len(m_buffer)]  BY <2>3, <3>1
    <3> QED  BY <1>5, <3>1, <3>2
  <2> QED  BY <1>2, <1>5, <2>1, <2>2, <2>6, <2>7
<1>8. rec \in FieldRecords
  <2>1. value \in Values
    <3>1. CASE kind \in DOMAIN Widths  BY <3>1 DEF OfKind, Values
    <3>2. CASE kind = "bool"
      <4>1. value \in BOOLEAN  BY <3>2 DEF OfKind
      <4> QED  BY <4>1 DEF Values
    <3>3. CASE kind = "blob"
      <4>1. value \in Blobs  BY <3>3 DEF OfKind
      <4> QED  BY <4>1 DEF Values
    <3> QED  BY <3>1, <3>2, <3>3 DEF Kinds
  <2> QED  BY <1>1, <1>4, <2>1 DEF FieldRecords
<1>9. /\ fields' \in Seq(FieldRecords) /\ Len(fields') = n + 1
      /\ \A i \in 1 .. n : fields'[i] = fields[i]
      /\ fields'[n + 1] = rec
  BY <1>2, <1>3, <1>4, <1>8
<1>10. IpcTypeOK'  BY <1>2, <1>4, <1>6, <1>7, <1>9 DEF IpcTypeOK
<1>11. rec.kind = kind /\ rec.value = value /\ rec.at = m_pos  BY <1>1
<1>12. ASSUME NEW i \in 1 .. n PROVE EndOf(i)' = EndOf(i)
  <2>1. CASE i < n
    <3>1. i + 1 \in 1 .. n /\ i < n + 1  BY <1>4, <2>1
    <3> QED  BY <1>3, <1>9, <2>1, <3>1 DEF EndOf
  <2>2. CASE i = n
    <3>1. i < n + 1 /\ ~ (i < n)  BY <1>4, <2>2
    <3> QED  BY <1>3, <1>5, <1>9, <1>11, <2>2, <3>1 DEF EndOf
  <2> QED  BY <1>4, <2>1, <2>2
<1>13. EndOf(n + 1)' = Len(m_buffer')
  <2>1. ~ (n + 1 < n + 1)  BY <1>4
  <2> QED  BY <1>9, <2>1 DEF EndOf
<1>14. ASSUME NEW i \in 1 .. n PROVE PlaceOK(i)'
  <2>1. PICK f : f = fields[i]  OBVIOUS
  <2>2. fields'[i] = f /\ f.at \in Nat /\ f.kind \in Kinds
    <3>1. f \in FieldRecords  BY <1>3, <1>4, <2>1
    <3> QED  BY <1>9, <2>1, <3>1 DEF FieldRecords
  <2>3. FieldBytes(i)' = FieldBytes(i)  BY <2>1, <2>2 DEF FieldBytes
  <2>4. PICK c : c = FieldBytes(i)  OBVIOUS
  <2>5. /\ OfKind(f.kind, f.value) /\ f.at + Len(c) <= m_pos /\ f.at + Len(c) = EndOf(i)
        /\ \A k \in 1 .. Len(c) : m_buffer[f.at + k] = c[k]
    BY <1>5, <2>1, <2>4 DEF PlaceOK
  <2>6. Len(c) \in Nat  BY <2>1, <2>2, <2>4, <2>5, BytesType DEF FieldBytes
  <2>7. ASSUME NEW k \in 1 .. Len(c) PROVE m_buffer'[f.at + k] = c[k]
    <3>1. f.at + k \in 1 .. m_pos  BY <1>4, <2>2, <2>5, <2>6
    <3> QED  BY <1>7, <2>5, <3>1
  <2>8. f.at + Len(c) <= Len(m_buffer')  BY <1>4, <1>6, <1>7, <2>2, <2>5, <2>6
  <2>9. EndOf(i)' = EndOf(i)  BY <1>12
  <2> QED  BY <2>2, <2>3, <2>4, <2>5, <2>7, <2>8, <2>9 DEF PlaceOK, OfKind
<1>15. PlaceOK(n + 1)'
  <2>1. FieldBytes(n + 1)' = b  BY <1>9, <1>11 DEF FieldBytes, BytesOf
  <2>2. OfKind(fields'[n + 1].kind, fields'[n + 1].value)  BY <1>9, <1>11
  <2>3. /\ fields'[n + 1].at + Len(b) <= Len(m_buffer')
        /\ fields'[n + 1].at + Len(b) = Len(m_buffer')
        /\ \A k \in 1 .. Len(b) : m_buffer'[fields'[n + 1].at + k] = b[k]
    BY <1>4, <1>6, <1>7, <1>9, <1>11
  <2> QED  BY <1>13, <2>1, <2>2, <2>3 DEF PlaceOK, OfKind
<1>16. Layout'
  <2>1. Len(m_buffer') >= 1  BY <1>4, <1>5, <1>6, <1>7
  <2>2. StartOf(1)' = 1
    <3>1. 1 <= n + 1  BY <1>4
    <3>2. CASE n = 0
      <4>1. StartOf(1) = m_pos  BY <1>3, <1>5, <3>2 DEF StartOf
      <4>2. fields'[1] = rec  BY <1>9, <3>2
      <4> QED  BY <1>5, <1>9, <1>11, <3>1, <4>1, <4>2 DEF StartOf
    <3>3. CASE n # 0
      <4>1. 1 \in 1 .. n /\ 1 <= n  BY <1>4, <3>3
      <4>2. fields'[1] = fields[1] /\ StartOf(1) = fields[1].at
        BY <1>3, <1>9, <4>1 DEF StartOf
      <4> QED  BY <1>5, <1>9, <3>1, <4>2 DEF StartOf
    <3> QED  BY <3>2, <3>3
  <2>3. \A i \in 1 .. n + 1 : PlaceOK(i)'
    <3>1. \A i \in 1 .. n + 1 : i \in 1 .. n \/ i = n + 1  BY <1>4
    <3> QED  BY <1>14, <1>15, <3>1
  <2> QED  BY <1>9, <2>1, <2>2, <2>3 DEF Layout
<1>17. CursorOK'  BY <1>2, <1>5, <1>7 DEF CursorOK
<1> QED  BY <1>10, <1>16, <1>17 DEF IpcIInv

LEMMA WriteSteps ==
  ASSUME IpcIInv,
         \/ \E t \in DOMAIN Widths : \E n \in Numbers[t] : writeNumber(t, n)
         \/ \E b \in BOOLEAN : writeBool(b)
         \/ \E blob \in Blobs : writeBlob(blob)
  PROVE  IpcIInv'
<1>1. ASSUME NEW t \in DOMAIN Widths, NEW n \in Numbers[t], writeNumber(t, n)
      PROVE  IpcIInv'
  <2>1. t # "bool" /\ t # "blob"  BY EncodingAssumption
  <2>2. t \in Kinds /\ OfKind(t, n) /\ BytesOf(t, n) = Encode(n)
    BY <2>1 DEF Kinds, OfKind, BytesOf
  <2> QED  BY <1>1, <2>2, PutStep DEF writeNumber
<1>2. ASSUME NEW b \in BOOLEAN, writeBool(b)
      PROVE  IpcIInv'
  <2>1. "bool" \notin DOMAIN Widths  BY EncodingAssumption
  <2>2. "bool" \in Kinds /\ OfKind("bool", b)  BY <2>1 DEF Kinds, OfKind
  <2>3. BytesOf("bool", b) = Encode(IF b THEN 1 ELSE 0)  BY DEF BytesOf
  <2> QED  BY <1>2, <2>2, <2>3, PutStep DEF writeBool
<1>3. ASSUME NEW blob \in Blobs, writeBlob(blob)
      PROVE  IpcIInv'
  <2>1. "blob" \notin DOMAIN Widths  BY EncodingAssumption
  <2>2. "blob" \in Kinds /\ OfKind("blob", blob)  BY <2>1 DEF Kinds, OfKind
  <2>3. BytesOf("blob", blob) = blob  BY DEF BytesOf
  <2> QED  BY <1>3, <2>2, <2>3, PutStep DEF writeBlob
<1> QED  BY <1>1, <1>2, <1>3

LEMMA SendStep ==
  ASSUME IpcIInv, send
  PROVE  IpcIInv'
<1>1. /\ phase = "writing" /\ phase' = "sent" /\ m_buffer' = SubSeq(m_buffer, 1, m_pos)
      /\ UNCHANGED <<m_msgSize, m_pos, fields, results>>
  BY DEF send
<1>2. m_buffer \in Seq(Nat) /\ m_pos = Len(m_buffer)
  BY <1>1 DEF IpcIInv, IpcTypeOK, CursorOK
<1>3. m_buffer' = m_buffer  BY <1>1, <1>2, SubSeqFull
<1>4. IpcTypeOK'  BY <1>1, <1>3 DEF IpcIInv, IpcTypeOK
<1>5. Layout'
  <2>1. phase # "idle" /\ UNCHANGED <<m_buffer, fields>>  BY <1>1, <1>3
  <2> QED
    BY <2>1 DEF IpcIInv, Layout, StartOf, PlaceOK, OfKind, FieldBytes, BytesOf, EndOf
<1>6. CursorOK'  BY <1>1, <1>3 DEF IpcIInv, CursorOK
<1> QED  BY <1>4, <1>5, <1>6 DEF IpcIInv

LEMMA RecvStep ==
  ASSUME IpcIInv, recvMsg
  PROVE  IpcIInv'
<1>1. /\ phase = "sent" /\ phase' = "reading" /\ m_msgSize' = Len(m_buffer) /\ m_pos' = 1
      /\ UNCHANGED <<m_buffer, fields, results>>
  BY DEF recvMsg
<1>2. m_buffer \in Seq(Nat) /\ results = <<>> /\ StartOf(1) = 1 /\ fields \in Seq(FieldRecords)
  BY <1>1 DEF IpcIInv, IpcTypeOK, CursorOK, Layout
<1>3. Len(m_buffer) \in Nat /\ Len(results) = 0 /\ Len(fields) \in Nat  BY <1>2
<1>4. IpcTypeOK'  BY <1>1, <1>3 DEF IpcIInv, IpcTypeOK
<1>5. Layout'
  BY <1>1 DEF IpcIInv, Layout, StartOf, PlaceOK, OfKind, FieldBytes, BytesOf, EndOf
<1>6. CursorOK'
  <2>1. StartOf(1)' = 1  BY <1>1, <1>2 DEF StartOf
  <2>2. Len(results') = 0 /\ Len(results') + 1 = 1 /\ Len(results') <= Len(fields')
    BY <1>1, <1>3
  <2>3. m_pos' = StartOf(Len(results) + 1)'  BY <1>1, <1>3, <2>1
  <2>4. \A i \in 1 .. Len(results') : FALSE  BY <2>2
  <2> QED  BY <1>1, <2>2, <2>3, <2>4 DEF CursorOK
<1> QED  BY <1>4, <1>5, <1>6 DEF IpcIInv

LEMMA DoneStep ==
  ASSUME IpcIInv, done
  PROVE  IpcIInv'
<1>1. phase' = "idle" /\ UNCHANGED <<m_buffer, m_msgSize, m_pos, fields, results>>
  BY DEF done
<1>2. IpcTypeOK'  BY <1>1 DEF IpcIInv, IpcTypeOK
<1> QED  BY <1>1, <1>2 DEF IpcIInv, Layout, CursorOK

\* The bytes of the field that is read next are at the cursor.
LEMMA NextField ==
  ASSUME IpcIInv, phase = "reading", Len(results) < Len(fields)
  PROVE  \E i \in 1 .. Len(fields), f \in FieldRecords :
           /\ i = Len(results) + 1 /\ f = fields[i]
           /\ OfKind(f.kind, f.value) /\ f.at = m_pos
           /\ \A b : b = BytesOf(f.kind, f.value) =>
                /\ b \in Seq(Nat) /\ Len(b) \in Nat
                /\ SubSeq(m_buffer, m_pos + 1, m_pos + Len(b)) = b
                /\ \A k \in 1 .. Len(b) : m_buffer[m_pos + k] = b[k]
                /\ m_pos + Len(b) <= Len(m_buffer) /\ m_pos + Len(b) = EndOf(i)
<1>1. PICK i : i = Len(results) + 1  OBVIOUS
<1>2. /\ i \in 1 .. Len(fields) /\ fields \in Seq(FieldRecords) /\ m_buffer \in Seq(Nat)
      /\ m_pos \in Nat /\ Len(m_buffer) \in Nat
  BY <1>1 DEF IpcIInv, IpcTypeOK
<1>3. PICK f \in FieldRecords : f = fields[i]  BY <1>2
<1>4. f.kind \in Kinds  BY DEF FieldRecords
<1>5. PlaceOK(i) /\ m_pos = StartOf(i)  BY <1>1, <1>2 DEF IpcIInv, Layout, CursorOK
<1>6. f.at = m_pos
  <2>1. i <= Len(fields)  BY <1>2
  <2> QED  BY <1>3, <1>5, <2>1 DEF StartOf
<1>7. PICK b : b = BytesOf(f.kind, f.value)  OBVIOUS
<1>8. /\ OfKind(f.kind, f.value) /\ m_pos + Len(b) <= Len(m_buffer) /\ m_pos + Len(b) = EndOf(i)
      /\ \A k \in 1 .. Len(b) : m_buffer[m_pos + k] = b[k]
  BY <1>3, <1>5, <1>6, <1>7 DEF PlaceOK, FieldBytes
<1>9. b \in Seq(Nat) /\ Len(b) \in Nat  BY <1>4, <1>7, <1>8, BytesType
<1>10. SubSeq(m_buffer, m_pos + 1, m_pos + Len(b)) = b
  <2>1. PICK lo, hi, c : lo = m_pos + 1 /\ hi = m_pos + Len(b) /\ c = SubSeq(m_buffer, lo, hi)
    OBVIOUS
  <2>2. lo \in Int /\ hi \in Int /\ hi - lo + 1 = Len(b) /\ (~ (lo <= hi) => Len(b) = 0)
    BY <1>2, <1>9, <2>1
  <2>3. \A k \in lo .. hi : m_buffer[k] \in Nat
    <3>1. PICK x, y, z : x = m_pos /\ y = Len(b) /\ z = Len(m_buffer)  OBVIOUS
    <3>2. x \in Nat /\ y \in Nat /\ z \in Nat /\ x + y <= z /\ lo = x + 1 /\ hi = x + y
      BY <1>2, <1>8, <1>9, <2>1, <3>1
    <3>3. \A k \in lo .. hi : k \in 1 .. z  BY ONLY <3>2
    <3>4. \A k \in lo .. hi : k \in 1 .. Len(m_buffer)  BY ONLY <3>1, <3>3
    <3> QED  BY <1>2, <3>4
  <2>4. c \in Seq(Nat) /\ Len(c) = (IF lo <= hi THEN hi - lo + 1 ELSE 0)
        /\ \A k \in 1 .. hi - lo + 1 : c[k] = m_buffer[lo + k - 1]
    <3>1. /\ SubSeq(m_buffer, lo, hi) \in Seq(Nat)
          /\ Len(SubSeq(m_buffer, lo, hi)) = IF lo <= hi THEN hi - lo + 1 ELSE 0
          /\ \A k \in 1 .. hi - lo + 1 : SubSeq(m_buffer, lo, hi)[k] = m_buffer[lo + k - 1]
      BY ONLY <2>2, <2>3, SubSeqProperties
    <3> QED  BY ONLY <2>1, <3>1
  <2>5. Len(c) = Len(b)  BY <2>2, <2>4
  <2>6. ASSUME NEW k \in 1 .. Len(b) PROVE c[k] = b[k]
    <3>1. lo + k - 1 = m_pos + k /\ k \in 1 .. hi - lo + 1  BY <1>2, <1>9, <2>1, <2>2
    <3> QED  BY <1>8, <2>4, <3>1
  <2>7. c = b  BY <1>9, <2>4, <2>5, <2>6, SeqEqual
  <2> QED  BY <2>1, <2>7
<1>11. ASSUME NEW d, d = BytesOf(f.kind, f.value) PROVE d = b  BY <1>7, <1>11
<1> QED  BY <1>1, <1>2, <1>3, <1>6, <1>8, <1>9, <1>10, <1>11

\* The mark tells where a number ends.
LEMMA NumberIs ==
  ASSUME IpcTypeOK, NEW b, NumberShape(b), m_pos + Len(b) <= Len(m_buffer),
         \A k \in 1 .. Len(b) : m_buffer[m_pos + k] = b[k]
  PROVE  NumberEnd(m_pos) + 1 = m_pos + Len(b)
<1>1. /\ m_pos \in Nat /\ Len(m_buffer) \in Nat /\ Base \in Nat
      /\ b \in Seq(Nat) /\ Len(b) \in Nat /\ Len(b) >= 1
  BY EncodingAssumption DEF IpcTypeOK, NumberShape
<1> DEFINE EndsAt(e) == /\ m_buffer[e + 1] < Base
                        /\ \A i \in m_pos .. e - 1 : m_buffer[i + 1] >= Base
<1>2. PICK z : z = m_pos + Len(b) - 1  OBVIOUS
<1>3. z \in m_pos .. Len(m_buffer) - 1 /\ z + 1 = m_pos + Len(b)  BY <1>1, <1>2
<1>4. ASSUME NEW i \in m_pos .. z PROVE m_buffer[i + 1] \in Nat /\ (m_buffer[i + 1] < Base <=> i = z)
  <2>1. PICK k : k = i + 1 - m_pos  OBVIOUS
  <2>2. k \in 1 .. Len(b) /\ m_pos + k = i + 1 /\ (k = Len(b) <=> i = z)  BY <1>1, <1>2, <2>1
  <2>3. m_buffer[i + 1] = b[k] /\ b[k] \in Nat  BY <1>1, <2>2
  <2>4. b[k] < Base <=> k = Len(b)
    <3>1. k = Len(b) => b[k] < Base  BY DEF NumberShape
    <3>2. k # Len(b) => b[k] >= Base
      <4>1. k # Len(b) => k \in 1 .. Len(b) - 1  BY <1>1, <2>2
      <4> QED  BY <4>1 DEF NumberShape
    <3> QED  BY <1>1, <2>3, <3>1, <3>2
  <2> QED  BY <2>2, <2>3, <2>4
<1>5. EndsAt(z)
  <2>1. z \in m_pos .. z  BY <1>3
  <2>2. \A i \in m_pos .. z - 1 : i \in m_pos .. z /\ i # z  BY <1>1, <1>3
  <2>3. m_buffer[z + 1] < Base  BY <1>4, <2>1
  <2>4. \A i \in m_pos .. z - 1 : m_buffer[i + 1] >= Base
    <3>1. \A i \in m_pos .. z - 1 : m_buffer[i + 1] \in Nat /\ ~ (m_buffer[i + 1] < Base)
      BY <1>4, <2>2
    <3> QED  BY ONLY <1>1, <3>1
  <2> QED  BY ONLY <2>3, <2>4
<1>6. ASSUME NEW e \in m_pos .. Len(m_buffer) - 1, EndsAt(e) PROVE e = z
  <2>1. CASE e < z
    <3>1. e \in m_pos .. z /\ e # z  BY <1>1, <1>3, <2>1
    <3> QED  BY <1>4, <1>6, <3>1
  <2>2. CASE e > z
    <3>1. z \in m_pos .. e - 1 /\ z \in m_pos .. z  BY <1>1, <1>3, <2>2
    <3>2. m_buffer[z + 1] >= Base /\ m_buffer[z + 1] < Base /\ m_buffer[z + 1] \in Nat
      BY <1>4, <1>6, <3>1
    <3> QED  BY <1>1, <3>2
  <2> QED  BY <1>1, <1>3, <2>1, <2>2
<1>7. NumberEnd(m_pos) = CHOOSE e \in m_pos .. Len(m_buffer) - 1 : EndsAt(e)  BY DEF NumberEnd
<1>8. NumberEnd(m_pos) = z
  <2> HIDE DEF EndsAt
  <2> QED  BY <1>3, <1>5, <1>6, <1>7
<1> QED  BY <1>3, <1>8

\* What is read is the next field, and the cursor is behind it.
LEMMA ReadStep ==
  ASSUME IpcIInv, phase = "reading", Len(results) < Len(fields),
         NEW i, i = Len(results) + 1, Got(fields[i].value, EndOf(i))
  PROVE  IpcIInv'
<1>1. PICK res : res = [value |-> fields[i].value, end |-> EndOf(i)]  OBVIOUS
<1>2. /\ m_pos' = EndOf(i) /\ results' = Append(results, res)
      /\ UNCHANGED <<phase, m_buffer, m_msgSize, fields>>
  BY <1>1 DEF Got
<1>3. /\ fields \in Seq(FieldRecords) /\ results \in Seq(ResultRecords) /\ m_pos \in Nat
      /\ Len(fields) \in Nat /\ Len(results) \in Nat
      /\ \A k \in 1 .. Len(results) : results[k] = [value |-> fields[k].value, end |-> EndOf(k)]
      /\ m_msgSize = Len(m_buffer)
  BY DEF IpcIInv, IpcTypeOK, CursorOK
<1>4. i \in 1 .. Len(fields) /\ i \in Nat  BY <1>3
<1>5. EndOf(i) \in Nat
  <2>1. \E f \in FieldRecords : \A b : b = BytesOf(f.kind, f.value) =>
          Len(b) \in Nat /\ m_pos + Len(b) = EndOf(i)
    BY NextField
  <2> QED  BY <1>3, <2>1
<1>6. res \in ResultRecords
  <2>1. fields[i] \in FieldRecords  BY <1>3, <1>4
  <2>2. fields[i].value \in Values  BY <2>1 DEF FieldRecords
  <2> QED  BY <1>1, <1>5, <2>2 DEF ResultRecords
<1>7. /\ results' \in Seq(ResultRecords) /\ Len(results') = i
      /\ \A k \in 1 .. Len(results) : results'[k] = results[k]
      /\ results'[i] = res
  BY <1>2, <1>3, <1>6
<1>8. IpcTypeOK'  BY <1>2, <1>5, <1>7 DEF IpcIInv, IpcTypeOK
<1>9. Layout'
  <2>1. UNCHANGED <<phase, m_buffer, fields>>  BY <1>2
  <2> QED
    BY <2>1 DEF IpcIInv, Layout, StartOf, PlaceOK, OfKind, FieldBytes, BytesOf, EndOf
<1>10. EndOf(i) = StartOf(i + 1)
  <2>1. i < Len(fields) <=> i + 1 <= Len(fields)  BY <1>3, <1>4
  <2> QED  BY <2>1 DEF EndOf, StartOf
<1>11. CursorOK'
  <2>1. \A k : EndOf(k)' = EndOf(k) /\ StartOf(k)' = StartOf(k)  BY <1>2 DEF EndOf, StartOf
  <2>2. m_pos' = StartOf(Len(results) + 1)'
    <3>1. StartOf(Len(results) + 1)' = StartOf(i + 1)  BY <1>2, <1>7 DEF StartOf
    <3> QED  BY <1>2, <1>10, <3>1
  <2>3. ASSUME NEW k \in 1 .. i
        PROVE  results'[k] = [value |-> fields[k].value, end |-> EndOf(k)]
    <3>1. k \in 1 .. Len(results) \/ k = i  BY <1>3, <1>4
    <3> QED  BY <1>1, <1>3, <1>7, <3>1
  <2>4. i <= Len(fields)  BY <1>4
  <2>5. \A k \in 1 .. Len(results') :
          results'[k] = [value |-> fields'[k].value, end |-> EndOf(k)']
    BY <1>2, <1>7, <2>1, <2>3
  <2> QED  BY <1>2, <1>3, <1>7, <2>2, <2>4, <2>5 DEF CursorOK
<1> QED  BY <1>8, <1>9, <1>11 DEF IpcIInv

LEMMA ReadSteps ==
  ASSUME IpcIInv, readNumber \/ readBool \/ readBlob
  PROVE  IpcIInv'
<1>1. phase = "reading" /\ Len(results) < Len(fields)
  BY DEF readNumber, readBool, readBlob, Expects
<1>2. PICK i \in 1 .. Len(fields), f \in FieldRecords :
        /\ i = Len(results) + 1 /\ f = fields[i]
        /\ OfKind(f.kind, f.value) /\ f.at = m_pos
        /\ \A b : b = BytesOf(f.kind, f.value) =>
             /\ b \in Seq(Nat) /\ Len(b) \in Nat
             /\ SubSeq(m_buffer, m_pos + 1, m_pos + Len(b)) = b
             /\ \A k \in 1 .. Len(b) : m_buffer[m_pos + k] = b[k]
             /\ m_pos + Len(b) <= Len(m_buffer) /\ m_pos + Len(b) = EndOf(i)
  BY <1>1, NextField
<1>3. PICK b : b = BytesOf(f.kind, f.value)  OBVIOUS
<1>4. /\ b \in Seq(Nat) /\ Len(b) \in Nat
      /\ SubSeq(m_buffer, m_pos + 1, m_pos + Len(b)) = b
      /\ \A k \in 1 .. Len(b) : m_buffer[m_pos + k] = b[k]
      /\ m_pos + Len(b) <= Len(m_buffer) /\ m_pos + Len(b) = EndOf(i)
  BY <1>2, <1>3
<1>5. f.kind \in Kinds  BY DEF FieldRecords
<1>6. f.kind # "blob" =>
        /\ NumberEnd(m_pos) + 1 = EndOf(i)
        /\ \A width : NumberAt(width) = Decode(b, width)
  <2>1. SUFFICES ASSUME f.kind # "blob"
                 PROVE  /\ NumberEnd(m_pos) + 1 = EndOf(i)
                        /\ \A width : NumberAt(width) = Decode(b, width)
    OBVIOUS
  <2>2. NumberShape(b)  BY <1>2, <1>3, <1>5, <2>1, BytesType
  <2>3. NumberEnd(m_pos) + 1 = m_pos + Len(b)
    BY <1>4, <2>2, NumberIs DEF IpcIInv
  <2> QED  BY <1>4, <2>3 DEF NumberAt
<1>7. CASE readNumber
  <2>1. f.kind \in DOMAIN Widths /\ Got(NumberAt(Widths[f.kind]), NumberEnd(m_pos) + 1)
    BY <1>2, <1>7 DEF readNumber, Expects
  <2>2. /\ f.value \in 0 .. Widths[f.kind] - 1 /\ Widths[f.kind] \in Nat
        /\ b = Encode(f.value) /\ f.kind # "blob"
    BY <1>2, <1>3, <1>5, <2>1, BytesType, EncodingAssumption
  <2>3. NumberAt(Widths[f.kind]) = f.value  BY <1>6, <2>2, DecodesTo
  <2> QED  BY <1>1, <1>2, <1>6, <2>1, <2>2, <2>3, ReadStep
<1>8. CASE readBool
  <2>1. f.kind = "bool" /\ Got(NumberAt(2 * Base) # 0, NumberEnd(m_pos) + 1)
    BY <1>2, <1>8 DEF readBool, Expects
  <2>2. f.kind # "blob"  BY <2>1
  <2>3. b = Encode(IF f.value THEN 1 ELSE 0) /\ f.value \in BOOLEAN
    BY <1>2, <1>3, <1>5, <2>1, BytesType DEF OfKind
  <2>4. 2 * Base \in Nat /\ 0 \in 0 .. 2 * Base - 1 /\ 1 \in 0 .. 2 * Base - 1
    BY EncodingAssumption
  <2>5. NumberAt(2 * Base) = IF f.value THEN 1 ELSE 0
    BY <1>6, <2>2, <2>3, <2>4, DecodesTo
  <2>6. (NumberAt(2 * Base) # 0) = f.value
    <3>1. CASE f.value = TRUE
      <4>1. NumberAt(2 * Base) = 1  BY <2>5, <3>1
      <4>2. NumberAt(2 * Base) # 0  BY <4>1
      <4> QED  BY <3>1, <4>2
    <3>2. CASE f.value = FALSE
      <4>1. NumberAt(2 * Base) = 0  BY <2>5, <3>2
      <4> QED  BY <3>2, <4>1
    <3> QED  BY <2>3, <3>1, <3>2
  <2> QED  BY <1>1, <1>2, <1>6, <2>1, <2>2, <2>6, ReadStep
<1>9. CASE readBlob
  <2>1. /\ f.kind = "blob"
        /\ Got(SubSeq(m_buffer, m_pos + 1, m_pos + Len(f.value)), m_pos + Len(f.value))
    BY <1>2, <1>9 DEF readBlob, Expects
  <2>2. b = f.value  BY <1>3, <2>1 DEF BytesOf
  <2> QED  BY <1>1, <1>2, <1>4, <2>1, <2>2, ReadStep
<1> QED  BY <1>7, <1>8, <1>9

LEMMA NoBytesLeft ==
  ASSUME IpcIInv, phase = "reading"
  PROVE  (bytesLeft = 0) <=> (\A i \in DOMAIN fields :
                                i > Len(results) => IsEmptyBlob(fields[i]))
<1>1. PICK r, n, m : r = Len(results) /\ n = Len(fields) /\ m = Len(m_buffer)  OBVIOUS
<1>2. /\ r \in Nat /\ n \in Nat /\ m \in Nat /\ r <= n /\ DOMAIN fields = 1 .. n
      /\ m_pos = StartOf(r + 1) /\ m_msgSize = m /\ m_pos \in Nat
  BY <1>1 DEF IpcIInv, IpcTypeOK, CursorOK
<1> DEFINE Size(i) == Len(FieldBytes(i))
<1>3. ASSUME NEW i \in 1 .. n
      PROVE  /\ Size(i) \in Nat /\ StartOf(i) \in Nat
             /\ StartOf(i) + Size(i) = StartOf(i + 1)
             /\ (Size(i) = 0 <=> IsEmptyBlob(fields[i]))
  <2>1. PICK f : f = fields[i]  OBVIOUS
  <2>2. f \in FieldRecords  BY <1>1, <2>1 DEF IpcIInv, IpcTypeOK
  <2>3. f.kind \in Kinds /\ f.at \in Nat  BY <2>2 DEF FieldRecords
  <2>4. OfKind(f.kind, f.value) /\ f.at + Size(i) = EndOf(i)
    BY <1>1, <2>1 DEF IpcIInv, Layout, PlaceOK
  <2>5. PICK b : b = BytesOf(f.kind, f.value)  OBVIOUS
  <2>6. Size(i) = Len(b)  BY <2>1, <2>5 DEF FieldBytes
  <2>7. Len(b) \in Nat  BY <2>3, <2>4, <2>5, BytesType
  <2>8. StartOf(i) = f.at  BY <1>1, <2>1 DEF StartOf
  <2>9. EndOf(i) = StartOf(i + 1)
    <3>1. i < n <=> i + 1 <= n  BY <1>2
    <3> QED  BY <1>1, <3>1 DEF EndOf, StartOf
  <2>10. Len(b) = 0 <=> IsEmptyBlob(f)
    <3>1. CASE f.kind = "blob"
      <4>1. b = f.value  BY <2>5, <3>1 DEF BytesOf
      <4> QED  BY <3>1, <4>1 DEF IsEmptyBlob
    <3>2. CASE f.kind # "blob"
      <4>1. Len(b) >= 1  BY <2>3, <2>4, <2>5, <3>2, BytesType DEF NumberShape
      <4> QED  BY <2>7, <3>2, <4>1 DEF IsEmptyBlob
    <3> QED  BY <3>1, <3>2
  <2> QED  BY <2>1, <2>3, <2>4, <2>6, <2>7, <2>8, <2>9, <2>10
<1> HIDE DEF Size
<1>4. StartOf(n + 1) = m
  <2>1. ~ (n + 1 <= n)  BY <1>2
  <2> QED  BY <1>1, <2>1 DEF StartOf
<1>5. bytesLeft = 0 <=> m_pos = m  BY <1>2 DEF bytesLeft
<1>6. ASSUME NEW i \in (r + 1) .. (n + 1) PROVE StartOf(i) \in Nat /\ StartOf(i) <= m
  <2> DEFINE Bad == {d \in Nat : /\ n + 1 - d \in (r + 1) .. (n + 1)
                                 /\ ~ (StartOf(n + 1 - d) \in Nat /\ StartOf(n + 1 - d) <= m)}
  <2>1. SUFFICES ASSUME Bad # {} PROVE FALSE
    <3>1. n + 1 - i \in Nat /\ n + 1 - (n + 1 - i) = i  BY <1>2
    <3>2. ~ (StartOf(i) \in Nat /\ StartOf(i) <= m) => n + 1 - i \in Bad  BY <3>1
    <3> HIDE DEF Bad
    <3> QED  BY <2>1, <3>2
  <2>2. PICK d \in Bad : \A x \in Bad : d <= x
    <3>1. Bad \in SUBSET Nat  OBVIOUS
    <3> HIDE DEF Bad
    <3> QED  BY <2>1, <3>1, LeastOf
  <2>3. PICK j : j = n + 1 - d  OBVIOUS
  <2>4. /\ d \in Nat /\ j \in (r + 1) .. (n + 1)
        /\ ~ (StartOf(j) \in Nat /\ StartOf(j) <= m)
    BY <2>3
  <2>5. CASE j = n + 1  BY <1>2, <1>4, <2>4, <2>5
  <2>6. CASE j # n + 1
    <3>1. d - 1 \in Nat /\ n + 1 - (d - 1) = j + 1 /\ j + 1 \in (r + 1) .. (n + 1) /\ j \in 1 .. n
      BY <1>2, <2>3, <2>4, <2>6
    <3>2. d - 1 \notin Bad  BY <2>2, <2>4, <3>1
    <3>3. StartOf(j + 1) \in Nat /\ StartOf(j + 1) <= m  BY <3>1, <3>2
    <3>4. Size(j) \in Nat /\ StartOf(j) \in Nat /\ StartOf(j) + Size(j) = StartOf(j + 1)
      BY <1>3, <3>1
    <3> QED  BY <1>2, <2>4, <3>3, <3>4
  <2> QED  BY <2>5, <2>6
<1>7. ASSUME m_pos = m, NEW i \in (r + 1) .. n PROVE IsEmptyBlob(fields[i])
  <2> DEFINE Bad == {j \in Nat : j \in (r + 1) .. n /\ ~ IsEmptyBlob(fields[j])}
  <2>1. SUFFICES ASSUME Bad # {} PROVE FALSE
    <3>1. ~ IsEmptyBlob(fields[i]) => i \in Bad  BY <1>2
    <3> HIDE DEF Bad
    <3> QED  BY <2>1, <3>1
  <2>2. PICK j \in Bad : \A x \in Bad : j <= x
    <3>1. Bad \in SUBSET Nat  OBVIOUS
    <3> HIDE DEF Bad
    <3> QED  BY <2>1, <3>1, LeastOf
  <2>3. /\ j \in Nat /\ j \in (r + 1) .. n /\ j \in 1 .. n /\ ~ IsEmptyBlob(fields[j])
        /\ j + 1 \in (r + 1) .. (n + 1)
    BY <1>2
  <2>4. \A x \in (r + 1) .. n : x < j => IsEmptyBlob(fields[x])
    <3>1. SUFFICES ASSUME NEW x \in (r + 1) .. n, x < j, ~ IsEmptyBlob(fields[x]) PROVE FALSE
      OBVIOUS
    <3>2. x \in Bad /\ x \in Nat  BY <1>2, <3>1
    <3>3. j <= x  BY <2>2, <3>2
    <3> QED  BY <2>3, <3>1, <3>2, <3>3
  <2>5. \A x \in (r + 1) .. j : StartOf(x) = m
    <3> DEFINE Off == {x \in Nat : x \in (r + 1) .. j /\ StartOf(x) # m}
    <3>1. SUFFICES ASSUME Off # {} PROVE FALSE
      <4>1. \A x \in (r + 1) .. j : x \in Nat  BY <1>2
      <4> QED  BY <3>1, <4>1
    <3>2. PICK x \in Off : \A y \in Off : x <= y
      <4>1. Off \in SUBSET Nat  OBVIOUS
      <4> HIDE DEF Off
      <4> QED  BY <3>1, <4>1, LeastOf
    <3>3. x \in Nat /\ x \in (r + 1) .. j /\ StartOf(x) # m  OBVIOUS
    <3>4. x # r + 1  BY <1>2, <1>7, <3>3
    <3>5. /\ x - 1 \in (r + 1) .. j /\ x - 1 \in Nat /\ x - 1 \in 1 .. n
          /\ x - 1 < j /\ x - 1 \in (r + 1) .. n /\ (x - 1) + 1 = x
      BY <1>2, <2>3, <3>3, <3>4
    <3>6. StartOf(x - 1) = m
      <4>1. x - 1 \in Off => x <= x - 1  BY <3>2
      <4> QED  BY <3>3, <3>5, <4>1
    <3>7. Size(x - 1) = 0  BY <1>3, <2>4, <3>5
    <3>8. StartOf(x - 1) + Size(x - 1) = StartOf(x)  BY <1>3, <3>5
    <3> QED  BY <1>2, <3>3, <3>6, <3>7, <3>8
  <2>6. StartOf(j) = m
    <3>1. j \in (r + 1) .. j  BY <1>2, <2>3
    <3> QED  BY <2>5, <3>1
  <2>7. Size(j) \in Nat /\ Size(j) # 0 /\ StartOf(j) + Size(j) = StartOf(j + 1)
    BY <1>3, <2>3
  <2>8. StartOf(j + 1) <= m  BY <1>6, <2>3
  <2> QED  BY <1>2, <2>6, <2>7, <2>8
<1>8. ASSUME \A i \in (r + 1) .. n : IsEmptyBlob(fields[i]) PROVE m_pos = m
  <2> DEFINE Off == {d \in Nat : n + 1 - d \in (r + 1) .. (n + 1) /\ StartOf(n + 1 - d) # m}
  <2>1. SUFFICES ASSUME Off # {} PROVE FALSE
    <3>1. n - r \in Nat /\ n + 1 - (n - r) = r + 1 /\ r + 1 \in (r + 1) .. (n + 1)  BY <1>2
    <3>2. m_pos # m => n - r \in Off  BY <1>2, <3>1
    <3> HIDE DEF Off
    <3> QED  BY <2>1, <3>2
  <2>2. PICK d \in Off : \A x \in Off : d <= x
    <3>1. Off \in SUBSET Nat  OBVIOUS
    <3> HIDE DEF Off
    <3> QED  BY <2>1, <3>1, LeastOf
  <2>3. PICK j : j = n + 1 - d  OBVIOUS
  <2>4. d \in Nat /\ j \in (r + 1) .. (n + 1) /\ StartOf(j) # m  BY <2>3
  <2>5. j # n + 1  BY <1>4, <2>4
  <2>6. /\ d - 1 \in Nat /\ n + 1 - (d - 1) = j + 1 /\ j + 1 \in (r + 1) .. (n + 1)
        /\ j \in 1 .. n /\ j \in (r + 1) .. n
    BY <1>2, <2>3, <2>4, <2>5
  <2>7. StartOf(j + 1) = m
    <3>1. d - 1 \notin Off  BY <2>2, <2>4, <2>6
    <3> QED  BY <2>6, <3>1
  <2>8. StartOf(j) \in Nat /\ Size(j) = 0 /\ StartOf(j) + Size(j) = StartOf(j + 1)
    BY <1>3, <1>8, <2>6
  <2> QED  BY <1>2, <2>4, <2>7, <2>8
<1>9. (\A i \in DOMAIN fields : i > r => IsEmptyBlob(fields[i]))
        <=> (\A i \in (r + 1) .. n : IsEmptyBlob(fields[i]))
  <2>1. \A i \in 1 .. n : i > r <=> i \in (r + 1) .. n  BY <1>2
  <2>2. \A i \in (r + 1) .. n : i \in 1 .. n  BY <1>2
  <2> QED  BY <1>2, <2>1, <2>2
<1> QED  BY <1>1, <1>5, <1>7, <1>8, <1>9

LEMMA RoundTripFollows ==
  ASSUME IpcIInv
  PROVE  RoundTrip
<1>1. SUFFICES ASSUME phase = "reading"
               PROVE  \A i \in DOMAIN results : /\ results[i].value = fields[i].value
                                                /\ results[i].end = EndOf(i)
  BY NoBytesLeft DEF RoundTrip
<1>2. results \in Seq(ResultRecords)  BY DEF IpcIInv, IpcTypeOK
<1>3. DOMAIN results = 1 .. Len(results)  BY <1>2
<1>4. \A i \in 1 .. Len(results) : results[i] = [value |-> fields[i].value, end |-> EndOf(i)]
  BY <1>1 DEF IpcIInv, CursorOK
<1> QED  BY <1>3, <1>4

(* The receiver reads the values that the sender wrote, whatever numbers,   *)
(* booleans and blobs they are and whatever the base of the encoding is,    *)
(* with its cursor where the sender's was, and bytesLeft, which the loops   *)
(* over received messages ask, tells whether any are left (ipcmesg.hpp).    *)
THEOREM MessagesRoundTrip == IpcSpec => []RoundTrip
<1>1. IpcInit => IpcIInv  BY IpcInitOK
<1>2. IpcIInv /\ [IpcNext]_ipcVars => IpcIInv'
  <2> SUFFICES ASSUME IpcIInv, [IpcNext]_ipcVars PROVE IpcIInv'  OBVIOUS
  <2>1. CASE UNCHANGED ipcVars
    <3>1. UNCHANGED <<phase, m_buffer, m_msgSize, m_pos, fields, results>>
      BY <2>1 DEF ipcVars
    <3>2. IpcTypeOK'  BY <3>1 DEF IpcIInv, IpcTypeOK
    <3>3. Layout'
      BY <3>1 DEF IpcIInv, Layout, StartOf, PlaceOK, OfKind, FieldBytes, BytesOf, EndOf
    <3>4. CursorOK'  BY <3>1 DEF IpcIInv, CursorOK, StartOf, EndOf
    <3> QED  BY <3>2, <3>3, <3>4 DEF IpcIInv
  <2> QED
    BY <2>1, NewStep, WriteSteps, RewindStep, SendStep, RecvStep, ReadSteps, DoneStep DEF IpcNext
<1>3. IpcIInv => RoundTrip  BY RoundTripFollows
<1> QED  BY <1>1, <1>2, <1>3, PTL DEF IpcSpec
=============================================================================
