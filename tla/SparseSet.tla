----------------------------- MODULE SparseSet -----------------------------
(***************************************************************************)
(* src/src/common/sparseset.hpp: a set of the numbers 0 .. m_max as a      *)
(* permutation m_domain of them, of which the first m_size are in the set, *)
(* and the place m_map of each of them.  Every user has 0 as the minimum.  *)
(*                                                                         *)
(* shrink gives back the end of m_domain as far as it holds numbers beyond *)
(* the new maximum.  That is sound while no number beyond the new maximum  *)
(* has been in the set; cut remembers that a call has not kept to this.    *)
(* What follows such a call is modelled up to an access beyond the end of  *)
(* the vectors, where the behaviour of the program is undefined.           *)
(***************************************************************************)
EXTENDS Integers

CONSTANT MaxElement   \* bound: the largest maximum

ASSUME MaxElementAssumption == MaxElement \in Nat

VARIABLES
  m_max, m_size,   \* the largest possible element, the number of elements
  m_domain, m_map, \* functions on 0 .. m_max
  elements,        \* history: the set that the calls so far describe
  used,            \* history: what has been inserted since the last reset
  cut              \* history: a shrink since then went below one of them

setVars == <<m_max, m_size, m_domain, m_map, elements, used, cut>>

Identity(max) == [i \in 0 .. max |-> i]
Swapped(f, i, j) == [f EXCEPT ![i] = f[j], ![j] = f[i]]

contains(x) == x <= m_max /\ m_map[x] < m_size
iterated    == {m_domain[i] : i \in 0 .. m_size - 1}

SetInit ==
  /\ m_max = 0
  /\ m_size = 0
  /\ m_domain = Identity(0)
  /\ m_map = Identity(0)
  /\ elements = {}
  /\ used = {}
  /\ cut = FALSE

reset(max) ==
  /\ m_max' = max
  /\ m_size' = 0
  /\ m_domain' = Identity(max)
  /\ m_map' = Identity(max)
  /\ elements' = {}
  /\ used' = {}
  /\ cut' = FALSE

Longer(f, max) == [i \in 0 .. max |-> IF i <= m_max THEN f[i] ELSE i]

extend(max) ==
  /\ max > m_max
  /\ m_max' = max
  /\ m_domain' = Longer(m_domain, max)
  /\ m_map' = Longer(m_map, max)
  /\ UNCHANGED <<m_size, elements, used, cut>>

\* What is popped from m_domain: the end from k on, all of it beyond the new
\* maximum, nothing of it in the set; k is the least such place.
Pops(max, k) == k > max /\ k >= m_size /\ \A i \in k .. m_max : m_domain[i] > max

shrink(max) ==
  /\ max <= m_max
  /\ \E k \in 0 .. m_max + 1 :
       /\ Pops(max, k)
       /\ \A j \in 0 .. k - 1 : ~ Pops(max, j)
       /\ m_max' = k - 1
       /\ m_domain' = [i \in 0 .. k - 1 |-> m_domain[i]]
       /\ m_map' = [i \in 0 .. k - 1 |-> m_map[i]]
  /\ cut' = (cut \/ \E x \in used : x > max)
  /\ UNCHANGED <<m_size, elements, used>>

clear ==
  /\ m_size' = 0
  /\ elements' = {}
  /\ UNCHANGED <<m_max, m_domain, m_map, used, cut>>

\* The places that the exchange of x reads are in the vectors.
InVectors(x, b) ==
  /\ b <= m_max /\ m_map[x] <= m_max
  /\ m_domain[b] <= m_max /\ m_domain[m_map[x]] <= m_max

\* What is at the place of x and at place b changes places.
Exchange(x, b) ==
  /\ m_domain' = Swapped(m_domain, m_map[x], b)
  /\ m_map' = Swapped(m_map, m_domain[m_map[x]], m_domain[b])

insert(x) ==
  /\ elements' = elements \cup {x}
  /\ used' = used \cup {x}
  /\ UNCHANGED <<m_max, cut>>
  /\ \/ /\ ~ contains(x)
        /\ InVectors(x, m_size)
        /\ Exchange(x, m_size)
        /\ m_size' = m_size + 1
     \/ /\ contains(x)
        /\ UNCHANGED <<m_domain, m_map, m_size>>

\* Variant: the last element moves to where x was, and keeps its place in m_map.
ForgetMap(x, b) ==
  /\ m_domain' = Swapped(m_domain, m_map[x], b)
  /\ UNCHANGED m_map
Retire(x, b) == Exchange(x, b)

erase(x) ==
  /\ elements' = elements \ {x}
  /\ UNCHANGED <<m_max, used, cut>>
  /\ \/ /\ contains(x)
        /\ InVectors(x, m_size - 1)
        /\ Retire(x, m_size - 1)
        /\ m_size' = m_size - 1
     \/ /\ ~ contains(x)
        /\ UNCHANGED <<m_domain, m_map, m_size>>

SetNext == \/ \E max \in 0 .. MaxElement : reset(max) \/ extend(max) \/ shrink(max)
           \/ clear
           \/ \E x \in 0 .. m_max : insert(x) \/ erase(x)

SetSpec == SetInit /\ [][SetNext]_setVars

----------------------------------------------------------------------------
(* Properties *)

(* The class behaves as a set as long as nothing is shrunk below a number  *)
(* that has been in it since the last reset: contains and the iterator     *)
(* know the elements that were inserted and not erased since, and the      *)
(* iterator meets each of them once.  The exception is cut:                *)
(* sparseset.t.cpp says that such a shrink does not remove any values from *)
(* the set, but what is popped from m_domain need not be what m_map loses, *)
(* and contains may then deny an element.  The library does not meet it:   *)
(* of its sets only MemoryTable::m_added can shrink, and resizeMemreg      *)
(* passes on only requests for more than what was granted before.          *)
IsSet ==
  ~ cut => /\ \A x \in 0 .. m_max : contains(x) <=> x \in elements
           /\ iterated = elements
           /\ \A i, j \in 0 .. m_size - 1 : m_domain[i] = m_domain[j] => i = j

SetTypeOK ==
  /\ m_max \in 0 .. MaxElement
  /\ m_size \in 0 .. m_max + 1
  /\ m_domain \in [0 .. m_max -> 0 .. m_max]
  /\ m_map \in [0 .. m_max -> 0 .. m_max]
  /\ elements \subseteq 0 .. m_max
  /\ used \subseteq 0 .. m_max

(* m_map says where in m_domain a number is, and the other way round; what *)
(* lies beyond everything ever used has not been moved, so that shrink     *)
(* takes away the same numbers from both.                                  *)
Intact ==
  /\ SetTypeOK
  /\ \A i \in 0 .. m_max : m_map[m_domain[i]] = i /\ m_domain[m_map[i]] = i
  /\ \A x \in 0 .. m_max : x \in elements <=> m_map[x] < m_size
  /\ elements \subseteq used
  /\ \A i \in 0 .. m_max : (\A x \in used : x < i) => m_domain[i] = i

SetIInv == cut \in BOOLEAN /\ (~ cut => Intact)
=============================================================================
