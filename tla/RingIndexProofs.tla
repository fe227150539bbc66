-------------------------- MODULE RingIndexProofs --------------------------
(***************************************************************************)
(* The arithmetic of ring indices, for every queue size that divides the   *)
(* modulus of the indices.                                                 *)
(***************************************************************************)
EXTENDS RingIndex, TLAPS

\* What % is, given the quotient and the remainder.
LEMMA ModUnique ==
  ASSUME NEW m \in Nat, m > 0, NEW q \in Nat, NEW r \in Nat, r < m
  PROVE  (q * m + r) % m = r
  BY SMT

\* An index selects a slot of the ring, and its successor is an index again.
LEMMA SlotType == \A i \in Indices : Slot(i) \in Slots /\ Inc(i) \in Indices
  BY RingAssumption DEF Indices, Slots, Slot, Inc

\* The successor of an index, without the %.
LEMMA IncCases ==
  ASSUME NEW i \in Indices
  PROVE  Inc(i) = IF i = IdxMod - 1 THEN 0 ELSE i + 1
  BY RingAssumption DEF Inc, Indices

\* The modulus is a whole number of queues.
LEMMA WholeQueues == \E k \in Nat : IdxMod = k * QSize
  <1>1. IdxMod = (IdxMod \div QSize) * QSize + (IdxMod % QSize)
    BY RingAssumption
  <1> QED
    BY <1>1, RingAssumption

\* Consecutive indices select consecutive slots, also where the 16 bits wrap:
\* this is what IdxMod % QSize = 0 is for.
LEMMA SlotInc ==
  ASSUME NEW i \in Indices
  PROVE  Slot(Inc(i)) = IF Slot(i) = QSize - 1 THEN 0 ELSE Slot(i) + 1
  <1> DEFINE q == i \div QSize
             r == i % QSize
  <1>1. q \in Nat /\ r \in 0..QSize - 1 /\ i = q * QSize + r
    BY RingAssumption DEF Indices
  <1> HIDE DEF q, r
  <1>2. CASE i = IdxMod - 1
    <2>1. PICK k \in Nat : IdxMod = k * QSize
      BY WholeQueues
    <2>2. k - 1 \in Nat
      BY <2>1, RingAssumption
    <2>3. i = (k - 1) * QSize + (QSize - 1)
      BY <1>2, <2>1, RingAssumption
    <2>4. i % QSize = QSize - 1
      BY <2>2, <2>3, ModUnique, RingAssumption
    <2>5. 0 % QSize = 0
      BY RingAssumption
    <2> QED
      BY <1>2, <2>4, <2>5, IncCases DEF Slot
  <1>3. CASE i # IdxMod - 1 /\ r = QSize - 1
    <2>1. i + 1 = (q + 1) * QSize + 0 /\ q + 1 \in Nat
      BY <1>1, <1>3, RingAssumption
    <2>2. (i + 1) % QSize = 0
      BY <2>1, ModUnique, RingAssumption
    <2> QED
      BY <1>3, <2>2, IncCases DEF Slot, r
  <1>4. CASE i # IdxMod - 1 /\ r # QSize - 1
    <2>1. i + 1 = q * QSize + (r + 1)
      BY <1>1, <1>4, RingAssumption
    <2>2. r + 1 \in Nat /\ r + 1 < QSize
      BY <1>1, <1>4, RingAssumption
    <2>3. (q * QSize + (r + 1)) % QSize = r + 1
      BY <1>1, <2>2, ModUnique, RingAssumption
    <2> QED
      BY <1>4, <2>1, <2>3, IncCases DEF Slot, r
  <1> QED
    BY <1>2, <1>3, <1>4

\* An index differs from its successor unless it is a single bit pattern.
LEMMA IncDiffers ==
  ASSUME NEW i \in Indices, IdxMod > 1
  PROVE  Inc(i) # i
  BY IncCases, RingAssumption DEF Indices

\* Three descriptors in a row of a queue of three or more are distinct.
LEMMA ThreeSlots ==
  ASSUME NEW i \in Indices, QSize >= 3
  PROVE  /\ Slot(i) # Slot(Inc(i))
         /\ Slot(i) # Slot(Inc(Inc(i)))
         /\ Slot(Inc(i)) # Slot(Inc(Inc(i)))
  <1>1. Inc(i) \in Indices /\ Slot(i) \in Slots
    BY SlotType
  <1>2. Slot(Inc(Inc(i))) = IF Slot(Inc(i)) = QSize - 1 THEN 0 ELSE Slot(Inc(i)) + 1
    BY <1>1, SlotInc
  <1> QED
    BY <1>1, <1>2, SlotInc, RingAssumption DEF Slots

\* Counting modulo IdxMod is counting, and then taking the remainder.
LEMMA IncMod ==
  ASSUME NEW n \in Nat
  PROVE  Inc(n % IdxMod) = (n + 1) % IdxMod
  <1> DEFINE q == n \div IdxMod
             r == n % IdxMod
  <1>1. q \in Nat /\ r \in Nat /\ r < IdxMod /\ n = q * IdxMod + r
    BY RingAssumption
  <1> HIDE DEF q, r
  <1>2. CASE r = IdxMod - 1
    <2>1. n + 1 = (q + 1) * IdxMod + 0 /\ q + 1 \in Nat
      BY <1>1, <1>2, RingAssumption
    <2>2. (n + 1) % IdxMod = 0
      BY <2>1, ModUnique, RingAssumption
    <2>3. r \in Indices
      BY <1>1, RingAssumption DEF Indices
    <2> QED
      BY <1>2, <2>2, <2>3, IncCases DEF r
  <1>3. CASE r # IdxMod - 1
    <2>1. r + 1 \in Nat /\ r + 1 < IdxMod
      BY <1>1, <1>3, RingAssumption
    <2>2. n + 1 = q * IdxMod + (r + 1)
      BY <1>1, RingAssumption
    <2>3. (q * IdxMod + (r + 1)) % IdxMod = r + 1
      BY <1>1, <2>1, ModUnique, RingAssumption
    <2>4. r \in Indices
      BY <1>1, RingAssumption DEF Indices
    <2> QED
      BY <1>3, <2>2, <2>3, <2>4, IncCases DEF r
  <1> QED
    BY <1>2, <1>3

\* Three descriptors for every request, counted in the width of the indices.
LEMMA ThreePerRequest ==
  ASSUME NEW a \in Indices
  PROVE  Inc(Inc(Inc((3 * a) % IdxMod))) = (3 * Inc(a)) % IdxMod
  <1>1. a \in Nat
    BY DEF Indices
  <1>2. Inc(Inc(Inc((3 * a) % IdxMod))) = (3 * a + 3) % IdxMod
    <2>1. Inc((3 * a) % IdxMod) = (3 * a + 1) % IdxMod
      BY <1>1, IncMod
    <2>2. Inc((3 * a + 1) % IdxMod) = (3 * a + 2) % IdxMod
      BY <1>1, IncMod
    <2>3. Inc((3 * a + 2) % IdxMod) = (3 * a + 3) % IdxMod
      BY <1>1, IncMod
    <2> QED
      BY <2>1, <2>2, <2>3
  <1>3. CASE a = IdxMod - 1
    <2>1. 3 * a + 3 = 3 * IdxMod + 0
      BY <1>3, RingAssumption
    <2>2. (3 * IdxMod + 0) % IdxMod = 0 /\ 0 % IdxMod = 0
      BY ModUnique, RingAssumption
    <2> QED
      BY <1>2, <1>3, <2>1, <2>2, IncCases
  <1>4. CASE a # IdxMod - 1
    <2>1. 3 * Inc(a) = 3 * a + 3
      BY <1>1, <1>4, IncCases
    <2> QED
      BY <1>2, <2>1
  <1> QED
    BY <1>3, <1>4
=============================================================================
