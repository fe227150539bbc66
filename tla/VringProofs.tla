---------------------------- MODULE VringProofs ----------------------------
(***************************************************************************)
(* The layout of the queue areas, for every buffer and every queue size.   *)
(***************************************************************************)
EXTENDS Vring, TLAPS

\* VQ_ALIGN rounds up to the next page boundary.
LEMMA AlignUp ==
  ASSUME NEW a \in Nat
  PROVE  /\ VQ_ALIGN(a) \in Nat
         /\ VQ_ALIGN(a) % PAGE = 0
         /\ a <= VQ_ALIGN(a) /\ VQ_ALIGN(a) < a + PAGE
         /\ a % PAGE = 0 => VQ_ALIGN(a) = a
  BY DEF VQ_ALIGN, PAGE

\* Rounding up to a page keeps the order.
LEMMA AlignMonotone ==
  ASSUME NEW a \in Nat, NEW b \in Nat, a <= b
  PROVE  VQ_ALIGN(a) <= VQ_ALIGN(b)
  BY DEF VQ_ALIGN, PAGE

\* Where the areas are, before the end of the buffer is looked at.
LEMMA LayoutFacts ==
  ASSUME NEW b \in Nat, NEW n \in U16Values
  PROVE  /\ AvailAt(b, n) \in Nat /\ UsedAt(b, n) \in Nat
         /\ AvailAt(b, n) % PAGE = 0 /\ UsedAt(b, n) % PAGE = 0
         /\ VQ_ALIGN(b) <= AvailAt(b, n)
         /\ b + n * DESC <= AvailAt(b, n)
         /\ AvailAt(b, n) + RING_HDR + n * U16 <= UsedAt(b, n)
  <1> DEFINE av == AvailAt(b, n)
  <1>1. b + n * DESC \in Nat /\ b <= b + n * DESC
    BY DEF DESC, U16Values
  <1>2. av \in Nat /\ av % PAGE = 0 /\ VQ_ALIGN(b) <= av /\ b + n * DESC <= av
    BY <1>1, AlignUp, AlignMonotone DEF AvailAt
  <1> HIDE DEF av
  <1>3. av + RING_HDR + n * U16 \in Nat
    BY <1>2 DEF RING_HDR, U16, U16Values
  <1>4. UsedAt(b, n) = VQ_ALIGN(av + RING_HDR + n * U16)
    BY DEF UsedAt, av
  <1>5. UsedAt(b, n) \in Nat /\ UsedAt(b, n) % PAGE = 0 /\ av + RING_HDR + n * U16 <= UsedAt(b, n)
    BY <1>3, <1>4, AlignUp
  <1> QED
    BY <1>2, <1>5 DEF av

\* The end of the used ring is a number.
LEMMA UsedEndType ==
  ASSUME NEW b \in Nat, NEW n \in U16Values
  PROVE  UsedEnd(b, n) \in Nat
  <1>1. PICK u \in Nat : u = UsedAt(b, n)
    BY LayoutFacts, Zenon
  <1>2. u + RING_HDR + n * ELEM + ELEM \in Nat
    BY DEF RING_HDR, ELEM, U16Values
  <1> QED
    BY <1>1, <1>2, Zenon DEF UsedEnd

\* What a return leaves in struct vring, and what the end check has compared.
Filled ==
  ret \in {"0", "-2"} =>
    /\ size = qsize /\ desc = VQ_ALIGN(buf)
    /\ avail = AvailAt(buf, qsize) /\ used = UsedAt(buf, qsize)

Fits == ret = "0" => UsedEnd(buf, qsize) <= buf + buf_len

\* -2 comes from the end check, -1 from the size of the buffer.
Overran ==
  ret = "-2" => virtio_vring_size(qsize) <= buf_len /\ UsedEnd(buf, qsize) > buf + buf_len

\* What virtio_vring_init leaves in the structure.
LEMMA InvariantHolds == Spec => [](TypeOK /\ Filled /\ Fits /\ Overran)
  <1> DEFINE Inv == TypeOK /\ Filled /\ Fits /\ Overran
  <1>1. Init => Inv
    BY DEF Init, TypeOK, Filled, Fits, Overran
  <1>2. Inv /\ [Next]_vars => Inv'
    <2> SUFFICES ASSUME Inv, [Next]_vars PROVE Inv'
      OBVIOUS
    <2>1. CASE TooSmall
      BY <2>1 DEF TooSmall, TypeOK, Filled, Fits, Overran, args, vr
    <2>2. CASE LayOut
      <3>1. buf \in Nat /\ qsize \in U16Values /\ buf_len \in Nat
        BY InputAssumption, Zenon DEF TypeOK
      <3>0. qsize \in Nat
        BY <3>1 DEF U16Values
      <3>2. VQ_ALIGN(buf) \in Nat /\ AvailAt(buf, qsize) \in Nat /\ UsedAt(buf, qsize) \in Nat
        BY <3>1, AlignUp, LayoutFacts, Zenon
      <3>3. /\ <<buf, buf_len, qsize>>' = <<buf, buf_len, qsize>>
            /\ size' = qsize /\ desc' = VQ_ALIGN(buf)
            /\ avail' = AvailAt(buf, qsize) /\ used' = UsedAt(buf, qsize)
        BY <2>2, Zenon DEF LayOut, FillIn, args
      <3>4. /\ ret' = IF UsedEnd(buf, qsize) > buf + buf_len THEN "-2" ELSE "0"
            /\ ret' \in {"none", "0", "-1", "-2"} /\ virtio_vring_size(qsize) <= buf_len
        BY <2>2, Zenon DEF LayOut
      <3>5. TypeOK'
        BY <3>0, <3>2, <3>3, <3>4, Zenon DEF TypeOK
      <3>6. Filled'
        BY <3>3, Zenon DEF Filled
      <3>7. UsedEnd(buf, qsize) \in Nat
        BY <3>1, UsedEndType, Zenon
      <3>8. Fits'
        BY <3>1, <3>3, <3>4, <3>7 DEF Fits
      <3>9. Overran'
        BY <3>3, <3>4, Zenon DEF Overran
      <3> QED
        BY <3>5, <3>6, <3>8, <3>9
    <2>3. CASE UNCHANGED vars
      BY <2>3 DEF vars, args, vr, TypeOK, Filled, Fits, Overran
    <2> QED
      BY <2>1, <2>2, <2>3 DEF Next
  <1> QED
    BY <1>1, <1>2, PTL DEF Spec

\* In a page-aligned buffer the table ends before the available ring.
LEMMA AlignedTable ==
  ASSUME NEW b \in Nat, NEW n \in U16Values, b % PAGE = 0
  PROVE  VQ_ALIGN(b) + n * DESC <= AvailAt(b, n)
  <1>1. b + n * DESC <= AvailAt(b, n)
    BY LayoutFacts
  <1>2. VQ_ALIGN(b) = b
    BY AlignUp
  <1> QED
    BY <1>1, <1>2

\* The end of t bytes that start on the page boundary behind b, and the page
\* boundary behind b + t.
LEMMA AlignPast ==
  ASSUME NEW b \in Nat, NEW t \in Nat
  PROVE  VQ_ALIGN(b) + t <= VQ_ALIGN(b + t) <=> t % PAGE = 0 \/ VQ_ALIGN(b) - b < t % PAGE
  <1>1. PICK q \in Nat, skipped \in 0..4095 : b = 4096 * q - skipped
    <2>1. /\ VQ_ALIGN(b) = 4096 * ((b + 4095) \div 4096) /\ (b + 4095) \div 4096 \in Nat
          /\ VQ_ALIGN(b) - b \in 0..4095
      BY DEF VQ_ALIGN, PAGE
    <2>2. b = VQ_ALIGN(b) - (VQ_ALIGN(b) - b)
      BY <2>1
    <2> QED
      BY <2>1, <2>2
  <1>2. PICK p \in Nat, last \in 0..4095 : t = 4096 * p + last
    <2>1. t = 4096 * (t \div 4096) + (t % 4096) /\ t \div 4096 \in Nat /\ t % 4096 \in 0..4095
      OBVIOUS
    <2> QED
      BY <2>1
  <1>3. VQ_ALIGN(b) = 4096 * q
    BY <1>1 DEF VQ_ALIGN, PAGE
  <1>4. t % PAGE = last
    BY <1>2 DEF PAGE
  <1> DEFINE a == b + t
  <1>5. a \in Nat /\ a = 4096 * (q + p) + (last - skipped)
    BY <1>1, <1>2
  <1> HIDE DEF a
  <1>6. CASE skipped < last
    <2>1. VQ_ALIGN(a) = 4096 * (q + p) + 4096
      <3>1. (a + 4095) \div 4096 = q + p + 1
        BY <1>5, <1>6
      <3> QED
        BY <1>5, <3>1 DEF VQ_ALIGN, PAGE
    <2>2. VQ_ALIGN(b) + t <= VQ_ALIGN(a)
      BY <1>2, <1>3, <2>1
    <2>3. VQ_ALIGN(b) - b < t % PAGE
      BY <1>1, <1>3, <1>4, <1>6
    <2> QED
      BY <2>2, <2>3 DEF a
  <1>7. CASE last <= skipped
    <2>1. VQ_ALIGN(a) = 4096 * (q + p)
      <3>1. (a + 4095) \div 4096 = q + p
        BY <1>5, <1>7
      <3> QED
        BY <1>5, <3>1 DEF VQ_ALIGN, PAGE
    <2>2. VQ_ALIGN(b) + t <= VQ_ALIGN(a) <=> last = 0
      BY <1>2, <1>3, <2>1
    <2>3. ~(VQ_ALIGN(b) - b < t % PAGE)
      BY <1>1, <1>3, <1>4, <1>7
    <2> QED
      BY <1>4, <2>2, <2>3 DEF a
  <1> QED
    BY <1>6, <1>7

\* Where the table ends and the available ring begins, in any buffer.
LEMMA TableClear ==
  ASSUME NEW b \in Nat, NEW n \in U16Values
  PROVE  VQ_ALIGN(b) + n * DESC <= AvailAt(b, n)
           <=> (n * DESC) % PAGE = 0 \/ VQ_ALIGN(b) - b < (n * DESC) % PAGE
  <1>1. n * DESC \in Nat
    BY DEF DESC, U16Values
  <1> QED
    BY <1>1, AlignPast, Zenon DEF AvailAt

\* The areas of a call that passes the end check, and of an aligned buffer.
LEMMA AcceptedAreas ==
  ASSUME NEW b \in Nat, NEW n \in U16Values, NEW len \in Nat,
         UsedEnd(b, n) <= b + len
  PROVE  /\ VQ_ALIGN(b) % PAGE = 0 /\ AvailAt(b, n) % PAGE = 0 /\ UsedAt(b, n) % PAGE = 0
         /\ b <= VQ_ALIGN(b)
         /\ b % PAGE = 0 => VQ_ALIGN(b) + n * DESC <= AvailAt(b, n)
         /\ AvailAt(b, n) + RING_HDR + n * U16 <= UsedAt(b, n)
         /\ UsedAt(b, n) + RING_HDR + n * ELEM <= b + len
  <1>1. /\ UsedAt(b, n) \in Nat
        /\ AvailAt(b, n) % PAGE = 0 /\ UsedAt(b, n) % PAGE = 0
        /\ AvailAt(b, n) + RING_HDR + n * U16 <= UsedAt(b, n)
    BY LayoutFacts
  <1>2. UsedAt(b, n) + RING_HDR + n * ELEM <= b + len
    BY <1>1 DEF UsedEnd, RING_HDR, ELEM, U16Values
  <1>3. VQ_ALIGN(b) % PAGE = 0 /\ b <= VQ_ALIGN(b)
    BY AlignUp
  <1> QED
    BY <1>1, <1>2, <1>3, AlignedTable

\* An accepted buffer holds the three areas; in one that begins on a page
\* boundary, as both drivers' do, no two of them overlap (virtio-ring.c:35-43).
THEOREM AreasCorrect == Spec => []AreasInside
  <1>1. TypeOK /\ Filled /\ Fits => AreasInside
    <2> SUFFICES ASSUME TypeOK, Filled, Fits, ret = "0" PROVE AreasInside
      BY Zenon DEF AreasInside
    <2>1. buf \in Nat /\ qsize \in U16Values /\ buf_len \in Nat
      BY InputAssumption, Zenon DEF TypeOK
    <2>2. /\ size = qsize /\ desc = VQ_ALIGN(buf)
          /\ avail = AvailAt(buf, qsize) /\ used = UsedAt(buf, qsize)
      BY Zenon DEF Filled
    <2>3. UsedEnd(buf, qsize) <= buf + buf_len
      BY Zenon DEF Fits
    <2> QED
      BY <2>1, <2>2, <2>3, AcceptedAreas, Zenon DEF AreasInside
  <1> QED
    BY <1>1, InvariantHolds, PTL

\* In which buffers the descriptor table and the available ring overlap
\* (virtio-ring.c:35-37).
THEOREM DescCorrect == Spec => []DescClearOfAvail
  <1>1. TypeOK /\ Filled => DescClearOfAvail
    <2> SUFFICES ASSUME TypeOK, Filled, ret = "0" PROVE DescClearOfAvail
      BY Zenon DEF DescClearOfAvail
    <2>1. buf \in Nat /\ qsize \in U16Values
      BY InputAssumption, Zenon DEF TypeOK
    <2>2. size = qsize /\ desc = VQ_ALIGN(buf) /\ avail = AvailAt(buf, qsize)
      BY Zenon DEF Filled
    <2> QED
      BY <2>1, <2>2, TableClear, Zenon DEF DescClearOfAvail
  <1> QED
    BY <1>1, InvariantHolds, PTL

-----------------------------------------------------------------------------
(* The room behind the rings.                                              *)

\* The one remainder of the powers of two that the event field needs.
LEMMA PowerResidues ==
  ASSUME NEW n \in PowersOfTwo
  PROVE  n \in Nat /\ n % 2048 # 2046
  BY DEF PowersOfTwo

\* Rounding a page up keeps what is below it in its place.
LEMMA AlignShift ==
  ASSUME NEW a \in Nat, NEW x \in Nat, a % PAGE = 0
  PROVE  VQ_ALIGN(a + x) = a + VQ_ALIGN(x)
  <1>1. PICK q \in Nat : a = 4096 * q
    <2>1. a = 4096 * (a \div 4096) /\ a \div 4096 \in Nat
      BY DEF PAGE
    <2> QED
      BY <2>1
  <1> QED
    BY <1>1 DEF VQ_ALIGN, PAGE

\* One element past the used ring there is still a page.
LEMMA UsedSlack ==
  ASSUME NEW n \in Nat, n % 512 # 511
  PROVE  RING_HDR + n * ELEM + ELEM <= VQ_ALIGN(RING_HDR + n * ELEM)
  <1>1. PICK q \in Nat, r \in 0..510 : n = 512 * q + r
    <2>1. n = 512 * (n \div 512) + (n % 512) /\ n \div 512 \in Nat /\ n % 512 \in 0..510
      OBVIOUS
    <2> QED
      BY <2>1
  <1>2. (RING_HDR + n * ELEM + PAGE - 1) \div PAGE = q + 1
    BY <1>1 DEF RING_HDR, ELEM, PAGE
  <1> QED
    BY <1>1, <1>2 DEF VQ_ALIGN, RING_HDR, ELEM, PAGE

\* Behind the available ring there are two bytes.
LEMMA AvailSlack ==
  ASSUME NEW n \in PowersOfTwo
  PROVE  RING_HDR + n * U16 + U16 <= VQ_ALIGN(RING_HDR + n * U16)
  <1>1. n \in Nat /\ n % 2048 # 2046
    BY PowerResidues
  <1>2. PICK q \in Nat, r \in 0..2047 : n = 2048 * q + r /\ r # 2046
    <2>1. n = 2048 * (n \div 2048) + (n % 2048) /\ n \div 2048 \in Nat /\ n % 2048 \in 0..2047
      BY <1>1
    <2> QED
      BY <1>1, <2>1
  <1> QED
    BY <1>1, <1>2 DEF VQ_ALIGN, RING_HDR, U16, PAGE

\* A size is a number.
LEMMA SizesAreNumbers == U16Values \subseteq Nat
  BY DEF U16Values

\* In an aligned buffer the layout ends within virtio_vring_size.
LEMMA EndWithinSize ==
  ASSUME NEW b \in Nat, NEW n \in U16Values, b % PAGE = 0, n % 512 # 511
  PROVE  UsedEnd(b, n) <= b + virtio_vring_size(n)
  <1>1. n \in U16Values /\ n \in Nat
    BY SizesAreNumbers, Zenon
  <1>2. /\ n * DESC \in Nat /\ RING_HDR + n * U16 \in Nat /\ RING_HDR + n * ELEM \in Nat
    BY <1>1 DEF DESC, RING_HDR, U16, ELEM
  <1> DEFINE d == VQ_ALIGN(n * DESC)
             a == VQ_ALIGN(RING_HDR + n * U16)
             u == VQ_ALIGN(RING_HDR + n * ELEM)
  <1>3. d \in Nat /\ a \in Nat /\ u \in Nat
    BY <1>2, AlignUp
  <1>4. AvailAt(b, n) = b + d
    BY <1>2, AlignShift DEF AvailAt
  <1>5. AvailAt(b, n) \in Nat /\ AvailAt(b, n) % PAGE = 0
    BY <1>1, LayoutFacts
  <1>6. UsedAt(b, n) = b + d + a
    <2>1. UsedAt(b, n) = VQ_ALIGN(AvailAt(b, n) + (RING_HDR + n * U16))
      BY <1>1, <1>5 DEF UsedAt, RING_HDR, U16
    <2> QED
      BY <1>2, <1>4, <1>5, <2>1, AlignShift, Zenon
  <1>7. RING_HDR + n * ELEM + ELEM <= u
    BY <1>1, UsedSlack
  <1>8. virtio_vring_size(n) = d + a + u
    BY DEF virtio_vring_size
  <1> HIDE DEF d, a, u
  <1> QED
    BY <1>1, <1>3, <1>6, <1>7, <1>8 DEF UsedEnd, RING_HDR, ELEM

\* virtio_vring_size is enough for every queue size but those of which the
\* last page of the used ring has no room for one element more.
THEOREM SizeCorrect == Spec => []SizeSuffices
  <1>1. TypeOK /\ Overran => SizeSuffices
    <2> SUFFICES ASSUME TypeOK, Overran, buf % PAGE = 0, qsize % 512 # 511, ret = "-2"
                 PROVE  FALSE
      BY Zenon DEF SizeSuffices
    <2>1. buf \in Nat /\ qsize \in U16Values /\ buf_len \in Nat
      BY InputAssumption, Zenon DEF TypeOK
    <2>2. virtio_vring_size(qsize) <= buf_len /\ UsedEnd(buf, qsize) > buf + buf_len
      BY Zenon DEF Overran
    <2>3. UsedEnd(buf, qsize) <= buf + virtio_vring_size(qsize)
      BY <2>1, EndWithinSize, Zenon
    <2>4. UsedEnd(buf, qsize) \in Nat
      BY <2>1, UsedEndType
    <2>5. virtio_vring_size(qsize) \in Nat
      <3>1. /\ qsize * DESC \in Nat /\ RING_HDR + qsize * U16 \in Nat
            /\ RING_HDR + qsize * ELEM \in Nat
        BY <2>1 DEF DESC, RING_HDR, U16, ELEM, U16Values
      <3>2. VQ_ALIGN(qsize * DESC) \in Nat
        BY <3>1, AlignUp
      <3>3. VQ_ALIGN(RING_HDR + qsize * U16) \in Nat
        BY <3>1, AlignUp
      <3>4. VQ_ALIGN(RING_HDR + qsize * ELEM) \in Nat
        BY <3>1, AlignUp
      <3> QED
        BY <3>2, <3>3, <3>4 DEF virtio_vring_size
    <2> QED
      BY <2>1, <2>2, <2>3, <2>4, <2>5
  <1> QED
    BY <1>1, InvariantHolds, PTL

\* used_event and avail_event have their two bytes behind the rings.
THEOREM EventFieldsCorrect == Spec => []EventFieldsFit
  <1>1. TypeOK /\ Filled /\ Fits => EventFieldsFit
    <2> SUFFICES ASSUME TypeOK, Filled, Fits, ret = "0", qsize \in PowersOfTwo
                 PROVE  /\ avail + RING_HDR + size * U16 + U16 <= used
                        /\ used + RING_HDR + size * ELEM + U16 <= buf + buf_len
      BY Zenon DEF EventFieldsFit
    <2>1. buf \in Nat /\ qsize \in U16Values /\ buf_len \in Nat
      BY InputAssumption, Zenon DEF TypeOK
    <2>0. qsize \in Nat
      BY PowerResidues
    <2>2. size = qsize /\ avail = AvailAt(buf, qsize) /\ used = UsedAt(buf, qsize)
      BY Zenon DEF Filled
    <2>3. UsedEnd(buf, qsize) <= buf + buf_len
      BY Zenon DEF Fits
    <2>4. avail \in Nat /\ avail % PAGE = 0 /\ used \in Nat
      BY <2>1, <2>2, LayoutFacts
    <2>5. avail + RING_HDR + size * U16 + U16 <= used
      <3>1. used = VQ_ALIGN(avail + (RING_HDR + qsize * U16)) /\ RING_HDR + qsize * U16 \in Nat
        BY <2>0, <2>2, <2>4 DEF UsedAt, RING_HDR, U16
      <3>2. used = avail + VQ_ALIGN(RING_HDR + qsize * U16)
        BY <2>4, <3>1, AlignShift, Zenon
      <3>3. RING_HDR + qsize * U16 + U16 <= VQ_ALIGN(RING_HDR + qsize * U16)
        BY AvailSlack
      <3>4. VQ_ALIGN(RING_HDR + qsize * U16) \in Nat
        BY <3>1, AlignUp
      <3> QED
        BY <2>0, <2>2, <2>4, <3>2, <3>3, <3>4 DEF RING_HDR, U16
    <2>6. used + RING_HDR + size * ELEM + U16 <= buf + buf_len
      BY <2>0, <2>1, <2>2, <2>3, <2>4 DEF UsedEnd, RING_HDR, ELEM, U16
    <2> QED
      BY <2>5, <2>6
  <1> QED
    BY <1>1, InvariantHolds, PTL
=============================================================================
