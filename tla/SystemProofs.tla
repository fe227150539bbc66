---------------------------- MODULE SystemProofs ----------------------------
(***************************************************************************)
(* The whole program, on every machine: the range check of                 *)
(* virtio_pci_blk_rw is exact; the disk is never asked for more than it    *)
(* has had; the first block test passes only when what it wrote is on the  *)
(* disk, and always passes on a disk that works; and main and the handler  *)
(* print through one transmitter without losing or mixing up a byte.       *)
(***************************************************************************)
EXTENDS System, SequenceTheorems, TLAPS

-----------------------------------------------------------------------------
\* Numbered, without the set of places.
LEMMA NumberedIs ==
  ASSUME NEW q, NEW s, NEW g \in Nat, NEW a \in Nat
  PROVE  Numbered(q, s, g, a) <=>
           /\ g <= a
           /\ \A k \in DOMAIN q : q[k].src = s => q[k].n \in g + 1 .. a
           /\ \A m \in g + 1 .. a : \E k \in DOMAIN q : q[k].src = s /\ q[k].n = m
           /\ \A i, j \in DOMAIN q : q[i].src = s /\ q[j].src = s /\ i < j => q[i].n < q[j].n
<1> DEFINE of == {k \in DOMAIN q : q[k].src = s}
<1>1. {q[k].n : k \in of} = g + 1 .. a
        <=> /\ \A k \in of : q[k].n \in g + 1 .. a
            /\ \A m \in g + 1 .. a : \E k \in of : q[k].n = m
  OBVIOUS
<1>2. QED
  BY <1>1 DEF Numbered

\* r is q with c put in behind its first i places.
Inserted(q, i, c, r) ==
  /\ Len(r) = Len(q) + 1
  /\ r[i + 1] = c
  /\ \A k \in 1..i : r[k] = q[k]
  /\ \A k \in i + 1..Len(q) : r[k + 1] = q[k]

\* A byte put in between two parts.
LEMMA InsertedBetween ==
  ASSUME NEW p \in Seq(Bytes), NEW r \in Seq(Bytes), NEW c \in Bytes
  PROVE  /\ p \o r \in Seq(Bytes) /\ p \o <<c>> \o r \in Seq(Bytes)
         /\ Len(p) \in 0..Len(p \o r)
         /\ Inserted(p \o r, Len(p), c, p \o <<c>> \o r)
<1> DEFINE q == p \o r
           h == p \o <<c>>
           t == h \o r
<1>1. /\ q \in Seq(Bytes) /\ Len(q) = Len(p) + Len(r)
      /\ \A k \in 1..Len(p) + Len(r) : q[k] = IF k <= Len(p) THEN p[k] ELSE r[k - Len(p)]
  BY ConcatProperties
<1>2. <<c>> \in Seq(Bytes) /\ Len(<<c>>) = 1 /\ <<c>>[1] = c
  OBVIOUS
<1>3. /\ h \in Seq(Bytes) /\ Len(h) = Len(p) + 1
      /\ \A k \in 1..Len(p) + 1 : h[k] = IF k <= Len(p) THEN p[k] ELSE c
  <2>1. /\ h \in Seq(Bytes) /\ Len(h) = Len(p) + Len(<<c>>)
        /\ \A k \in 1..Len(p) + Len(<<c>>) : h[k] = IF k <= Len(p) THEN p[k] ELSE <<c>>[k - Len(p)]
    BY <1>2, ConcatProperties
  <2>2. \A k \in 1..Len(p) + 1 : ~(k <= Len(p)) => k - Len(p) = 1
    BY LenProperties
  <2>3. QED
    BY <1>2, <2>1, <2>2
<1> HIDE DEF q, h
<1>4. /\ t \in Seq(Bytes) /\ Len(t) = Len(h) + Len(r)
      /\ \A k \in 1..Len(h) + Len(r) : t[k] = IF k <= Len(h) THEN h[k] ELSE r[k - Len(h)]
  BY <1>3, ConcatProperties
<1> HIDE DEF t
<1>5. Len(p) \in Nat /\ Len(r) \in Nat
  BY LenProperties
<1>6. Inserted(q, Len(p), c, t)
  <2>1. Len(t) = Len(q) + 1 /\ Len(p) \in 0..Len(q)
    BY <1>1, <1>3, <1>4, <1>5
  <2>2. t[Len(p) + 1] = c
    BY <1>3, <1>4, <1>5
  <2>3. \A k \in 1..Len(p) : t[k] = q[k]
    BY <1>1, <1>3, <1>4, <1>5
  <2>4. ASSUME NEW k \in Len(p) + 1..Len(q) PROVE t[k + 1] = q[k]
    <3>1. k + 1 \in 1..Len(h) + Len(r) /\ ~(k + 1 <= Len(h)) /\ (k + 1) - Len(h) = k - Len(p)
      BY <1>1, <1>3, <1>5
    <3>2. k \in 1..Len(p) + Len(r) /\ ~(k <= Len(p))
      BY <1>1, <1>5
    <3>3. QED
      BY <1>1, <1>4, <3>1, <3>2
  <2>5. QED
    BY <2>1, <2>2, <2>3, <2>4 DEF Inserted
<1>7. QED
  BY <1>1, <1>4, <1>5, <1>6 DEF q, h, t

\* A byte of another source makes no difference, wherever it is put in.
LEMMA InsertOther ==
  ASSUME NEW q \in Seq(Bytes), NEW r \in Seq(Bytes), NEW i \in 0..Len(q), NEW c \in Bytes,
         Inserted(q, i, c, r), NEW s, c.src # s, NEW g \in Nat, NEW a \in Nat
  PROVE  Numbered(q, s, g, a) <=> Numbered(r, s, g, a)
<1> DEFINE to(k) == IF k <= i THEN k ELSE k + 1
<1>1. Len(q) \in Nat /\ DOMAIN q = 1..Len(q) /\ DOMAIN r = 1..Len(q) + 1
  BY LenProperties DEF Inserted
<1>2. \A k \in DOMAIN q : to(k) \in DOMAIN r /\ r[to(k)] = q[k]
  BY <1>1 DEF Inserted
<1>3. \A j, k \in DOMAIN q : j < k <=> to(j) < to(k)
  BY <1>1
<1>4. \A m \in DOMAIN r : r[m].src = s => \E k \in DOMAIN q : m = to(k)
  <2>1. SUFFICES ASSUME NEW m \in DOMAIN r, r[m].src = s PROVE \E k \in DOMAIN q : m = to(k)
    OBVIOUS
  <2>2. m # i + 1
    BY <2>1 DEF Inserted
  <2>3. CASE m <= i
    BY <1>1, <2>3
  <2>4. CASE m > i + 1
    <3>1. m - 1 \in DOMAIN q /\ to(m - 1) = m
      BY <1>1, <2>4
    <3>2. QED
      BY <3>1
  <2>5. QED
    BY <1>1, <2>2, <2>3, <2>4
<1> HIDE DEF to
<1>5. (\A k \in DOMAIN q : q[k].src = s => q[k].n \in g + 1 .. a)
        <=> (\A k \in DOMAIN r : r[k].src = s => r[k].n \in g + 1 .. a)
  BY <1>2, <1>4
<1>6. (\A m \in g + 1 .. a : \E k \in DOMAIN q : q[k].src = s /\ q[k].n = m)
        <=> (\A m \in g + 1 .. a : \E k \in DOMAIN r : r[k].src = s /\ r[k].n = m)
  <2>1. \A m : (\E k \in DOMAIN q : q[k].src = s /\ q[k].n = m)
                 <=> (\E k \in DOMAIN r : r[k].src = s /\ r[k].n = m)
    BY <1>2, <1>4
  <2>2. QED
    BY <2>1
<1>7. (\A j, k \in DOMAIN q : q[j].src = s /\ q[k].src = s /\ j < k => q[j].n < q[k].n)
        <=> (\A j, k \in DOMAIN r : r[j].src = s /\ r[k].src = s /\ j < k => r[j].n < r[k].n)
  BY <1>2, <1>3, <1>4
<1>8. Numbered(q, s, g, a) => Numbered(r, s, g, a)
  <2>1. SUFFICES ASSUME Numbered(q, s, g, a) PROVE Numbered(r, s, g, a)
    OBVIOUS
  <2>2. /\ g <= a
        /\ \A k \in DOMAIN q : q[k].src = s => q[k].n \in g + 1 .. a
        /\ \A m \in g + 1 .. a : \E k \in DOMAIN q : q[k].src = s /\ q[k].n = m
        /\ \A j, k \in DOMAIN q : q[j].src = s /\ q[k].src = s /\ j < k => q[j].n < q[k].n
    BY <2>1, NumberedIs
  <2>3. QED
    BY <1>5, <1>6, <1>7, <2>2, NumberedIs
<1>9. Numbered(r, s, g, a) => Numbered(q, s, g, a)
  <2>1. SUFFICES ASSUME Numbered(r, s, g, a) PROVE Numbered(q, s, g, a)
    OBVIOUS
  <2>2. /\ g <= a
        /\ \A k \in DOMAIN r : r[k].src = s => r[k].n \in g + 1 .. a
        /\ \A m \in g + 1 .. a : \E k \in DOMAIN r : r[k].src = s /\ r[k].n = m
        /\ \A j, k \in DOMAIN r : r[j].src = s /\ r[k].src = s /\ j < k => r[j].n < r[k].n
    BY <2>1, NumberedIs
  <2>3. QED
    BY <1>5, <1>6, <1>7, <2>2, NumberedIs
<1>10. QED
  BY <1>8, <1>9

\* The next byte of its source, with none of them behind it.
LEMMA InsertNext ==
  ASSUME NEW q \in Seq(Bytes), NEW r \in Seq(Bytes), NEW i \in 0..Len(q), NEW c \in Bytes,
         Inserted(q, i, c, r), NEW g \in Nat, NEW a \in Nat, c.n = a + 1,
         \A k \in i + 1..Len(q) : q[k].src # c.src,
         Numbered(q, c.src, g, a)
  PROVE  Numbered(r, c.src, g, a + 1)
<1> DEFINE s == c.src
<1>1. Len(q) \in Nat /\ DOMAIN q = 1..Len(q) /\ DOMAIN r = 1..Len(q) + 1
  BY LenProperties DEF Inserted
<1>2. /\ g <= a
      /\ \A k \in DOMAIN q : q[k].src = s => q[k].n \in g + 1 .. a
      /\ \A m \in g + 1 .. a : \E k \in DOMAIN q : q[k].src = s /\ q[k].n = m
      /\ \A j, k \in DOMAIN q : q[j].src = s /\ q[k].src = s /\ j < k => q[j].n < q[k].n
  BY NumberedIs
<1>3. ASSUME NEW k \in DOMAIN r, r[k].src = s
      PROVE  k = i + 1 \/ (k \in 1..i /\ r[k] = q[k])
  <2>1. CASE k > i + 1
    <3>1. k - 1 \in i + 1..Len(q) /\ (k - 1) + 1 = k
      BY <1>1, <2>1
    <3>2. QED
      BY <1>3, <3>1 DEF Inserted
  <2>2. CASE k <= i + 1
    BY <1>1, <2>2 DEF Inserted
  <2>3. QED
    BY <1>1, <2>1, <2>2
<1>4. r[i + 1] = c /\ i + 1 \in DOMAIN r /\ \A k \in 1..i : k \in DOMAIN q /\ k \in DOMAIN r /\ r[k] = q[k]
  BY <1>1 DEF Inserted
<1>5. ASSUME NEW k \in DOMAIN r, r[k].src = s PROVE r[k].n \in g + 1 .. a + 1
  <2>1. CASE k = i + 1
    BY <1>2, <1>4, <2>1
  <2>2. CASE k \in 1..i /\ r[k] = q[k]
    <3>1. q[k].n \in g + 1 .. a
      BY <1>2, <1>4, <1>5, <2>2
    <3>2. QED
      BY <2>2, <3>1
  <2>3. QED
    BY <1>3, <1>5, <2>1, <2>2
<1>6. ASSUME NEW m \in g + 1 .. a + 1 PROVE \E k \in DOMAIN r : r[k].src = s /\ r[k].n = m
  <2>1. CASE m = a + 1
    BY <1>4, <2>1
  <2>2. CASE m # a + 1
    <3>1. m \in g + 1 .. a
      BY <2>2
    <3>2. PICK k \in DOMAIN q : q[k].src = s /\ q[k].n = m
      BY <1>2, <3>1
    <3>3. k \in 1..i
      BY <1>1, <3>2
    <3>4. QED
      BY <1>4, <3>2, <3>3
  <2>3. QED
    BY <2>1, <2>2
<1>7. ASSUME NEW j \in DOMAIN r, NEW k \in DOMAIN r, r[j].src = s, r[k].src = s, j < k
      PROVE  r[j].n < r[k].n
  <2>1. j \in 1..i /\ r[j] = q[j] /\ q[j].n \in g + 1 .. a
    BY <1>1, <1>2, <1>3, <1>4, <1>7
  <2>2. CASE k = i + 1
    BY <1>4, <2>1, <2>2
  <2>3. CASE k \in 1..i /\ r[k] = q[k]
    BY <1>2, <1>4, <1>7, <2>1, <2>3
  <2>4. QED
    BY <1>3, <1>7, <2>2, <2>3
<1>8. a + 1 \in Nat /\ g <= a + 1
  BY <1>2
<1>9. QED
  BY <1>5, <1>6, <1>7, <1>8, NumberedIs

\* The first byte of the line goes out.
LEMMA SentFirst ==
  ASSUME NEW q \in Seq(Bytes), q # << >>, NEW g \in Nat, NEW a \in Nat,
         Numbered(q, q[1].src, g, a)
  PROVE  q[1].n = g + 1 /\ Numbered(Tail(q), q[1].src, g + 1, a)
<1> DEFINE s == q[1].src
           t == Tail(q)
<1>1. Len(q) \in Nat \ {0} /\ DOMAIN q = 1..Len(q)
  BY EmptySeq, LenProperties
<1>2. /\ g <= a
      /\ \A k \in DOMAIN q : q[k].src = s => q[k].n \in g + 1 .. a
      /\ \A m \in g + 1 .. a : \E k \in DOMAIN q : q[k].src = s /\ q[k].n = m
      /\ \A j, k \in DOMAIN q : q[j].src = s /\ q[k].src = s /\ j < k => q[j].n < q[k].n
  BY NumberedIs
<1>3. t \in Seq(Bytes) /\ Len(t) = Len(q) - 1 /\ \A k \in 1..Len(t) : t[k] = q[k + 1]
  BY HeadTailProperties
<1>4. DOMAIN t = 1..Len(q) - 1
  BY <1>3, LenProperties
<1> HIDE DEF s, t
<1>5. 1 \in DOMAIN q /\ q[1].src = s /\ q[1].n \in g + 1 .. a
  BY <1>1, <1>2 DEF s
<1>6. q[1].n = g + 1
  <2>1. PICK k \in DOMAIN q : q[k].src = s /\ q[k].n = g + 1
    BY <1>2, <1>5
  <2>2. ~(1 < k)
    BY <1>2, <1>5, <2>1
  <2>3. k = 1
    BY <1>1, <2>2
  <2>4. QED
    BY <2>1, <2>3
<1>7. \A k \in DOMAIN t : k + 1 \in DOMAIN q /\ 1 < k + 1 /\ t[k] = q[k + 1]
  BY <1>1, <1>3, <1>4
<1>8. ASSUME NEW k \in DOMAIN t, t[k].src = s PROVE t[k].n \in (g + 1) + 1 .. a
  <2>1. q[k + 1].n \in g + 1 .. a /\ q[1].n < q[k + 1].n
    BY <1>2, <1>5, <1>7, <1>8
  <2>2. QED
    BY <1>6, <1>7, <2>1
<1>9. ASSUME NEW m \in (g + 1) + 1 .. a PROVE \E k \in DOMAIN t : t[k].src = s /\ t[k].n = m
  <2>1. PICK k \in DOMAIN q : q[k].src = s /\ q[k].n = m
    BY <1>2
  <2>2. k # 1
    BY <1>6, <2>1
  <2>3. k - 1 \in DOMAIN t /\ (k - 1) + 1 = k
    BY <1>1, <1>4, <2>2
  <2>4. QED
    BY <1>7, <2>1, <2>3
<1>10. \A j, k \in DOMAIN t : t[j].src = s /\ t[k].src = s /\ j < k => t[j].n < t[k].n
  <2>1. \A j, k \in DOMAIN t : j < k => j + 1 < k + 1
    BY <1>4
  <2>2. QED
    BY <1>2, <1>7, <2>1
<1>11. g + 1 \in Nat /\ g + 1 <= a
  BY <1>5
<1>12. Numbered(t, s, g + 1, a)
  BY <1>8, <1>9, <1>10, <1>11, NumberedIs
<1>13. QED
  BY <1>6, <1>12 DEF s, t

\* For the other sources nothing changes.
LEMMA SentOther ==
  ASSUME NEW q \in Seq(Bytes), q # << >>, NEW s, q[1].src # s, NEW g \in Nat, NEW a \in Nat,
         Numbered(q, s, g, a)
  PROVE  Numbered(Tail(q), s, g, a)
<1> DEFINE t == Tail(q)
<1>1. t \in Seq(Bytes) /\ Len(t) = Len(q) - 1 /\ \A k \in 1..Len(t) : t[k] = q[k + 1]
  BY HeadTailProperties
<1>2. q[1] \in Bytes /\ Len(q) \in Nat \ {0}
  BY EmptySeq, LenProperties, ElementOfSeq
<1> HIDE DEF t
<1>3. Inserted(t, 0, q[1], q)
  <2>1. \A k \in 1..0 : q[k] = t[k]
    OBVIOUS
  <2>2. QED
    BY <1>1, <1>2, <2>1 DEF Inserted
<1>4. 0 \in 0..Len(t)
  BY <1>1, <1>2
<1>5. QED
  BY <1>1, <1>2, <1>3, <1>4, InsertOther DEF t

-----------------------------------------------------------------------------
Ordered == \A s \in Sources : InOrder(s)

\* A byte a source has for the line, put in behind all of its bytes.
LEMMA NextByte ==
  ASSUME UartTypeOK, Ordered, NEW src \in Sources,
         NEW p \in Seq(Bytes), NEW r \in Seq(Bytes), NEW c \in Bytes,
         c = [src |-> src, n |-> said[src] + 1],
         OnTheWay = p \o r, OnTheWay' = p \o <<c>> \o r,
         \A k \in DOMAIN r : r[k].src # src,
         said' = [said EXCEPT ![src] = said[src] + 1], heard' = heard
  PROVE  Ordered'
<1> DEFINE q == p \o r
           z == p \o <<c>> \o r
<1>1. /\ q \in Seq(Bytes) /\ z \in Seq(Bytes) /\ Len(p) \in 0..Len(q)
      /\ Inserted(q, Len(p), c, z)
  BY InsertedBetween
<1>2. /\ c.src = src /\ c.n = said[src] + 1
      /\ \A s \in Sources : said[s] \in Nat /\ heard[s] \in Nat
  BY DEF UartTypeOK
<1>3. \A s \in Sources : Numbered(q, s, heard[s], said[s])
  BY DEF Ordered, InOrder
<1>4. \A k \in Len(p) + 1..Len(q) : q[k].src # src
  <2>1. /\ Len(q) = Len(p) + Len(r) /\ Len(p) \in Nat /\ Len(r) \in Nat /\ DOMAIN r = 1..Len(r)
        /\ \A k \in 1..Len(p) + Len(r) : q[k] = IF k <= Len(p) THEN p[k] ELSE r[k - Len(p)]
    BY ConcatProperties, LenProperties
  <2> HIDE DEF q
  <2>2. \A k \in Len(p) + 1..Len(q) : k - Len(p) \in DOMAIN r /\ q[k] = r[k - Len(p)]
    BY <2>1
  <2>3. QED
    BY <2>2
<1> HIDE DEF q, z
<1>5. ASSUME NEW s \in Sources PROVE Numbered(z, s, heard[s], said'[s])
  <2>1. CASE s = src
    <3>1. Numbered(z, src, heard[src], said[src] + 1)
      BY <1>1, <1>2, <1>3, <1>4, InsertNext
    <3>2. said'[s] = said[src] + 1
      BY <2>1 DEF UartTypeOK
    <3>3. QED
      BY <2>1, <3>1, <3>2
  <2>2. CASE s # src
    <3>1. Numbered(z, s, heard[s], said[s])
      BY <1>1, <1>2, <1>3, <2>2, InsertOther
    <3>2. said'[s] = said[s]
      BY <2>2 DEF UartTypeOK
    <3>3. QED
      BY <3>1, <3>2
  <2>3. QED
    BY <2>1, <2>2
<1>6. OnTheWay' = z
  BY DEF z
<1>7. QED
  BY <1>5, <1>6 DEF Ordered, InOrder

\* The line moves on, or what is on its way only changes hands.
LEMMA SameBytes ==
  ASSUME Ordered, OnTheWay' = OnTheWay, said' = said, heard' = heard
  PROVE  Ordered'
  BY DEF Ordered, InOrder

\* The first byte of all that is on its way goes out.
LEMMA ByteSent ==
  ASSUME UartTypeOK, Ordered, OnTheWay \in Seq(Bytes), OnTheWay # << >>, OnTheWay' = Tail(OnTheWay),
         said' = said, heard' = [heard EXCEPT ![OnTheWay[1].src] = OnTheWay[1].n]
  PROVE  Ordered'
<1> DEFINE q == OnTheWay
           c == q[1]
<1>1. c \in Bytes /\ c.src \in Sources /\ c.n \in Nat
  <2>1. Len(q) \in Nat /\ Len(q) # 0
    BY EmptySeq, LenProperties
  <2>2. 1 \in 1..Len(q)
    BY <2>1
  <2>3. c \in Bytes
    BY <2>2, ElementOfSeq
  <2>4. QED
    BY <2>3 DEF Bytes
<1>2. \A s \in Sources : said[s] \in Nat /\ heard[s] \in Nat /\ Numbered(q, s, heard[s], said[s])
  BY DEF UartTypeOK, Ordered, InOrder
<1> HIDE DEF q
<1>3. q \in Seq(Bytes) /\ q # << >>
  BY DEF q
<1>4. c.n = heard[c.src] + 1 /\ Numbered(Tail(q), c.src, heard[c.src] + 1, said[c.src])
  BY <1>1, <1>2, <1>3, SentFirst
<1>5. ASSUME NEW s \in Sources PROVE Numbered(Tail(q), s, heard'[s], said[s])
  <2>1. CASE s = c.src
    <3>1. heard'[s] = heard[c.src] + 1
      BY <1>1, <1>4, <2>1 DEF UartTypeOK, q
    <3>2. QED
      BY <1>4, <2>1, <3>1
  <2>2. CASE s # c.src
    <3>1. heard'[s] = heard[s]
      BY <1>1, <2>2 DEF UartTypeOK, q
    <3>2. Numbered(Tail(q), s, heard[s], said[s])
      BY <1>2, <1>3, <2>2, SentOther
    <3>3. QED
      BY <3>1, <3>2
  <2>3. QED
    BY <2>1, <2>2
<1>6. OnTheWay' = Tail(q)
  BY DEF q
<1>7. QED
  BY <1>5, <1>6 DEF Ordered, InOrder

\* Two bytes of different sources change places in front of the receiver's.
LEMMA Swap ==
  ASSUME NEW m \in Bytes, NEW c \in Bytes, m.src # c.src, NEW r \in Seq(Bytes),
         NEW s, NEW g \in Nat, NEW a \in Nat,
         Numbered(<<m>> \o <<c>> \o r, s, g, a)
  PROVE  Numbered(<<c>> \o <<m>> \o r, s, g, a)
<1>1. ASSUME NEW x \in Bytes, NEW y \in Bytes
      PROVE  /\ <<y>> \o r \in Seq(Bytes) /\ <<x>> \o <<y>> \o r \in Seq(Bytes)
             /\ 0 \in 0..Len(<<y>> \o r) /\ Inserted(<<y>> \o r, 0, x, <<x>> \o <<y>> \o r)
             /\ 1 \in 0..Len(<<x>> \o r) /\ Inserted(<<x>> \o r, 1, y, <<x>> \o <<y>> \o r)
  <2>1. <<x>> \in Seq(Bytes) /\ <<y>> \in Seq(Bytes) /\ << >> \in Seq(Bytes)
        /\ Len(<<x>>) = 1 /\ Len(<< >>) = 0
    OBVIOUS
  <2>2. <<y>> \o r \in Seq(Bytes)
    BY <2>1, ConcatProperties
  <2>3. << >> \o (<<y>> \o r) = <<y>> \o r /\ << >> \o <<x>> = <<x>>
    BY <2>1, <2>2, ConcatEmptySeq
  <2>4. <<x>> \o <<y>> \o r = << >> \o <<x>> \o (<<y>> \o r)
    BY <2>1, <2>3, ConcatAssociative
  <2>5. /\ 0 \in 0..Len(<<y>> \o r)
        /\ Inserted(<<y>> \o r, 0, x, <<x>> \o <<y>> \o r)
    BY <2>1, <2>2, <2>3, <2>4, InsertedBetween
  <2>6. /\ <<x>> \o <<y>> \o r \in Seq(Bytes)
        /\ 1 \in 0..Len(<<x>> \o r)
        /\ Inserted(<<x>> \o r, 1, y, <<x>> \o <<y>> \o r)
    BY <2>1, InsertedBetween
  <2>7. QED
    BY <2>2, <2>5, <2>6
<1>2. CASE s # m.src
  <2>1. Numbered(<<c>> \o r, s, g, a)
    BY <1>1, <1>2, InsertOther
  <2>2. QED
    BY <1>1, <1>2, <2>1, InsertOther
<1>3. CASE s # c.src
  <2>1. Numbered(<<m>> \o r, s, g, a)
    BY <1>1, <1>3, InsertOther
  <2>2. QED
    BY <1>1, <1>3, <2>1, InsertOther
<1>4. QED
  BY <1>2, <1>3

-----------------------------------------------------------------------------
\* Whose bytes are where, and what a finished poll still knows: the handler's
\* that the transmitter is empty, main's that it holds no more than the one
\* byte of a handler that has run since.
Senders ==
  /\ \A w \in Callers : Len(putting[w]) <= 1 /\ (polled[w] => putting[w] # << >>)
  /\ \A k \in DOMAIN putting["main"] : putting["main"][k].src = "main"
  /\ \A k \in DOMAIN putting["handler"] : putting["handler"][k].src # "main"
  /\ \A k \in DOMAIN rx : rx[k].src = "echo"
  /\ polled["handler"] => tx = << >>
  /\ polled["main"] => Len(tx) <= 1

\* What UartInit leaves behind.
SetUp == ~dlab /\ fifo /\ divisor = <<1, 0>>

\* All of this holds from reset on; the registers are set after UartInit.
OnLine == UartTypeOK /\ Ordered /\ Senders

Running == UartTypeOK /\ Ordered /\ Senders /\ SetUp

\* The parts of what is on its way are sequences of bytes, and so is the whole.
LEMMA Parts ==
  ASSUME UartTypeOK
  PROVE  /\ tx \in Seq(Bytes) /\ rx \in Seq(Bytes)
         /\ putting["main"] \in Seq(Bytes) /\ putting["handler"] \in Seq(Bytes)
         /\ tx \o putting["main"] \in Seq(Bytes)
         /\ tx \o putting["main"] \o putting["handler"] \in Seq(Bytes)
         /\ OnTheWay \in Seq(Bytes)
<1>1. /\ tx \in Seq(Bytes) /\ rx \in Seq(Bytes)
      /\ putting["main"] \in Seq(Bytes) /\ putting["handler"] \in Seq(Bytes)
  BY DEF UartTypeOK, Callers
<1>2. tx \o putting["main"] \in Seq(Bytes)
  BY <1>1, ConcatProperties
<1>3. tx \o putting["main"] \o putting["handler"] \in Seq(Bytes)
  BY <1>1, <1>2, ConcatProperties
<1>4. OnTheWay \in Seq(Bytes)
  BY <1>1, <1>3, ConcatProperties DEF OnTheWay
<1>5. QED
  BY <1>1, <1>2, <1>3, <1>4

\* A sequence that is not empty and not longer than one byte.
LEMMA OneByte ==
  ASSUME NEW s \in Seq(Bytes), Len(s) <= 1, s # << >>
  PROVE  s = <<s[1]>> /\ s[1] \in Bytes /\ 1 \in DOMAIN s
<1>1. Len(s) = 1 /\ DOMAIN s = 1..1
  BY EmptySeq, LenProperties
<1>2. s[1] \in Bytes
  BY <1>1, ElementOfSeq
<1>3. s = <<s[1]>>
  <2>1. <<s[1]>> \in Seq(Bytes) /\ Len(<<s[1]>>) = 1 /\ <<s[1]>>[1] = s[1]
    BY <1>2
  <2>2. QED
    BY <1>1, <2>1, SeqEqual
<1>4. QED
  BY <1>1, <1>2, <1>3

\* What a step may change once the registers are set.
LEMMA TypeKept ==
  ASSUME UartTypeOK, UNCHANGED <<dlab, divisor, fifo, rdi>>,
         tx' \in Seq(Bytes), rx' \in Seq(Bytes), Len(tx') <= Depth, Len(rx') <= Depth,
         putting' \in [Callers -> Seq(Bytes)], polled' \in [Callers -> BOOLEAN],
         said' \in [Sources -> Nat], heard' \in [Sources -> Nat]
  PROVE  UartTypeOK'
<1>1. Depth' = Depth
  BY DEF Depth
<1>2. QED
  BY <1>1 DEF UartTypeOK

\* A source that has had one more byte.
LEMMA SaidMore ==
  ASSUME UartTypeOK, NEW s \in Sources
  PROVE  [said EXCEPT ![s] = said[s] + 1] \in [Sources -> Nat]
  BY DEF UartTypeOK

\* Another byte in somebody's hands.
LEMMA PutType ==
  ASSUME UartTypeOK, NEW w \in Callers, NEW z \in Seq(Bytes)
  PROVE  [putting EXCEPT ![w] = z] \in [Callers -> Seq(Bytes)]
  BY DEF UartTypeOK

\* printf, on the main thread.
LEMMA MainSays ==
  ASSUME Running, Idle("main"), Putc("main", [src |-> "main", n |-> said["main"] + 1]),
         said' = [said EXCEPT !["main"] = said["main"] + 1],
         UNCHANGED <<uartRegs, tx, rx, polled, heard>>
  PROVE  Running'
<1> DEFINE c == [src |-> "main", n |-> said["main"] + 1]
           h == putting["handler"]
           r == h \o rx
<1>1. c \in Bytes /\ said["main"] \in Nat
  BY DEF Running, UartTypeOK, Bytes, Sources
<1>2. /\ putting["main"] = << >> /\ putting'["main"] = <<c>> /\ putting'["handler"] = h
      /\ putting' = [putting EXCEPT !["main"] = <<c>>]
      /\ <<c>> \in Seq(Bytes) /\ Len(<<c>>) = 1 /\ <<c>> # << >>
  BY <1>1 DEF Running, UartTypeOK, Idle, Putc, Callers
<1>3. tx \in Seq(Bytes) /\ rx \in Seq(Bytes) /\ h \in Seq(Bytes) /\ r \in Seq(Bytes)
  BY Parts, ConcatProperties DEF Running
<1> HIDE DEF c, h
<1>4. OnTheWay = tx \o r /\ OnTheWay' = tx \o <<c>> \o r
  <2>1. tx \o << >> = tx
    BY <1>3, ConcatEmptySeq
  <2>2. tx \o <<c>> \in Seq(Bytes)
    BY <1>2, <1>3, ConcatProperties
  <2>3. OnTheWay = (tx \o h) \o rx /\ OnTheWay' = ((tx \o <<c>>) \o h) \o rx
    BY <1>2, <2>1 DEF OnTheWay, h
  <2>4. (tx \o h) \o rx = tx \o (h \o rx)
    BY <1>3, ConcatAssociative
  <2>5. ((tx \o <<c>>) \o h) \o rx = (tx \o <<c>>) \o (h \o rx)
    BY <1>3, <2>2, ConcatAssociative
  <2>6. QED
    BY <2>3, <2>4, <2>5
<1>5. \A k \in DOMAIN r : r[k].src # "main"
  <2>1. /\ Len(r) = Len(h) + Len(rx) /\ Len(h) \in Nat /\ Len(rx) \in Nat
        /\ DOMAIN r = 1..Len(r) /\ DOMAIN h = 1..Len(h) /\ DOMAIN rx = 1..Len(rx)
        /\ \A k \in 1..Len(h) + Len(rx) : r[k] = IF k <= Len(h) THEN h[k] ELSE rx[k - Len(h)]
    BY <1>3, ConcatProperties, LenProperties
  <2>2. (\A k \in 1..Len(h) : h[k].src # "main") /\ (\A k \in 1..Len(rx) : rx[k].src # "main")
    BY <2>1 DEF Running, Senders, h
  <2> HIDE DEF r
  <2>3. ASSUME NEW k \in DOMAIN r PROVE r[k].src # "main"
    <3>1. CASE k <= Len(h)
      BY <2>1, <2>2, <3>1
    <3>2. CASE ~(k <= Len(h))
      BY <2>1, <2>2, <3>2
    <3>3. QED
      BY <3>1, <3>2
  <2>4. QED
    BY <2>3
<1>6. Ordered'
  BY <1>1, <1>3, <1>4, <1>5, NextByte DEF Running, Sources, c
<1>7. UartTypeOK'
  <2>1. said' \in [Sources -> Nat] /\ putting' \in [Callers -> Seq(Bytes)]
    BY <1>2, SaidMore, PutType DEF Running, Sources, Callers
  <2>2. /\ tx' = tx /\ rx' = rx /\ polled' = polled /\ heard' = heard
        /\ UNCHANGED <<dlab, divisor, fifo, rdi>>
    BY DEF uartRegs
  <2>3. /\ tx \in Seq(Bytes) /\ rx \in Seq(Bytes) /\ Len(tx) <= Depth /\ Len(rx) <= Depth
        /\ polled \in [Callers -> BOOLEAN] /\ heard \in [Sources -> Nat]
    BY DEF Running, UartTypeOK
  <2>4. QED
    BY <2>1, <2>2, <2>3, TypeKept DEF Running
<1>8. Senders'
  <2>1. c.src = "main" /\ \A k \in DOMAIN <<c>> : <<c>>[k] = c
    BY DEF c
  <2>2. QED
    BY <1>2, <2>1 DEF Running, Senders, Callers, h
<1>9. QED
  BY <1>6, <1>7, <1>8 DEF Running, SetUp, uartRegs

\* printf, in virtio_pci_blk_intr.
LEMMA IsrSays ==
  ASSUME Running, Idle("handler"), Putc("handler", [src |-> "isr", n |-> said["isr"] + 1]),
         said' = [said EXCEPT !["isr"] = said["isr"] + 1],
         UNCHANGED <<uartRegs, tx, rx, polled, heard>>
  PROVE  Running'
<1> DEFINE c == [src |-> "isr", n |-> said["isr"] + 1]
           p == tx \o putting["main"]
<1>1. c \in Bytes /\ said["isr"] \in Nat
  BY DEF Running, UartTypeOK, Bytes, Sources
<1>2. /\ putting["handler"] = << >> /\ putting'["handler"] = <<c>> /\ putting'["main"] = putting["main"]
      /\ putting' = [putting EXCEPT !["handler"] = <<c>>]
      /\ <<c>> \in Seq(Bytes) /\ Len(<<c>>) = 1 /\ <<c>> # << >>
  BY <1>1 DEF Running, UartTypeOK, Idle, Putc, Callers
<1>3. rx \in Seq(Bytes) /\ p \in Seq(Bytes)
  BY Parts DEF Running
<1> HIDE DEF c
<1>4. OnTheWay = p \o rx /\ OnTheWay' = p \o <<c>> \o rx
  <2>1. p \o << >> = p
    BY <1>3, ConcatEmptySeq
  <2>2. QED
    BY <1>2, <2>1 DEF OnTheWay
<1> HIDE DEF p
<1>5. \A k \in DOMAIN rx : rx[k].src # "isr"
  BY DEF Running, Senders
<1>6. Ordered'
  BY <1>1, <1>3, <1>4, <1>5, NextByte DEF Running, Sources, c
<1>7. UartTypeOK'
  <2>1. said' \in [Sources -> Nat] /\ putting' \in [Callers -> Seq(Bytes)]
    BY <1>2, SaidMore, PutType DEF Running, Sources, Callers
  <2>2. /\ tx' = tx /\ rx' = rx /\ polled' = polled /\ heard' = heard
        /\ UNCHANGED <<dlab, divisor, fifo, rdi>>
    BY DEF uartRegs
  <2>3. /\ tx \in Seq(Bytes) /\ rx \in Seq(Bytes) /\ Len(tx) <= Depth /\ Len(rx) <= Depth
        /\ polled \in [Callers -> BOOLEAN] /\ heard \in [Sources -> Nat]
    BY DEF Running, UartTypeOK
  <2>4. QED
    BY <2>1, <2>2, <2>3, TypeKept DEF Running
<1>8. Senders'
  <2>1. c.src # "main" /\ \A k \in DOMAIN <<c>> : <<c>>[k] = c
    BY DEF c
  <2>2. ~polled["handler"]
    BY <1>2 DEF Running, Senders, Callers
  <2>3. QED
    BY <1>2, <2>1, <2>2 DEF Running, Senders, Callers
<1>9. QED
  BY <1>6, <1>7, <1>8 DEF Running, SetUp, uartRegs

\* UartIsr takes a byte from the receiver and hands it to UartPutc.
LEMMA EchoKeeps ==
  ASSUME Running, Idle("handler"), UartEcho
  PROVE  Running'
<1> DEFINE c == rx[1]
           p == tx \o putting["main"]
<1>1. rx \in Seq(Bytes) /\ rx # << >> /\ p \in Seq(Bytes)
  BY Parts DEF Running, UartEcho, DR
<1>2. /\ Len(rx) \in Nat \ {0} /\ DOMAIN rx = 1..Len(rx) /\ c \in Bytes
      /\ Tail(rx) \in Seq(Bytes) /\ Len(Tail(rx)) = Len(rx) - 1
      /\ \A k \in 1..Len(rx) - 1 : Tail(rx)[k] = rx[k + 1]
      /\ DOMAIN Tail(rx) = 1..Len(rx) - 1
  <2>1. Len(rx) \in Nat \ {0} /\ DOMAIN rx = 1..Len(rx)
    BY <1>1, EmptySeq, LenProperties
  <2>2. c \in Bytes
    BY <1>1, <2>1, ElementOfSeq
  <2>3. /\ Tail(rx) \in Seq(Bytes) /\ Len(Tail(rx)) = Len(rx) - 1
        /\ \A k \in 1..Len(Tail(rx)) : Tail(rx)[k] = rx[k + 1]
    BY <1>1, HeadTailProperties
  <2>4. DOMAIN Tail(rx) = 1..Len(rx) - 1
    BY <2>3, LenProperties
  <2>5. QED
    BY <2>1, <2>2, <2>3, <2>4
<1>3. /\ rx' = Tail(rx)
      /\ putting["handler"] = << >> /\ putting'["handler"] = <<c>> /\ putting'["main"] = putting["main"]
      /\ putting' = [putting EXCEPT !["handler"] = <<c>>]
      /\ <<c>> \in Seq(Bytes) /\ Len(<<c>>) = 1 /\ <<c>> # << >>
      /\ UNCHANGED <<dlab, divisor, fifo, rdi, tx, polled, said, heard>>
  BY <1>2 DEF Running, UartTypeOK, Idle, Putc, Callers, UartEcho, uartRegs
<1>4. rx = <<c>> \o Tail(rx)
  <2> DEFINE z == <<c>> \o Tail(rx)
  <2>1. /\ z \in Seq(Bytes) /\ Len(z) = 1 + Len(Tail(rx))
        /\ \A k \in 1..1 + Len(Tail(rx)) : z[k] = IF k <= 1 THEN <<c>>[k] ELSE Tail(rx)[k - 1]
    BY <1>2, <1>3, ConcatProperties
  <2> HIDE DEF z
  <2>2. \A k \in 1..Len(rx) : k <= 1 => <<c>>[k] = rx[k]
    OBVIOUS
  <2>3. \A k \in 1..Len(rx) : ~(k <= 1) => k - 1 \in 1..Len(rx) - 1 /\ Tail(rx)[k - 1] = rx[(k - 1) + 1]
    BY <1>2
  <2>4. \A k \in 1..Len(rx) : z[k] = rx[k]
    BY <1>2, <2>1, <2>2, <2>3
  <2>5. Len(z) = Len(rx)
    BY <1>2, <2>1
  <2>6. QED
    BY <1>1, <2>1, <2>4, <2>5, SeqEqual DEF z
<1> HIDE DEF c
<1>5. OnTheWay' = OnTheWay
  <2>1. p \o << >> = p
    BY <1>1, ConcatEmptySeq
  <2>2. OnTheWay = p \o rx
    BY <1>3, <2>1 DEF OnTheWay
  <2>3. OnTheWay' = (p \o <<c>>) \o Tail(rx)
    BY <1>3 DEF OnTheWay
  <2> HIDE DEF p
  <2>4. (p \o <<c>>) \o Tail(rx) = p \o (<<c>> \o Tail(rx))
    BY <1>1, <1>2, <1>3, ConcatAssociative
  <2>5. QED
    BY <1>4, <2>2, <2>3, <2>4
<1>6. Ordered'
  BY <1>3, <1>5, SameBytes DEF Running
<1>7. UartTypeOK'
  <2>1. putting' \in [Callers -> Seq(Bytes)]
    BY <1>3, PutType DEF Running, Callers
  <2>2. /\ tx \in Seq(Bytes) /\ Len(tx) <= Depth /\ Len(rx) <= Depth
        /\ polled \in [Callers -> BOOLEAN] /\ heard \in [Sources -> Nat] /\ said \in [Sources -> Nat]
    BY DEF Running, UartTypeOK
  <2>3. Depth \in Int
    BY FifoAssumption DEF Depth
  <2>4. Len(Tail(rx)) <= Depth
    BY <1>2, <2>2, <2>3
  <2>5. QED
    BY <1>2, <1>3, <2>1, <2>2, <2>4, TypeKept DEF Running
<1>8. Senders'
  <2>1. c.src # "main" /\ \A k \in DOMAIN <<c>> : <<c>>[k] = c
    BY <1>2 DEF Running, Senders, c
  <2>2. ~polled["handler"]
    BY <1>3 DEF Running, Senders, Callers
  <2>3. \A k \in DOMAIN Tail(rx) : Tail(rx)[k].src = "echo"
    BY <1>2 DEF Running, Senders
  <2>4. QED
    BY <1>3, <2>1, <2>2, <2>3 DEF Running, Senders, Callers
<1>9. QED
  BY <1>3, <1>6, <1>7, <1>8 DEF Running, SetUp

\* The poll of UartPutc succeeds.
LEMMA PollKeeps ==
  ASSUME Running, NEW w \in Callers, PutcPoll(w)
  PROVE  Running'
<1>1. /\ polled' = [polled EXCEPT ![w] = TRUE] /\ tx = << >> /\ putting[w] # << >>
      /\ UNCHANGED <<dlab, divisor, fifo, rdi, tx, rx, putting, said, heard>>
  BY DEF PutcPoll, THRE, Idle, uartRegs
<1>2. Len(tx) = 0
  BY <1>1
<1>3. Ordered'
  BY <1>1, SameBytes DEF Running, OnTheWay
<1>4. UartTypeOK'
  BY <1>1 DEF Running, UartTypeOK, Depth
<1>5. Senders'
  BY <1>1, <1>2 DEF Running, UartTypeOK, Senders, Callers
<1>6. QED
  BY <1>1, <1>3, <1>4, <1>5 DEF Running, SetUp

\* The write of a byte whose place in the transmitter the poll has found.
LEMMA StoreTakes ==
  ASSUME Running, NEW w \in Callers, PutcStore(w)
  PROVE  /\ putting[w] = <<putting[w][1]>> /\ putting[w][1] \in Bytes
         /\ tx' = tx \o putting[w] /\ Len(tx') = Len(tx) + 1
         /\ Len(tx) <= 1 /\ (w = "handler" => tx = << >>)
         /\ putting' = [putting EXCEPT ![w] = << >>]
         /\ polled' = [polled EXCEPT ![w] = FALSE]
         /\ UNCHANGED <<dlab, divisor, fifo, rdi, rx, said, heard>>
<1>1. polled[w] /\ putting[w] \in Seq(Bytes) /\ Len(putting[w]) <= 1 /\ putting[w] # << >>
  BY DEF PutcStore, Running, UartTypeOK, Senders
<1>2. putting[w] = <<putting[w][1]>> /\ putting[w][1] \in Bytes
  BY <1>1, OneByte
<1>3. Len(tx) <= 1 /\ (w = "handler" => tx = << >>) /\ Len(tx) \in Nat /\ tx \in Seq(Bytes)
  <2>1. tx \in Seq(Bytes)
    BY DEF Running, UartTypeOK
  <2>2. Len(<< >>) = 0 /\ Len(tx) \in Nat
    BY <2>1, LenProperties
  <2>3. w \in {"main", "handler"}
    BY DEF Callers
  <2>4. QED
    BY <1>1, <2>1, <2>2, <2>3 DEF Running, Senders
<1>4. Len(tx) < Depth
  BY <1>3, FifoAssumption DEF Running, SetUp, Depth
<1>5. tx' = Append(tx, putting[w][1]) /\ UNCHANGED <<dlab, divisor, fifo, rdi, rx, said, heard>>
  BY <1>4 DEF PutcStore, Transmit, Running, SetUp
<1>6. tx' = tx \o <<putting[w][1]>>
  BY <1>2, <1>3, <1>5, AppendIsConcat
<1>7. Len(tx') = Len(tx) + 1
  BY <1>2, <1>3, <1>5, AppendProperties
<1>8. putting' = [putting EXCEPT ![w] = << >>] /\ polled' = [polled EXCEPT ![w] = FALSE]
  BY DEF PutcStore
<1>9. QED
  BY <1>2, <1>3, <1>5, <1>6, <1>7, <1>8

\* The order on the line is kept when the handler has nothing in its hands,
\* and when it overtakes the byte of the main thread it has interrupted.
LEMMA StoreKeeps ==
  ASSUME Running, NEW w \in Callers, PutcStore(w), w = "main" => Idle("handler")
  PROVE  Running'
<1>1. /\ putting[w] = <<putting[w][1]>> /\ putting[w][1] \in Bytes
      /\ tx' = tx \o putting[w] /\ Len(tx') = Len(tx) + 1
      /\ Len(tx) <= 1 /\ (w = "handler" => tx = << >>)
      /\ putting' = [putting EXCEPT ![w] = << >>]
      /\ polled' = [polled EXCEPT ![w] = FALSE]
      /\ UNCHANGED <<dlab, divisor, fifo, rdi, rx, said, heard>>
  BY StoreTakes
<1>2. /\ tx \in Seq(Bytes) /\ rx \in Seq(Bytes)
      /\ putting["main"] \in Seq(Bytes) /\ putting["handler"] \in Seq(Bytes)
      /\ tx \o putting["main"] \in Seq(Bytes)
  BY Parts DEF Running
<1>3. << >> \in Seq(Bytes) /\ Len(<< >>) = 0 /\ Len(tx) \in Nat
  BY <1>2, LenProperties
<1>4. UartTypeOK'
  <2>1. putting' \in [Callers -> Seq(Bytes)] /\ polled' \in [Callers -> BOOLEAN]
    <3>1. putting' \in [Callers -> Seq(Bytes)]
      BY <1>1, <1>3, PutType DEF Running
    <3>2. polled' \in [Callers -> BOOLEAN]
      BY <1>1 DEF Running, UartTypeOK
    <3>3. QED
      BY <3>1, <3>2
  <2>2. tx' \in Seq(Bytes) /\ Len(tx') <= Depth
    <3>1. putting[w] \in Seq(Bytes)
      BY DEF Running, UartTypeOK
    <3>2. tx' \in Seq(Bytes)
      BY <1>1, <1>2, <3>1, ConcatProperties
    <3>3. QED
      BY <1>1, <1>3, <3>2, FifoAssumption DEF Running, SetUp, Depth
  <2>3. /\ rx' \in Seq(Bytes) /\ Len(rx') <= Depth
        /\ said' \in [Sources -> Nat] /\ heard' \in [Sources -> Nat]
    BY <1>1 DEF Running, UartTypeOK
  <2>4. QED
    BY <1>1, <2>1, <2>2, <2>3, TypeKept DEF Running
<1>5. CASE w = "main"
  <2>1. putting["handler"] = << >> /\ putting'["handler"] = << >> /\ putting'["main"] = << >>
    BY <1>1, <1>5 DEF Idle, Running, UartTypeOK, Callers
  <2>2. OnTheWay' = OnTheWay
    <3>1. tx' \o << >> = tx'
      BY <1>1, <1>2, <1>5, ConcatEmptySeq
    <3>2. QED
      BY <1>1, <1>5, <2>1, <3>1 DEF OnTheWay
  <2>3. Ordered'
    BY <1>1, <2>2, SameBytes DEF Running
  <2>4. ~polled["handler"] /\ ~polled'["handler"] /\ ~polled'["main"]
    BY <1>1, <1>5, <2>1 DEF Running, UartTypeOK, Senders, Callers
  <2>5. Senders'
    BY <1>1, <1>3, <2>1, <2>4 DEF Senders, Running, Callers
  <2>6. QED
    BY <1>1, <1>4, <2>3, <2>5 DEF Running, SetUp
<1>6. CASE w = "handler"
  <2> DEFINE c == putting["handler"][1]
             mm == putting["main"]
  <2>1. /\ putting["handler"] = <<c>> /\ c \in Bytes /\ tx = << >> /\ tx' = <<c>>
        /\ putting'["handler"] = << >> /\ putting'["main"] = mm /\ rx' = rx
    <3>1. << >> \o <<c>> = <<c>>
      BY <1>1, <1>2, <1>6, ConcatEmptySeq
    <3>2. QED
      BY <1>1, <1>6, <3>1 DEF Running, UartTypeOK, Callers
  <2>2. c.src # "main"
    <3>1. 1 \in DOMAIN putting["handler"]
      BY <1>2, <2>1, OneByte, <1>1, <1>6 DEF Running, Senders, Callers
    <3>2. QED
      BY <3>1 DEF Running, Senders
  <2>3. mm = << >> \/ (mm = <<mm[1]>> /\ mm[1] \in Bytes /\ mm[1].src = "main")
    <3>1. Len(mm) <= 1
      BY DEF Running, Senders, Callers
    <3>2. mm # << >> => mm = <<mm[1]>> /\ mm[1] \in Bytes /\ 1 \in DOMAIN mm
      BY <1>2, <3>1, OneByte
    <3>3. QED
      BY <3>2 DEF Running, Senders
  <2> HIDE DEF c, mm
  <2>4. <<c>> \in Seq(Bytes) /\ mm \in Seq(Bytes)
    BY <1>2, <2>1 DEF mm
  <2>5. OnTheWay = mm \o <<c>> \o rx /\ OnTheWay' = <<c>> \o mm \o rx
    <3>1. << >> \o mm = mm
      BY <2>4, ConcatEmptySeq
    <3>2. (<<c>> \o mm) \o << >> = <<c>> \o mm
      <4>1. <<c>> \o mm \in Seq(Bytes)
        BY <2>4, ConcatProperties
      <4>2. QED
        BY <4>1, ConcatEmptySeq
    <3>3. OnTheWay = ((<< >> \o mm) \o <<c>>) \o rx
      BY <2>1 DEF OnTheWay, mm
    <3>4. OnTheWay' = ((<<c>> \o mm) \o << >>) \o rx
      BY <2>1 DEF OnTheWay
    <3>5. QED
      BY <3>1, <3>2, <3>3, <3>4
  <2>6. \A s \in Sources : heard[s] \in Nat /\ said[s] \in Nat
    BY DEF Running, UartTypeOK
  <2>7. Ordered'
    <3>1. CASE mm = << >>
      <4>1. << >> \o <<c>> = <<c>> /\ <<c>> \o << >> = <<c>>
        BY <2>4, ConcatEmptySeq
      <4>2. OnTheWay' = OnTheWay
        BY <2>5, <3>1, <4>1
      <4>3. QED
        BY <1>1, <4>2, SameBytes DEF Running
    <3>2. CASE mm # << >>
      <4> DEFINE m == mm[1]
      <4>1. mm = <<m>> /\ m \in Bytes /\ m.src # c.src
        BY <2>2, <2>3, <3>2
      <4> HIDE DEF m
      <4>2. OnTheWay = <<m>> \o <<c>> \o rx /\ OnTheWay' = <<c>> \o <<m>> \o rx
        BY <2>5, <4>1
      <4>3. ASSUME NEW s \in Sources PROVE Numbered(<<c>> \o <<m>> \o rx, s, heard[s], said[s])
        <5>1. Numbered(<<m>> \o <<c>> \o rx, s, heard[s], said[s])
          BY <4>2 DEF Running, Ordered, InOrder
        <5>2. QED
          BY <1>2, <2>1, <2>6, <4>1, <5>1, Swap
      <4>4. QED
        BY <1>1, <4>2, <4>3 DEF Ordered, InOrder
    <3>3. QED
      BY <3>1, <3>2
  <2>8. ~polled'["handler"] /\ polled'["main"] = polled["main"] /\ Len(tx') <= 1
    BY <1>1, <1>3, <1>6, <2>1 DEF Running, UartTypeOK, Callers
  <2>9. Senders'
    BY <1>1, <1>3, <2>1, <2>8 DEF Senders, Running, Callers, mm
  <2>10. QED
    BY <1>1, <1>4, <2>7, <2>9 DEF Running, SetUp
<1>7. QED
  BY <1>5, <1>6 DEF Callers

\* The first byte of what is put together is the first byte of the front.
LEMMA TailOfConcat ==
  ASSUME NEW s \in Seq(Bytes), s # << >>, NEW t \in Seq(Bytes)
  PROVE  s \o t # << >> /\ (s \o t)[1] = s[1] /\ Tail(s \o t) = Tail(s) \o t
<1> DEFINE z == s \o t
           e == Tail(s) \o t
<1>1. Len(s) \in Nat \ {0} /\ Len(t) \in Nat
  BY EmptySeq, LenProperties
<1>2. /\ z \in Seq(Bytes) /\ Len(z) = Len(s) + Len(t)
      /\ \A k \in 1..Len(s) + Len(t) : z[k] = IF k <= Len(s) THEN s[k] ELSE t[k - Len(s)]
  BY ConcatProperties
<1>3. /\ Tail(s) \in Seq(Bytes) /\ Len(Tail(s)) = Len(s) - 1
      /\ \A k \in 1..Len(Tail(s)) : Tail(s)[k] = s[k + 1]
  BY HeadTailProperties
<1>4. /\ e \in Seq(Bytes) /\ Len(e) = Len(Tail(s)) + Len(t)
      /\ \A k \in 1..Len(Tail(s)) + Len(t) :
           e[k] = IF k <= Len(Tail(s)) THEN Tail(s)[k] ELSE t[k - Len(Tail(s))]
  BY <1>3, ConcatProperties
<1> HIDE DEF z, e
<1>5. z # << >> /\ z[1] = s[1]
  BY <1>1, <1>2
<1>6. /\ Tail(z) \in Seq(Bytes) /\ Len(Tail(z)) = Len(z) - 1
      /\ \A k \in 1..Len(Tail(z)) : Tail(z)[k] = z[k + 1]
  BY <1>2, <1>5, HeadTailProperties
<1>7. Len(Tail(z)) = Len(e)
  BY <1>1, <1>2, <1>3, <1>4, <1>6
<1>8. ASSUME NEW k \in 1..Len(e) PROVE Tail(z)[k] = e[k]
  <2>1. Tail(z)[k] = z[k + 1] /\ k + 1 \in 1..Len(s) + Len(t)
    BY <1>1, <1>2, <1>6, <1>7
  <2>2. CASE k <= Len(s) - 1
    BY <1>1, <1>2, <1>3, <1>4, <2>1, <2>2
  <2>3. CASE ~(k <= Len(s) - 1)
    <3>1. (k + 1) - Len(s) = k - Len(Tail(s)) /\ ~(k <= Len(Tail(s))) /\ ~(k + 1 <= Len(s))
      BY <1>1, <1>3, <2>3
    <3>2. QED
      BY <1>2, <1>4, <2>1, <3>1
  <2>4. QED
    BY <2>2, <2>3
<1>9. Tail(z) = e
  BY <1>4, <1>6, <1>7, <1>8, SeqEqual
<1>10. QED
  BY <1>5, <1>9 DEF z, e

\* The transmitter sends its first byte.
LEMMA ShiftKeeps ==
  ASSUME Running, Shift
  PROVE  Running'
<1> DEFINE x == putting["main"]
           y == putting["handler"]
<1>1. /\ tx # << >> /\ tx' = Tail(tx)
      /\ heard' = [heard EXCEPT ![tx[1].src] = tx[1].n]
      /\ UNCHANGED <<dlab, divisor, fifo, rdi, rx, putting, polled, said>>
  BY DEF Shift, Running, SetUp, uartRegs
<1>2. /\ tx \in Seq(Bytes) /\ rx \in Seq(Bytes) /\ x \in Seq(Bytes) /\ y \in Seq(Bytes)
      /\ tx \o x \in Seq(Bytes) /\ tx \o x \o y \in Seq(Bytes) /\ OnTheWay \in Seq(Bytes)
      /\ OnTheWay = ((tx \o x) \o y) \o rx
  BY Parts DEF Running, OnTheWay
<1> HIDE DEF x, y
<1>4. /\ OnTheWay # << >> /\ OnTheWay[1] = tx[1]
      /\ Tail(OnTheWay) = ((Tail(tx) \o x) \o y) \o rx
  <2> DEFINE u == tx \o x
             v == u \o y
  <2>1. u # << >> /\ u[1] = tx[1] /\ Tail(u) = Tail(tx) \o x /\ u \in Seq(Bytes)
    BY <1>1, <1>2, TailOfConcat, ConcatProperties
  <2>2. OnTheWay = v \o rx
    BY <1>2
  <2> HIDE DEF u
  <2>3. v # << >> /\ v[1] = u[1] /\ Tail(v) = Tail(u) \o y /\ v \in Seq(Bytes)
    BY <1>2, <2>1, TailOfConcat, ConcatProperties
  <2> HIDE DEF v
  <2>4. /\ v \o rx # << >> /\ (v \o rx)[1] = v[1] /\ Tail(v \o rx) = Tail(v) \o rx
    BY <1>2, <2>3, TailOfConcat
  <2>5. QED
    BY <2>1, <2>2, <2>3, <2>4
<1>5. OnTheWay' = Tail(OnTheWay)
  BY <1>1, <1>4 DEF OnTheWay, x, y
<1>6. Ordered'
  BY <1>1, <1>2, <1>4, <1>5, ByteSent DEF Running
<1>7. tx' \in Seq(Bytes) /\ Len(tx') = Len(tx) - 1 /\ Len(tx) \in Nat /\ tx[1] \in Bytes
  <2>1. Len(tx) \in Nat \ {0}
    BY <1>1, <1>2, EmptySeq, LenProperties
  <2>2. tx[1] \in Bytes
    BY <1>2, <2>1, ElementOfSeq
  <2>3. QED
    BY <1>1, <1>2, <2>1, <2>2, HeadTailProperties
<1>8. UartTypeOK'
  <2>1. heard' \in [Sources -> Nat]
    BY <1>1, <1>7 DEF Running, UartTypeOK, Bytes
  <2>2. /\ rx' \in Seq(Bytes) /\ Len(rx') <= Depth /\ Len(tx) <= Depth
        /\ putting' \in [Callers -> Seq(Bytes)] /\ polled' \in [Callers -> BOOLEAN]
        /\ said' \in [Sources -> Nat]
    BY <1>1 DEF Running, UartTypeOK
  <2>3. Len(tx') <= Depth
    BY <1>7, <2>2, FifoAssumption DEF Depth
  <2>4. QED
    BY <1>1, <1>7, <2>1, <2>2, <2>3, TypeKept DEF Running
<1>9. Senders'
  BY <1>1, <1>7 DEF Running, Senders
<1>10. QED
  BY <1>1, <1>6, <1>8, <1>9 DEF Running, SetUp

\* A byte comes in.
LEMMA ReceiveKeeps ==
  ASSUME OnLine, Receive
  PROVE  OnLine'
<1> DEFINE c == [src |-> "echo", n |-> said["echo"] + 1]
           p == tx \o putting["main"] \o putting["handler"]
<1>1. c \in Bytes
  BY DEF OnLine, UartTypeOK, Bytes, Sources
<1>2. /\ Len(rx) < Depth /\ rx' = Append(rx, c)
      /\ said' = [said EXCEPT !["echo"] = said["echo"] + 1]
      /\ UNCHANGED <<dlab, divisor, fifo, rdi, tx, putting, polled, heard>>
  BY DEF Receive, uartRegs
<1>3. p \in Seq(Bytes) /\ rx \in Seq(Bytes) /\ p \o rx \in Seq(Bytes) /\ << >> \in Seq(Bytes)
      /\ OnTheWay = p \o rx /\ <<c>> \in Seq(Bytes)
  BY <1>1, Parts DEF OnLine, OnTheWay
<1>4. OnTheWay' = p \o rx'
  BY <1>2 DEF OnTheWay
<1> HIDE DEF c, p
<1>5. /\ rx' = rx \o <<c>> /\ rx' \in Seq(Bytes) /\ Len(rx') = Len(rx) + 1
      /\ \A k \in 1..Len(rx) + 1 : rx'[k] = IF k <= Len(rx) THEN rx[k] ELSE c
      /\ Len(rx) \in Nat /\ DOMAIN rx = 1..Len(rx) /\ DOMAIN rx' = 1..Len(rx) + 1
  BY <1>1, <1>2, <1>3, AppendIsConcat, AppendProperties, LenProperties
<1>6. OnTheWay = (p \o rx) \o << >> /\ OnTheWay' = (p \o rx) \o <<c>> \o << >>
  <2>1. (p \o rx) \o <<c>> = p \o (rx \o <<c>>)
    BY <1>3, ConcatAssociative
  <2>2. (p \o rx) \o <<c>> \in Seq(Bytes)
    BY <1>3, ConcatProperties
  <2>3. ((p \o rx) \o <<c>>) \o << >> = (p \o rx) \o <<c>> /\ (p \o rx) \o << >> = p \o rx
    BY <1>3, <2>2, ConcatEmptySeq
  <2>4. QED
    BY <1>3, <1>4, <1>5, <2>1, <2>3
<1>7. Ordered'
  <2>1. \A k \in DOMAIN << >> : << >>[k].src # "echo"
    OBVIOUS
  <2>2. QED
    BY <1>1, <1>2, <1>3, <1>6, <2>1, NextByte DEF OnLine, Sources, c
<1>8. UartTypeOK'
  <2>1. said' \in [Sources -> Nat]
    BY <1>2, SaidMore DEF OnLine, Sources
  <2>2. /\ tx' \in Seq(Bytes) /\ Len(tx') <= Depth
        /\ putting' \in [Callers -> Seq(Bytes)] /\ polled' \in [Callers -> BOOLEAN]
        /\ heard' \in [Sources -> Nat]
    BY <1>2 DEF OnLine, UartTypeOK
  <2>3. Len(rx') <= Depth
    BY <1>2, <1>5, FifoAssumption DEF Depth
  <2>4. QED
    BY <1>2, <1>5, <2>1, <2>2, <2>3, TypeKept DEF OnLine
<1>9. Senders'
  <2>1. \A k \in DOMAIN rx' : rx'[k].src = "echo"
    BY <1>5 DEF OnLine, Senders, c
  <2>2. QED
    BY <1>2, <2>1 DEF OnLine, Senders
<1>10. QED
  BY <1>2, <1>7, <1>8, <1>9 DEF OnLine

-----------------------------------------------------------------------------
(***************************************************************************)
(* Quotients of a sector.                                                  *)
(***************************************************************************)

\* Division with remainder.
LEMMA DivMod ==
  ASSUME NEW a \in Nat, NEW d \in Nat \ {0}
  PROVE  /\ a \div d \in Nat
         /\ a = d * (a \div d) + (a % d)
         /\ a % d \in 0..d - 1
  BY SMTT(30)

\* Multiplication keeps the order.
LEMMA TimesMonotone ==
  ASSUME NEW x \in Int, NEW y \in Int, NEW d \in Nat \ {0}, x <= y
  PROVE  d * x <= d * y
<1>1. d * (y - x) >= 0
  BY SMTT(30)
<1>2. d * (y - x) = d * y - d * x
  BY SMTT(30)
<1>3. QED
  BY <1>1, <1>2

\* A quotient is at most c exactly below the next multiple.
LEMMA DivBelow ==
  ASSUME NEW a \in Nat, NEW d \in Nat \ {0}, NEW c \in Int
  PROVE  a \div d <= c <=> a < d * (c + 1)
<1>1. /\ a \div d \in Nat
      /\ a = d * (a \div d) + (a % d)
      /\ a % d \in 0..d - 1
  BY DivMod
<1>2. ASSUME a \div d <= c PROVE a < d * (c + 1)
  <2>1. d * ((a \div d) + 1) <= d * (c + 1)
    BY <1>1, <1>2, TimesMonotone
  <2>2. d * ((a \div d) + 1) = d * (a \div d) + d
    BY <1>1
  <2>3. QED
    BY <1>1, <2>1, <2>2
<1>3. ASSUME c < a \div d PROVE d * (c + 1) <= a
  <2>1. d * (c + 1) <= d * (a \div d)
    BY <1>1, <1>3, TimesMonotone
  <2>2. QED
    BY <1>1, <2>1
<1>4. QED
  BY <1>1, <1>2, <1>3

\* Whole sectors: the quotient of a multiple.
LEMMA DivTimes ==
  ASSUME NEW q \in Nat, NEW d \in Nat \ {0}
  PROVE  d * q \in Nat /\ (d * q) \div d = q
<1>0. d * q \in Nat
  BY SMTT(30)
<1>1. /\ (d * q) \div d \in Nat
      /\ (d * q) \div d <= q <=> d * q < d * (q + 1)
      /\ (d * q) \div d <= q - 1 <=> d * q < d * ((q - 1) + 1)
  BY <1>0, DivMod, DivBelow
<1>2. d * (q + 1) = d * q + d /\ (q - 1) + 1 = q
  BY SMTT(30)
<1>3. (d * q) \div d <= q
  BY <1>0, <1>1, <1>2
<1>4. ~((d * q) \div d <= q - 1)
  BY <1>0, <1>1, <1>2
<1>5. QED
  BY <1>0, <1>1, <1>3, <1>4

\* Remainders of what is below the modulus, and of a sum that has wrapped once.
LEMMA BelowModulus ==
  ASSUME NEW a \in Nat, NEW w \in Nat \ {0}, a < w
  PROVE  a % w = a
  BY SMTT(30)

LEMMA WrappedOnce ==
  ASSUME NEW a \in Nat, NEW w \in Nat \ {0}, w <= a, a < 2 * w
  PROVE  a % w = a - w
<1> DEFINE q == a \div w
           r == a % w
<1>1. q \in Nat /\ a = w * q + r /\ r \in 0..w - 1
  BY DivMod
<1> HIDE DEF q, r
<1>2. q <= 1
  <2>1. SUFFICES ASSUME 2 <= q PROVE FALSE
    BY <1>1
  <2>2. w * 2 <= w * q
    BY <1>1, <2>1, TimesMonotone
  <2>3. w * q \in Nat /\ w * 2 = 2 * w
    BY <1>1, SMTT(30)
  <2>4. QED
    BY <1>1, <2>2, <2>3
<1>3. q # 0
  <2>1. w * 0 = 0
    OBVIOUS
  <2>2. QED
    BY <1>1, <2>1
<1>4. q = 1 /\ w * 1 = w
  BY <1>1, <1>2, <1>3
<1>5. r = a - w
  BY <1>1, <1>4
<1>6. QED
  BY <1>5 DEF r

\* What is left of the sum that virtio_pci_blk_rw makes.
LEMMA SumLeft ==
  ASSUME NEW addr \in U32, NEW len \in U32
  PROVE  /\ (addr + len) % Word = (addr + len) - Lost(addr, len)
         /\ (addr + len) - Lost(addr, len) \in Nat
<1>1. addr \in Nat /\ len \in Nat /\ Word \in Nat \ {0} /\ addr < Word /\ len < Word
  BY RangeAssumption DEF U32
<1>2. CASE addr + len < Word
  BY <1>1, <1>2 DEF Lost
<1>3. CASE ~(addr + len < Word)
  <2> DEFINE sum == addr + len
  <2>1. sum \in Nat /\ Word <= sum /\ sum < 2 * Word /\ Word \in Nat \ {0}
    BY <1>1, <1>3
  <2> HIDE DEF sum
  <2>2. sum % Word = sum - Word
    BY <2>1, WrappedOnce
  <2>3. Lost(addr, len) = Word
    BY <1>3 DEF Lost
  <2>4. sum % Word = sum - Lost(addr, len) /\ sum - Lost(addr, len) \in Nat
    BY <2>1, <2>2, <2>3
  <2>5. QED
    BY <2>4, Zenon DEF sum
<1>4. QED
  BY <1>2, <1>3

\* Of whole sectors, whole sectors are left.
LEMMA WholeLeft ==
  ASSUME NEW addr \in U32, NEW len \in U32, Whole(addr, len)
  PROVE  \E m \in Nat : (addr + len) - Lost(addr, len) = SECTOR * m
<1> DEFINE q == addr \div SECTOR
           p == len \div SECTOR
           w == Word \div SECTOR
<1>1. /\ SECTOR \in Nat \ {0} /\ addr \in Nat /\ len \in Nat /\ Word \in Nat
      /\ Word % SECTOR = 0 /\ addr % SECTOR = 0 /\ len % SECTOR = 0
  BY RangeAssumption DEF U32, Whole
<1>2. /\ q \in Nat /\ addr = SECTOR * q + (addr % SECTOR)
      /\ p \in Nat /\ len = SECTOR * p + (len % SECTOR)
      /\ w \in Nat /\ Word = SECTOR * w + (Word % SECTOR)
  BY <1>1, DivMod
<1> HIDE DEF q, p, w
<1>3. SECTOR * q \in Nat /\ SECTOR * p \in Nat /\ SECTOR * w \in Nat
  BY <1>1, <1>2, SMTT(30)
<1>4. addr = SECTOR * q /\ len = SECTOR * p /\ Word = SECTOR * w
  BY <1>1, <1>2, <1>3
<1>5. (addr + len) - Lost(addr, len) \in Nat
  BY SumLeft
<1>6. CASE addr + len < Word
  <2>1. (addr + len) - Lost(addr, len) = SECTOR * q + SECTOR * p
    BY <1>3, <1>4, <1>6 DEF Lost
  <2>2. SECTOR * q + SECTOR * p = SECTOR * (q + p) /\ q + p \in Nat
    BY <1>1, <1>2, SMTT(30)
  <2>3. QED
    BY <2>1, <2>2
<1>7. CASE ~(addr + len < Word)
  <2>1. (addr + len) - Lost(addr, len) = SECTOR * q + SECTOR * p - SECTOR * w
    BY <1>3, <1>4, <1>7 DEF Lost
  <2>2. SECTOR * q + SECTOR * p - SECTOR * w = SECTOR * (q + p - w)
    BY <1>1, <1>2, SMTT(30)
  <2>3. q + p - w \in Nat
    <3>1. SUFFICES ASSUME q + p - w <= 0 - 1 PROVE FALSE
      BY <1>2
    <3>2. SECTOR * (q + p - w) <= SECTOR * (0 - 1)
      BY <1>1, <1>2, <3>1, TimesMonotone
    <3>3. SECTOR * (0 - 1) = 0 - SECTOR
      BY <1>1, SMTT(30)
    <3>4. QED
      BY <1>1, <1>5, <2>1, <2>2, <3>2, <3>3
  <2>4. QED
    BY <2>1, <2>2, <2>3
<1>8. QED
  BY <1>6, <1>7

\* The range check, for any request and any capacity.
LEMMA CheckIsExact ==
  ASSUME NEW addr \in U32, NEW len \in U32, NEW cap \in U32
  PROVE  Exact(addr, len, cap)
<1> DEFINE left == (addr + len) - Lost(addr, len)
           end  == EndByte(addr, len) - Lost(addr, len)
<1>1. /\ addr \in Nat /\ len \in Nat /\ cap \in Nat /\ SECTOR \in Nat \ {0} /\ Word \in Nat
      /\ Lost(addr, len) \in Nat
  BY RangeAssumption DEF U32, Lost
<1>2. left \in Nat /\ (addr + len) % Word = left
  BY SumLeft
<1>3. /\ cap * SECTOR = SECTOR * cap /\ (cap + 1) * SECTOR = SECTOR * (cap + 1)
      /\ SECTOR * (cap + 1) = SECTOR * cap + SECTOR /\ SECTOR * cap \in Nat
  BY <1>1, SMTT(30)
<1>4. InRange(addr, len, cap) <=> left < SECTOR * (cap + 1)
  <2>1. left \div SECTOR <= cap <=> left < SECTOR * (cap + 1)
    BY <1>1, <1>2, DivBelow
  <2>2. QED
    BY <1>2, <2>1 DEF InRange, EndSector
<1>5. /\ addr \div SECTOR \in Nat /\ addr % SECTOR \in 0..SECTOR - 1
      /\ addr = SECTOR * (addr \div SECTOR) + (addr % SECTOR)
  BY <1>1, DivMod
<1>6. SECTOR * (addr \div SECTOR) = (addr \div SECTOR) * SECTOR /\ SECTOR * (addr \div SECTOR) \in Nat
  BY <1>1, <1>5, SMTT(30)
<1>7. end <= left /\ end \in Int /\ (addr % SECTOR = 0 => end = left)
  BY <1>1, <1>5, <1>6 DEF EndByte, StartSector
<1>8. InRange(addr, len, cap) => end < (cap + 1) * SECTOR
  BY <1>1, <1>2, <1>3, <1>4, <1>7
<1>9. ASSUME Whole(addr, len)
      PROVE  InRange(addr, len, cap) <=> end <= cap * SECTOR
  <2>1. end = left
    BY <1>7, <1>9 DEF Whole
  <2>2. PICK m \in Nat : left = SECTOR * m
    BY <1>9, WholeLeft
  <2>3. ASSUME m <= cap PROVE SECTOR * m <= SECTOR * cap
    BY <1>1, <2>2, <2>3, TimesMonotone
  <2>4. ASSUME ~(m <= cap) PROVE SECTOR * (cap + 1) <= SECTOR * m
    BY <1>1, <2>2, <2>4, TimesMonotone
  <2> HIDE DEF left, end
  <2>5. left <= SECTOR * cap <=> left < SECTOR * (cap + 1)
    BY <1>1, <1>2, <1>3, <2>2, <2>3, <2>4
  <2>6. QED
    BY <1>3, <1>4, <2>1, <2>5
<1>10. QED
  BY <1>8, <1>9 DEF Exact

-----------------------------------------------------------------------------
(***************************************************************************)
(* The inductive invariant: what rw was called with, where its request is, *)
(* and which part of the disk the test has checked.                        *)
(***************************************************************************)

InCall == pc \in {"rw", "notify", "wait"}

\* While the block test runs, in its own code or in a call it has made.
InTest  == pc \in {"write", "read", "check"} \/ (InCall /\ b.to \in {"read", "check"})
Reading == pc = "check" \/ (InCall /\ b.to = "check")
After   == pc \in {"test 2", "print", "shutdown", "off", "fault"} \/ (InCall /\ b.to = "print")

Types ==
  /\ size \in Nat /\ smallest \in Nat /\ largest \in Nat
  /\ smallest <= size /\ size <= largest
  /\ capacity \in U32 /\ capacity <= largest
  /\ n \in Nat
  /\ disk \in [TestSectors -> Contents]
  /\ buf \in [1..2 -> Contents]

\* The three calls of virtio_pci_blk_rw.
Called ==
  /\ pc \in {"read", "check"} => n < TEST_CNT
  /\ InCall =>
       \/ /\ b.to \in {"read", "check"} /\ n < TEST_CNT
          /\ b.addr = n * DATA_LEN /\ b.len = DATA_LEN
          /\ b.write = (b.to = "read")
       \/ b.to = "print" /\ b.addr = 0 /\ b.len = Half /\ b.write = FALSE

\* A request is with the disk or in the used ring only while rw waits for it.
Flow ==
  /\ avail => pc \in {"notify", "wait"} /\ flag = 1 /\ ~used /\ live
  /\ avail => First + Count <= largest
  /\ used => pc \in {"notify", "wait"} /\ flag = 1

\* The rounds before this one are on the disk, and what a read has brought.
Checked ==
  /\ InTest => \A s \in TestSectors : s < 2 * n => disk[s] = "pattern"
  /\ Reading => \A k \in 1..2 : buf[k] = "pattern" => disk[2 * n + (k - 1)] = "pattern"
  /\ passed => After /\ \A s \in TestSectors : disk[s] = "pattern"

IInv == Types /\ Called /\ Flow /\ Checked

\* What a request in progress asks the disk for, and that its sum does not wrap.
LEMMA CallFacts ==
  ASSUME Types, Called, InCall
  PROVE  /\ b.to \in {"read", "check"} => First = 2 * n /\ Count = 2
         /\ b.to = "print" => First = 0 /\ Count = 1
         /\ EndSector(b.addr, b.len) = First + Count
<1>1. /\ SECTOR \in Nat \ {0} /\ TEST_CNT \in Nat \ {0} /\ Word \in Nat \ {0} /\ n \in Nat
      /\ SECTOR * (2 * TEST_CNT) < Word
  <2>1. TEST_CNT * (2 * SECTOR) = SECTOR * (2 * TEST_CNT)
    BY RangeAssumption, TestAssumption, SMTT(30)
  <2>2. QED
    BY <2>1, RangeAssumption, TestAssumption, SpaceAssumption DEF DATA_LEN, Types
<1>2. ASSUME NEW q \in Nat, q <= 2 * TEST_CNT
      PROVE  (SECTOR * q) % Word = SECTOR * q /\ SECTOR * q \in Nat /\ (SECTOR * q) \div SECTOR = q
  <2>1. SECTOR * q <= SECTOR * (2 * TEST_CNT)
    BY <1>1, <1>2, TimesMonotone
  <2>2. SECTOR * q \in Nat /\ (SECTOR * q) \div SECTOR = q
    BY <1>1, DivTimes
  <2>3. SECTOR * (2 * TEST_CNT) \in Nat
    BY <1>1, DivTimes
  <2>4. SECTOR * q < Word
    BY <1>1, <2>1, <2>2, <2>3
  <2>5. QED
    BY <1>1, <2>2, <2>4
<1>3. CASE b.to \in {"read", "check"}
  <2>1. b.addr = n * (2 * SECTOR) /\ b.len = 2 * SECTOR /\ n < TEST_CNT
    BY <1>3 DEF Called, InCall, DATA_LEN
  <2>2. /\ n * (2 * SECTOR) = SECTOR * (2 * n)
        /\ 2 * SECTOR = SECTOR * 2
        /\ SECTOR * (2 * n) + SECTOR * 2 = SECTOR * (2 * n + 2)
    BY <1>1, SMTT(30)
  <2>3. 2 * n \in Nat /\ 2 * n <= 2 * TEST_CNT /\ 2 * n + 2 \in Nat /\ 2 * n + 2 <= 2 * TEST_CNT
    BY <1>1, <2>1
  <2>4. First = 2 * n
    BY <1>2, <2>1, <2>2, <2>3 DEF First, StartSector
  <2>5. Count = 2
    BY <1>1, <1>2, <2>1, <2>2 DEF Count
  <2>6. EndSector(b.addr, b.len) = 2 * n + 2
    BY <1>2, <2>1, <2>2, <2>3 DEF EndSector
  <2>7. QED
    BY <1>3, <2>4, <2>5, <2>6
<1>4. CASE b.to = "print"
  <2>1. b.addr = 0 /\ b.len = Half
    BY <1>4 DEF Called, InCall
  <2>2. Half = SECTOR /\ SECTOR = SECTOR * 1 /\ 0 = SECTOR * 0 /\ 0 + SECTOR = SECTOR
    BY <1>1, SMTT(30) DEF Half, DATA_LEN
  <2>3. First = 0
    BY <1>1, <1>2, <2>1, <2>2 DEF First, StartSector
  <2>4. Count = 1
    BY <1>1, <1>2, <2>1, <2>2 DEF Count
  <2>5. EndSector(b.addr, b.len) = 1
    BY <1>1, <1>2, <2>1, <2>2 DEF EndSector
  <2>6. QED
    BY <1>4, <2>3, <2>4, <2>5
<1>5. QED
  BY <1>3, <1>4 DEF Called

ivars == <<size, smallest, largest, capacity, n, disk, buf, pc, b, flag, live, avail, used, passed>>

\* Steps that touch nothing the invariant speaks of.
LEMMA Framed ==
  ASSUME IInv, UNCHANGED ivars
  PROVE  IInv'
<1>1. /\ size' = size /\ smallest' = smallest /\ largest' = largest /\ capacity' = capacity /\ n' = n /\ disk' = disk
      /\ buf' = buf /\ pc' = pc /\ b' = b /\ flag' = flag /\ live' = live /\ avail' = avail
      /\ used' = used /\ passed' = passed
  BY DEF ivars
<1>2. InCall' = InCall /\ InTest' = InTest /\ Reading' = Reading /\ After' = After
  BY <1>1 DEF InCall, InTest, Reading, After
<1>3. First' = First /\ Count' = Count
  BY <1>1 DEF First, Count
<1>4. Types'
  BY <1>1 DEF IInv, Types
<1>5. Called'
  BY <1>1, <1>2 DEF IInv, Called
<1>6. Flow'
  BY <1>1, <1>3 DEF IInv, Flow
<1>7. Checked'
  BY <1>1, <1>2 DEF IInv, Checked
<1>8. QED
  BY <1>4, <1>5, <1>6, <1>7 DEF IInv

EarlyPc == {"console", "traps", "plic", "hello", "rng init", "rng read", "rng poll",
            "blk init", "blk cfg", "blk irq"}

\* Steps before the block test.
LEMMA Early ==
  ASSUME IInv, pc \in EarlyPc, pc' \in EarlyPc \cup {"fault", "test 2"}, n' \in Nat,
         capacity' \in U32, capacity' <= largest,
         UNCHANGED <<size, smallest, largest, disk, buf, b, flag, avail, used, passed>>
  PROVE  IInv'
<1>1. ~avail /\ ~used /\ ~passed
  BY DEF IInv, Flow, Checked, EarlyPc, After, InCall
<1>2. QED
  BY <1>1 DEF IInv, Types, Called, Flow, Checked, EarlyPc, InCall, InTest, Reading, After,
              First, Count, Contents, TestSectors

\* The invariant of the block test holds at reset.
LEMMA InitIInv == Init => IInv
<1> SUFFICES ASSUME Init PROVE IInv
  OBVIOUS
<1>1. size \in Nat /\ smallest = size /\ largest = size /\ disk \in [TestSectors -> Contents]
  BY MachineAssumption DEF Init, Contents
<1>2. QED
  BY <1>1, RangeAssumption DEF Init, IInv, Types, Called, Flow, Checked, InCall, InTest, Reading,
        After, U32, Contents, Request

\* Steps of main with no request about.
LEMMA Quiet ==
  ASSUME IInv, ~avail, ~used, n' \in Nat, buf' \in [1..2 -> Contents],
         UNCHANGED <<size, smallest, largest, capacity, disk, avail, used>>,
         Called', Checked'
  PROVE  IInv'
<1>1. size' = size /\ smallest' = smallest /\ largest' = largest /\ capacity' = capacity /\ disk' = disk
      /\ avail' = avail /\ used' = used
  OBVIOUS
<1>2. Types'
  BY <1>1 DEF IInv, Types
<1>3. Flow'
  BY <1>1 DEF Flow
<1>4. QED
  BY <1>2, <1>3 DEF IInv

\* No request is about outside virtio_pci_blk_rw.
LEMMA NoRequest ==
  ASSUME IInv, pc \notin {"notify", "wait"}
  PROVE  ~avail /\ ~used
  BY DEF IInv, Flow

\* The sectors of a request in progress.
LEMMA WithinInts ==
  ASSUME IInv, InCall
  PROVE  First \in Nat /\ Count \in Nat /\ First + Count \in Int
<1>1. b.to \in {"read", "check", "print"} /\ n \in Nat
  BY DEF IInv, Types, Called
<1>2. /\ b.to \in {"read", "check"} => First = 2 * n /\ Count = 2
      /\ b.to = "print" => First = 0 /\ Count = 1
  BY CallFacts DEF IInv
<1>3. First \in Nat /\ Count \in Nat
  BY <1>1, <1>2
<1>4. QED
  BY <1>3

\* Before the block test nothing is asked of the disk.
LEMMA EarlySteps ==
  ASSUME IInv, ConsoleInit \/ EnableTraps \/ InitPlic \/ Hello \/ RngInit \/ RngRead \/ RngPoll
               \/ RngDone \/ BlkInit \/ virtio_pci_blk_cfg
  PROVE  IInv'
<1> USE DEF At, Go, Elsewhere, EarlyPc, queueVars, machineVars
<1>0. n \in Nat /\ n + 1 \in Nat /\ capacity \in U32 /\ capacity <= largest
  BY DEF IInv, Types
<1>1. CASE ConsoleInit
  <2>1. pc = "console" /\ pc' \in {"console", "traps"} /\ n' \in {n + 1, 0}
    BY <1>1 DEF ConsoleInit
  <2>2. UNCHANGED <<size, smallest, largest, capacity, disk, buf, b, flag, avail, used, passed>>
    BY <1>1 DEF ConsoleInit
  <2>3. n' \in Nat
    BY <1>0, <2>1
  <2>4. QED
    BY <1>0, <2>1, <2>2, <2>3, Early
<1>2. CASE EnableTraps
  BY <1>0, <1>2, Early DEF EnableTraps
<1>3. CASE InitPlic
  BY <1>0, <1>3, Early DEF InitPlic
<1>4. CASE Hello
  BY <1>0, <1>4, Early DEF Hello
<1>5. CASE RngInit
  BY <1>0, <1>5, Early DEF RngInit
<1>6. CASE RngRead
  BY <1>0, <1>6, Early DEF RngRead
<1>7. CASE RngPoll
  BY <1>0, <1>7, Early DEF RngPoll
<1>8. CASE RngDone
  BY <1>0, <1>8, Early DEF RngDone
<1>9. CASE BlkInit
  <2>1. pc = "blk init" /\ pc' \in {"blk cfg", "fault", "test 2"}
    BY <1>9 DEF BlkInit
  <2>2. UNCHANGED <<n, size, smallest, largest, capacity, disk, buf, b, flag, avail, used, passed>>
    BY <1>9 DEF BlkInit
  <2>3. QED
    BY <1>0, <2>1, <2>2, Early
<1>10. CASE virtio_pci_blk_cfg
  <2>1. StoredCapacity(size) \in U32 /\ StoredCapacity(size) <= size
    BY RangeAssumption, SMTT(30) DEF StoredCapacity, U32, IInv, Types
  <2>2. pc = "blk cfg" /\ pc' = "blk irq" /\ capacity' = StoredCapacity(size)
        /\ UNCHANGED <<n, size, smallest, largest, disk, buf, b, flag, avail, used, passed>>
    BY <1>10 DEF virtio_pci_blk_cfg
  <2>3. StoredCapacity(size) <= largest
    BY <2>1 DEF U32, IInv, Types
  <2>4. capacity' \in U32 /\ capacity' <= largest
    BY <2>1, <2>2, <2>3
  <2>5. QED
    BY <1>0, <2>2, <2>4, Early
<1>11. QED
  BY <1>1, <1>2, <1>3, <1>4, <1>5, <1>6, <1>7, <1>8, <1>9, <1>10

\* The block tests between their calls of rw.
LEMMA RoundSteps ==
  ASSUME IInv, EnableBlkIrq \/ WriteRound \/ ReadRound \/ CheckSame \/ CheckFailed \/ Passed
               \/ virtio_pci_blk_test2 \/ PrintSector \/ shutdown
  PROVE  IInv'
<1> USE DEF At, Go, Elsewhere, queueVars, machineVars
<1>0. ~avail /\ ~used /\ n \in Nat /\ buf \in [1..2 -> Contents]
  BY NoRequest DEF EnableBlkIrq, WriteRound, ReadRound, CheckSame, CheckFailed, Passed,
     virtio_pci_blk_test2, PrintSector, shutdown, IInv, Types
<1>1. CASE EnableBlkIrq
  <2>1. pc = "blk irq" /\ pc' = "write" /\ n' = 0 /\ buf' = <<"pattern", "pattern">>
        /\ UNCHANGED <<size, smallest, largest, capacity, disk, b, avail, used, passed>>
    BY <1>1 DEF EnableBlkIrq
  <2>2. ~passed
    BY <2>1 DEF IInv, Checked, After, InCall
  <2>3. Called'
    BY <2>1 DEF Called, InCall
  <2>4. Checked'
    <3>1. \A s \in TestSectors : ~(s < 2 * 0)
      BY TestAssumption DEF TestSectors
    <3>2. ~Reading' /\ ~passed'
      BY <2>1, <2>2 DEF Reading, InCall
    <3>3. QED
      BY <2>1, <3>1, <3>2 DEF Checked
  <2>5. buf' \in [1..2 -> Contents]
    <3>1. <<"pattern", "pattern">> \in [1..2 -> Contents]
      BY DEF Contents
    <3>2. QED
      BY <2>1, <3>1
  <2>6. QED
    BY <1>0, <2>1, <2>3, <2>4, <2>5, Quiet
<1>2. CASE WriteRound
  <2>1. pc = "write" /\ pc' = "rw" /\ n < TEST_CNT /\ b' = Request(n * DATA_LEN, DATA_LEN, TRUE, "read")
        /\ UNCHANGED <<n, size, smallest, largest, capacity, disk, buf, avail, used, passed>>
    BY <1>2 DEF WriteRound
  <2>2. ~passed
    BY <2>1 DEF IInv, Checked, After, InCall
  <2>3. Called'
    BY <2>1 DEF Called, InCall, Request
  <2>4. Checked'
    BY <2>1, <2>2 DEF IInv, Checked, InTest, Reading, InCall, Request
  <2>5. QED
    BY <1>0, <2>1, <2>3, <2>4, Quiet
<1>3. CASE ReadRound
  <2>1. pc = "read" /\ pc' = "rw" /\ b' = Request(n * DATA_LEN, DATA_LEN, FALSE, "check")
        /\ buf' = <<"zeros", "zeros">>
        /\ UNCHANGED <<n, size, smallest, largest, capacity, disk, avail, used, passed>>
    BY <1>3 DEF ReadRound
  <2>2. ~passed /\ n < TEST_CNT
    BY <2>1 DEF IInv, Called, Checked, After, InCall
  <2>3. Called'
    BY <2>1, <2>2 DEF Called, InCall, Request
  <2>4. buf' \in [1..2 -> Contents] /\ \A k \in 1..2 : buf'[k] # "pattern"
    BY <2>1 DEF Contents
  <2>5. InTest /\ InTest' /\ Reading'
    BY <2>1 DEF InTest, Reading, InCall, Request
  <2>6. Checked'
    BY <2>1, <2>2, <2>4, <2>5 DEF IInv, Checked
  <2>7. QED
    BY <1>0, <2>1, <2>3, <2>4, <2>6, Quiet
<1>4. CASE CheckSame
  <2>1. pc = "check" /\ pc' = "write" /\ n' = n + 1 /\ buf = <<"pattern", "pattern">>
        /\ UNCHANGED <<size, smallest, largest, capacity, disk, buf, b, avail, used, passed>>
    BY <1>4 DEF CheckSame
  <2>2. ~passed
    BY <2>1 DEF IInv, Checked, After, InCall
  <2>3. disk[2 * n + (1 - 1)] = "pattern" /\ disk[2 * n + (2 - 1)] = "pattern"
    <3>1. buf[1] = "pattern" /\ buf[2] = "pattern"
      BY <2>1
    <3>2. \A k \in 1..2 : buf[k] = "pattern" => disk[2 * n + (k - 1)] = "pattern"
      BY <2>1 DEF IInv, Checked, Reading
    <3>3. QED
      BY <3>1, <3>2
  <2>4. \A s \in TestSectors : s < 2 * (n + 1) => disk[s] = "pattern"
    <3>1. SUFFICES ASSUME NEW s \in TestSectors, s < 2 * (n + 1) PROVE disk[s] = "pattern"
      OBVIOUS
    <3>2. s \in Int
      BY TestAssumption DEF TestSectors
    <3>3. s < 2 * n \/ s = 2 * n + (1 - 1) \/ s = 2 * n + (2 - 1)
      BY <1>0, <3>1, <3>2
    <3>4. s < 2 * n => disk[s] = "pattern"
      BY <2>1 DEF IInv, Checked, InTest
    <3>5. QED
      BY <2>3, <3>3, <3>4
  <2>5. Called'
    BY <2>1 DEF Called, InCall
  <2>6. ~Reading' /\ disk' = disk /\ n' = n + 1 /\ ~passed'
    BY <2>1, <2>2 DEF Reading, InCall
  <2>7. Checked'
    BY <2>4, <2>6 DEF Checked
  <2>8. QED
    BY <1>0, <2>1, <2>5, <2>7, Quiet
<1>5. CASE CheckFailed
  <2>1. pc = "check" /\ pc' = "test 2"
        /\ UNCHANGED <<n, size, smallest, largest, capacity, disk, buf, b, avail, used, passed>>
    BY <1>5 DEF CheckFailed
  <2>2. ~passed
    BY <2>1 DEF IInv, Checked, After, InCall
  <2>3. Called' /\ Checked'
    BY <2>1, <2>2 DEF Called, Checked, InTest, Reading, InCall
  <2>4. QED
    BY <1>0, <2>1, <2>3, Quiet
<1>6. CASE Passed
  <2>1. pc = "write" /\ pc' = "test 2" /\ n = TEST_CNT
        /\ UNCHANGED <<n, size, smallest, largest, capacity, disk, buf, b, avail, used>>
    BY <1>6 DEF Passed
  <2>2. \A s \in TestSectors : disk[s] = "pattern"
    <3>1. \A s \in TestSectors : s < 2 * TEST_CNT
      BY TestAssumption DEF TestSectors
    <3>2. \A s \in TestSectors : s < 2 * n => disk[s] = "pattern"
      BY <2>1 DEF IInv, Checked, InTest
    <3>3. QED
      BY <2>1, <3>1, <3>2
  <2>3. Called'
    BY <2>1 DEF Called, InCall
  <2>4. Checked'
    BY <2>1, <2>2 DEF Checked, InTest, Reading, InCall, After
  <2>5. QED
    BY <1>0, <2>1, <2>3, <2>4, Quiet
<1>7. CASE virtio_pci_blk_test2
  <2>1. pc = "test 2" /\ pc' = "rw" /\ b' = Request(0, Half, FALSE, "print")
        /\ buf' = [buf EXCEPT ![1] = "zeros"]
        /\ UNCHANGED <<n, size, smallest, largest, capacity, disk, avail, used, passed>>
    BY <1>7 DEF virtio_pci_blk_test2
  <2>2. buf' \in [1..2 -> Contents]
    BY <1>0, <2>1 DEF Contents
  <2>3. Called'
    BY <2>1 DEF Called, InCall, Request
  <2>4. Checked'
    BY <2>1 DEF IInv, Checked, InTest, Reading, InCall, After, Request
  <2>5. QED
    BY <1>0, <2>1, <2>2, <2>3, <2>4, Quiet
<1>8. CASE PrintSector \/ shutdown
  <2>1. pc \in {"print", "shutdown"} /\ pc' \in {"shutdown", "off"}
        /\ UNCHANGED <<n, size, smallest, largest, capacity, disk, buf, b, avail, used, passed>>
    BY <1>8 DEF PrintSector, shutdown
  <2>2. Called' /\ Checked'
    BY <2>1 DEF IInv, Called, Checked, InTest, Reading, InCall, After
  <2>3. QED
    BY <1>0, <2>1, <2>2, Quiet
<1>9. QED
  BY <1>1, <1>2, <1>3, <1>4, <1>5, <1>6, <1>7, <1>8

\* virtio_pci_blk_rw.
LEMMA RwSteps ==
  ASSUME IInv, RwReject \/ RwPublish \/ RwNotify \/ RwWait
  PROVE  IInv'
<1> USE DEF At, Go, Elsewhere, queueVars, machineVars
<1>0. n \in Nat /\ buf \in [1..2 -> Contents]
  BY DEF IInv, Types
<1>1. ASSUME RwReject \/ RwWait PROVE IInv'
  <2>1. InCall /\ pc' = b.to
        /\ UNCHANGED <<n, size, smallest, largest, capacity, disk, buf, b, avail, used, passed>>
    BY <1>1 DEF RwReject, RwWait, InCall
  <2>2. ~avail /\ ~used
    BY <1>1 DEF RwReject, RwWait, IInv, Flow
  <2>3. b.to \in {"read", "check", "print"}
    BY <2>1 DEF IInv, Called
  <2>4. Called'
    BY <2>1, <2>3 DEF IInv, Called, InCall
  <2>5. Checked'
    BY <2>1, <2>3 DEF IInv, Checked, InTest, Reading, InCall, After
  <2>6. QED
    BY <1>0, <2>1, <2>2, <2>4, <2>5, Quiet
<1>2. CASE RwPublish
  <2>1. pc = "rw" /\ pc' = (IF live THEN "notify" ELSE "fault") /\ InRange(b.addr, b.len, capacity)
        /\ flag' = (IF live THEN 1 ELSE flag) /\ avail' = live
        /\ UNCHANGED <<n, size, smallest, largest, capacity, disk, buf, b, live, used, passed>>
    BY <1>2 DEF RwPublish
  <2>2. InCall /\ ~used
    BY <2>1, NoRequest DEF InCall
  <2>3. First + Count <= largest
    <3>1. EndSector(b.addr, b.len) <= capacity
      BY <2>1 DEF InRange
    <3>2. First + Count = EndSector(b.addr, b.len) /\ First + Count \in Int
      BY <2>2, WithinInts, CallFacts DEF IInv
    <3>3. QED
      BY <3>1, <3>2 DEF IInv, Types, U32
  <2>4. First' = First /\ Count' = Count
    BY <2>1 DEF First, Count
  <2>5. Types'
    BY <2>1 DEF IInv, Types
  <2>6. Called'
    BY <2>1 DEF IInv, Called, InCall
  <2>7. Flow'
    BY <2>1, <2>2, <2>3, <2>4 DEF Flow
  <2>8. Checked'
    <3>1. CASE live
      BY <2>1, <3>1 DEF IInv, Checked, InTest, Reading, InCall, After
    <3>2. CASE ~live
      BY <2>1, <3>2 DEF IInv, Checked, InTest, Reading, InCall, After
    <3>3. QED
      BY <3>1, <3>2
  <2>9. QED
    BY <2>5, <2>6, <2>7, <2>8 DEF IInv
<1>3. CASE RwNotify
  <2>1. pc = "notify" /\ pc' = "wait"
        /\ UNCHANGED <<n, size, smallest, largest, capacity, disk, buf, b, flag, live, avail, used, passed>>
    BY <1>3 DEF RwNotify
  <2>2. First' = First /\ Count' = Count
    BY <2>1 DEF First, Count
  <2>3. Types'
    BY <2>1 DEF IInv, Types
  <2>4. Called'
    BY <2>1 DEF IInv, Called, InCall
  <2>5. Flow'
    BY <2>1, <2>2 DEF IInv, Flow
  <2>6. Checked'
    BY <2>1 DEF IInv, Checked, InTest, Reading, InCall, After
  <2>7. QED
    BY <2>3, <2>4, <2>5, <2>6 DEF IInv
<1>4. QED
  BY <1>1, <1>2, <1>3

\* What a disk moves for a request, the whole of it or a part.
LEMMA MoveKeeps ==
  ASSUME IInv, avail, NEW moved \in SUBSET Touched, Move(moved), UNCHANGED <<pc, n, b, passed>>
  PROVE  /\ disk' \in [TestSectors -> Contents] /\ buf' \in [1..2 -> Contents]
         /\ Checked'
<1>1. InCall /\ n \in Nat /\ pc \in {"notify", "wait"}
  BY DEF IInv, Flow, InCall, Types
<1>2. /\ b.to \in {"read", "check"} => First = 2 * n /\ Count = 2
      /\ b.to = "print" => First = 0 /\ Count = 1
      /\ b.to \in {"read", "check", "print"} /\ b.write = (b.to = "read")
  BY <1>1, CallFacts DEF IInv, Called
<1>3. moved \subseteq First..First + Count - 1 /\ First \in Nat
  BY <1>1, <1>2 DEF Touched
<1>4. pc' = pc /\ n' = n /\ b' = b /\ passed' = passed
  OBVIOUS
<1>5. /\ InTest' = InTest /\ Reading' = Reading /\ After' = After
      /\ InTest <=> b.to \in {"read", "check"}
      /\ Reading <=> b.to = "check"
      /\ After <=> b.to = "print"
  BY <1>1, <1>4 DEF InTest, Reading, After, InCall
<1>6. TestSectors \subseteq Int
  BY TestAssumption DEF TestSectors
<1>7. CASE b.to = "read"
  <2>1. disk' = [s \in TestSectors |-> IF s \in moved THEN buf[s - First + 1] ELSE disk[s]]
        /\ buf' = buf
    BY <1>2, <1>7 DEF Move
  <2>2. ASSUME NEW s \in TestSectors, s \in moved PROVE buf[s - First + 1] \in Contents /\ ~(s < 2 * n)
    <3>1. s \in 2 * n .. 2 * n + 2 - 1 /\ s \in Int /\ First = 2 * n
      BY <1>2, <1>3, <1>6, <1>7, <2>2
    <3>2. s - First + 1 \in 1..2
      BY <1>1, <3>1
    <3>3. QED
      BY <1>1, <3>1, <3>2 DEF IInv, Types
  <2>3. disk' \in [TestSectors -> Contents]
    BY <2>1, <2>2 DEF IInv, Types
  <2>4. \A s \in TestSectors : s < 2 * n => disk'[s] = "pattern"
    BY <1>5, <1>7, <2>1, <2>2 DEF IInv, Checked
  <2>5. ~passed'
    BY <1>4, <1>5, <1>7 DEF IInv, Checked
  <2>6. Checked'
    BY <1>4, <1>5, <1>7, <2>4, <2>5 DEF Checked
  <2>7. QED
    BY <2>1, <2>3, <2>6 DEF IInv, Types
<1>8. CASE b.to # "read"
  <2>1. buf' = [k \in 1..2 |-> IF First + k - 1 \in moved THEN disk[First + k - 1] ELSE buf[k]]
        /\ disk' = disk
    BY <1>2, <1>8 DEF Move
  <2>2. First + Count <= 2 * TEST_CNT /\ Count \in Nat
    BY <1>1, <1>2, TestAssumption DEF IInv, Called
  <2>3. moved \subseteq TestSectors
    BY <1>3, <2>2, TestAssumption DEF TestSectors
  <2>4. buf' \in [1..2 -> Contents]
    BY <2>1, <2>3 DEF IInv, Types
  <2>5. CASE b.to = "check"
    <3>1. ASSUME NEW k \in 1..2, buf'[k] = "pattern" PROVE disk'[2 * n + (k - 1)] = "pattern"
      <4>1. First + k - 1 = 2 * n + (k - 1)
        BY <1>1, <1>2, <2>5
      <4>2. CASE First + k - 1 \in moved
        BY <2>1, <3>1, <4>1, <4>2
      <4>3. CASE First + k - 1 \notin moved
        BY <1>5, <2>1, <2>5, <3>1, <4>3 DEF IInv, Checked
      <4>4. QED
        BY <4>2, <4>3
    <3>2. ~passed'
      BY <1>4, <1>5, <2>5 DEF IInv, Checked
    <3>3. QED
      BY <1>4, <1>5, <2>1, <2>4, <2>5, <3>1, <3>2 DEF IInv, Types, Checked
  <2>6. CASE b.to = "print"
    BY <1>4, <1>5, <2>1, <2>4, <2>6 DEF IInv, Types, Checked
  <2>7. QED
    BY <1>2, <1>8, <2>5, <2>6
<1>9. QED
  BY <1>7, <1>8

\* The disk serves a request, or changes its size.
LEMMA DeviceSteps ==
  ASSUME IInv, DevServe \/ Resize
  PROVE  IInv'
<1>1. CASE DevServe
  <2>1. avail /\ avail' = FALSE /\ used' = TRUE
        /\ UNCHANGED <<size, smallest, largest, pc, n, b, passed, capacity, flag, live>>
    BY <1>1 DEF DevServe
  <2>2. disk' \in [TestSectors -> Contents] /\ buf' \in [1..2 -> Contents] /\ Checked'
    <3>1. CASE \E moved \in SUBSET Touched : Move(moved)
      BY <2>1, <3>1, MoveKeeps
    <3>2. CASE UNCHANGED <<disk, buf>>
      BY <2>1, <3>2 DEF IInv, Types, Checked, InTest, Reading, After, InCall
    <3>3. QED
      BY <1>1, <3>1, <3>2 DEF DevServe
  <2>3. Types'
    BY <2>1, <2>2 DEF IInv, Types
  <2>4. Called'
    BY <2>1 DEF IInv, Called, InCall
  <2>5. Flow'
    BY <2>1 DEF IInv, Flow
  <2>6. QED
    BY <2>2, <2>3, <2>4, <2>5 DEF IInv
<1>2. CASE Resize
  <2>1. size' \in Sizes /\ largest' = (IF size' > largest THEN size' ELSE largest)
        /\ smallest' = (IF size' < smallest THEN size' ELSE smallest)
        /\ UNCHANGED <<pc, n, b, buf, passed, capacity, disk, flag, live, avail, used>>
    BY <1>2 DEF Resize, mainVars
  <2>2. size' \in Nat /\ smallest' \in Nat /\ largest' \in Nat
        /\ smallest' <= size' /\ size' <= largest' /\ largest <= largest'
    BY <2>1, SizeAssumption DEF IInv, Types
  <2>3. First' = First /\ Count' = Count
    BY <2>1 DEF First, Count
  <2>4. avail => First + Count \in Int
    BY WithinInts DEF IInv, Flow, InCall
  <2>5. Types'
    BY <2>1, <2>2 DEF IInv, Types, U32
  <2>6. Called'
    BY <2>1 DEF IInv, Called, InCall
  <2>7. avail' => First' + Count' <= largest'
    BY <2>1, <2>2, <2>3, <2>4 DEF IInv, Flow, Types
  <2>8. Flow'
    BY <2>1, <2>7 DEF IInv, Flow
  <2>9. Checked'
    BY <2>1 DEF IInv, Checked, InTest, Reading, InCall, After
  <2>10. QED
    BY <2>5, <2>6, <2>8, <2>9 DEF IInv
<1>3. QED
  BY <1>1, <1>2

\* The handler takes the used entry and clears the flag.
LEMMA DrainStep ==
  ASSUME IInv, Drain
  PROVE  IInv'
<1>1. used /\ used' = FALSE /\ UNCHANGED avail
      /\ UNCHANGED <<size, smallest, largest, capacity, n, disk, buf, pc, b, passed>>
  BY DEF Drain, Untouched, mainVars, machineVars
<1>2. ~avail
  BY <1>1 DEF IInv, Flow
<1>3. Types'
  BY <1>1 DEF IInv, Types
<1>4. Called'
  BY <1>1 DEF IInv, Called, InCall
<1>5. Flow'
  BY <1>1, <1>2 DEF Flow
<1>6. Checked'
  BY <1>1 DEF IInv, Checked, InTest, Reading, InCall, After
<1>7. QED
  BY <1>3, <1>4, <1>5, <1>6 DEF IInv

\* The rest of the machine.
LEMMA OtherSteps ==
  ASSUME \/ MainPutc \/ RngAnswer \/ RxByte \/ TxByte \/ \E i \in Lines : Forward(i)
         \/ Trap \/ Claim \/ UartIsr \/ ClearIsr \/ DrainEnd \/ Complete \/ HandlerPutc
  PROVE  UNCHANGED ivars
<1> USE DEF ivars, mainVars, machineVars, queueVars
<1>1. MainPutc => UNCHANGED ivars
  BY DEF MainPutc, Elsewhere
<1>2. RngAnswer \/ RxByte \/ TxByte => UNCHANGED ivars
  BY DEF RngAnswer, RxByte, TxByte
<1>3. (\E i \in Lines : Forward(i)) => UNCHANGED ivars
  BY DEF Forward
<1>4. Trap \/ DrainEnd \/ HandlerPutc => UNCHANGED ivars
  BY DEF Trap, DrainEnd, HandlerPutc, Untouched
<1>5. Claim => UNCHANGED ivars
  BY DEF Claim, Untouched
<1>6. UartIsr => UNCHANGED ivars
  BY DEF UartIsr, Untouched
<1>7. ClearIsr => UNCHANGED ivars
  BY DEF ClearIsr, Untouched
<1>8. Complete => UNCHANGED ivars
  BY DEF Complete, Untouched
<1>9. QED
  BY <1>1, <1>2, <1>3, <1>4, <1>5, <1>6, <1>7, <1>8

\* Every step keeps the invariant of the block test.
LEMMA NextIInv == IInv /\ [Next]_vars => IInv'
<1> SUFFICES ASSUME IInv, [Next]_vars PROVE IInv'
  OBVIOUS
<1>1. CASE UNCHANGED vars
  BY <1>1, Framed DEF vars, ivars, mainVars, machineVars, queueVars
<1>2. CASE Next
  BY <1>2, EarlySteps, RoundSteps, RwSteps, DeviceSteps, DrainStep, OtherSteps, Framed
     DEF Next, MainStep, HandlerStep
<1>3. QED
  BY <1>1, <1>2

-----------------------------------------------------------------------------
\* The invariant of the block test holds.
LEMMA Invariant == Spec => []IInv
  BY InitIInv, NextIInv, PTL DEF Spec

(***************************************************************************)
(* The capacity is the one the disk shows, as long as that is not changed; *)
(* and a round is passed only within it.                                   *)
(***************************************************************************)

\* A round ends well only if its read was let through.
Admitted ==
  /\ InTest => 2 * n <= capacity
  /\ pc = "rw" /\ b.to = "check" => buf[1] # "pattern"
  /\ pc \in {"notify", "wait"} /\ b.to = "check" => 2 * (n + 1) <= capacity
  /\ pc = "check" => buf[1] # "pattern" \/ 2 * (n + 1) <= capacity
  /\ passed => 2 * TEST_CNT <= capacity

Measured ==
  /\ SizeKept /\ (pc = "blk irq" \/ InTest \/ passed) => capacity = StoredCapacity(size)
  /\ Admitted

\* At reset nothing has been measured.
LEMMA InitMeasured == Init => Measured
  BY DEF Init, Measured, Admitted, InTest, InCall

\* Steps that change nothing of this.
LEMMA MeasuredFrame ==
  ASSUME Measured, UNCHANGED <<size, smallest, largest, capacity, n, buf, pc, b, passed>>
  PROVE  Measured'
<1>1. SizeKept' = SizeKept /\ InTest' = InTest /\ StoredCapacity(size)' = StoredCapacity(size)
  BY DEF SizeKept, InTest, InCall, StoredCapacity
<1>2. QED
  BY <1>1 DEF Measured, Admitted

\* Steps of main outside of the block test.
LEMMA MeasuredOutside ==
  ASSUME Measured, ~passed, passed' = passed,
         pc' \in {"console", "traps", "plic", "hello", "rng init", "rng read", "rng poll",
                  "blk init", "blk cfg", "test 2", "fault"}
  PROVE  Measured'
  BY DEF Measured, Admitted, InTest, InCall

\* What main does.
LEMMA MeasuredMain ==
  ASSUME IInv, Measured, MainStep, ~MainPutc
  PROVE  Measured'
<1> USE DEF At, Go, queueVars, trapVars
<1>0. n \in Nat /\ capacity \in Nat
  <2>1. n \in Nat /\ capacity \in 0..Word - 1 /\ Word \in Nat
    BY RangeAssumption DEF IInv, Types, U32
  <2>2. QED
    BY <2>1
<1>1. SizeKept' = SizeKept /\ StoredCapacity(size)' = StoredCapacity(size)
  <2>1. UNCHANGED <<size, smallest, largest>>
    BY DEF MainStep, Elsewhere, machineVars, ConsoleInit, EnableTraps, InitPlic, Hello, RngInit,
       RngRead, RngPoll, RngDone, BlkInit, virtio_pci_blk_cfg, EnableBlkIrq, WriteRound, ReadRound,
       CheckSame, CheckFailed, Passed, virtio_pci_blk_test2, PrintSector, shutdown, RwReject,
       RwPublish, RwNotify, RwWait
  <2>2. QED
    BY <2>1 DEF SizeKept, StoredCapacity
<1>2. passed => After
  BY DEF IInv, Checked
<1>3. CASE \/ ConsoleInit \/ EnableTraps \/ InitPlic \/ Hello \/ RngInit \/ RngRead \/ RngPoll
           \/ RngDone \/ BlkInit \/ CheckFailed
  <2>1. ~passed
    BY <1>2, <1>3 DEF ConsoleInit, EnableTraps, InitPlic, Hello, RngInit, RngRead, RngPoll, RngDone,
       BlkInit, CheckFailed, After, InCall
  <2>2. /\ passed' = passed
        /\ pc' \in {"console", "traps", "plic", "hello", "rng init", "rng read", "rng poll",
                    "blk init", "blk cfg", "test 2", "fault"}
    BY <1>3 DEF ConsoleInit, EnableTraps, InitPlic, Hello, RngInit, RngRead, RngPoll, RngDone,
       BlkInit, CheckFailed
  <2>3. QED
    BY <2>1, <2>2, MeasuredOutside
<1>4. CASE virtio_pci_blk_cfg
  <2>1. pc = "blk cfg" /\ pc' = "blk irq" /\ capacity' = StoredCapacity(size) /\ passed' = passed
    BY <1>4 DEF virtio_pci_blk_cfg
  <2>2. ~passed
    BY <1>2, <2>1 DEF After, InCall
  <2>3. QED
    BY <1>1, <2>1, <2>2 DEF Measured, Admitted, InTest, InCall
<1>5. CASE EnableBlkIrq
  <2>1. pc = "blk irq" /\ pc' = "write" /\ n' = 0 /\ UNCHANGED <<capacity, passed>>
    BY <1>5 DEF EnableBlkIrq
  <2>2. 2 * n' <= capacity'
    <3>1. n' = 0 /\ capacity' = capacity
      BY <2>1
    <3>2. QED
      BY <1>0, <3>1
  <2>3. ~passed
    BY <1>2, <2>1 DEF After, InCall
  <2>4. QED
    BY <1>1, <2>1, <2>2, <2>3 DEF Measured, Admitted, InTest, InCall
<1>6. CASE WriteRound
  <2>1. pc = "write" /\ pc' = "rw" /\ b'.to = "read" /\ UNCHANGED <<n, capacity, passed>>
    BY <1>6 DEF WriteRound, Request
  <2>2. QED
    BY <1>1, <2>1 DEF Measured, Admitted, InTest, InCall
<1>7. CASE ReadRound
  <2>1. pc = "read" /\ pc' = "rw" /\ b'.to = "check" /\ buf' = <<"zeros", "zeros">>
        /\ UNCHANGED <<n, capacity, passed>>
    BY <1>7 DEF ReadRound, Request
  <2>2. buf'[1] # "pattern"
    BY <2>1
  <2>3. QED
    BY <1>1, <2>1, <2>2 DEF Measured, Admitted, InTest, InCall
<1>8. CASE CheckSame
  <2>1. pc = "check" /\ pc' = "write" /\ n' = n + 1 /\ buf = <<"pattern", "pattern">>
        /\ UNCHANGED <<capacity, passed>>
    BY <1>8 DEF CheckSame
  <2>2. buf[1] = "pattern"
    BY <2>1
  <2>3. 2 * (n + 1) <= capacity
    BY <2>1, <2>2 DEF Measured, Admitted
  <2>4. QED
    BY <1>1, <2>1, <2>3 DEF Measured, Admitted, InTest, InCall
<1>9. CASE Passed
  <2>1. pc = "write" /\ n = TEST_CNT /\ pc' = "test 2" /\ passed' = TRUE /\ UNCHANGED capacity
    BY <1>9 DEF Passed
  <2>2. 2 * TEST_CNT <= capacity /\ (SizeKept => capacity = StoredCapacity(size))
    BY <2>1 DEF Measured, Admitted, InTest
  <2>3. QED
    BY <1>1, <2>1, <2>2 DEF Measured, Admitted, InTest, InCall
<1>10. CASE virtio_pci_blk_test2
  <2>1. UNCHANGED <<capacity, passed>> /\ pc' = "rw" /\ b'.to = "print"
    BY <1>10 DEF virtio_pci_blk_test2, Request
  <2>2. ~InTest'
    BY <2>1 DEF InTest, InCall
  <2>3. QED
    BY <1>1, <2>1, <2>2 DEF Measured, Admitted
<1>11. CASE PrintSector \/ shutdown
  <2>1. UNCHANGED <<capacity, passed>> /\ pc' \in {"shutdown", "off"}
    BY <1>11 DEF PrintSector, shutdown
  <2>2. ~InTest'
    BY <2>1 DEF InTest, InCall
  <2>3. QED
    BY <1>1, <2>1, <2>2 DEF Measured, Admitted
<1>12. CASE RwReject
  <2>1. pc = "rw" /\ pc' = b.to /\ UNCHANGED <<n, b, buf, passed, capacity>>
    BY <1>12 DEF RwReject
  <2>2. b.to \in {"read", "check", "print"}
    BY <2>1 DEF IInv, Called, InCall
  <2>3. QED
    BY <1>1, <2>1, <2>2 DEF Measured, Admitted, InTest, InCall
<1>13. CASE RwPublish
  <2>1. pc = "rw" /\ pc' \in {"notify", "fault"} /\ InRange(b.addr, b.len, capacity)
        /\ UNCHANGED <<n, b, buf, passed, capacity>>
    BY <1>13 DEF RwPublish
  <2>2. b.to = "check" => 2 * (n + 1) <= capacity
    <3>1. EndSector(b.addr, b.len) <= capacity /\ InCall
      BY <2>1 DEF InRange, InCall
    <3>2. b.to = "check" => EndSector(b.addr, b.len) = 2 * n + 2
      BY <3>1, CallFacts DEF IInv
    <3>3. QED
      BY <1>0, <3>1, <3>2
  <2>3. QED
    BY <1>1, <2>1, <2>2 DEF Measured, Admitted, InTest, InCall
<1>14. CASE RwNotify \/ RwWait
  <2>1. UNCHANGED <<n, b, buf, passed, capacity>>
        /\ ((pc = "notify" /\ pc' = "wait") \/ (pc = "wait" /\ pc' = b.to))
    BY <1>14 DEF RwNotify, RwWait
  <2>2. b.to \in {"read", "check", "print"}
    BY <2>1 DEF IInv, Called, InCall
  <2>3. QED
    BY <1>1, <2>1, <2>2 DEF Measured, Admitted, InTest, InCall
<1>15. QED
  BY <1>3, <1>4, <1>5, <1>6, <1>7, <1>8, <1>9, <1>10, <1>11, <1>12, <1>13, <1>14 DEF MainStep

\* A disk that has another size has not kept it.
LEMMA SizeChanges ==
  ASSUME IInv, Resize
  PROVE  ~SizeKept'
<1>1. /\ size' \in Nat /\ size' # size /\ size \in Nat /\ smallest \in Nat /\ largest \in Nat
      /\ smallest <= size /\ size <= largest
      /\ smallest' = (IF size' < smallest THEN size' ELSE smallest)
      /\ largest' = (IF size' > largest THEN size' ELSE largest)
  BY SizeAssumption DEF Resize, IInv, Types
<1>2. smallest' # largest'
  BY <1>1
<1>3. QED
  BY <1>2 DEF SizeKept

\* Every step keeps what has been measured.
LEMMA NextMeasured ==
  ASSUME IInv, Measured, [Next]_vars
  PROVE  Measured'
<1> USE DEF machineVars, mainVars, queueVars, trapVars
<1>1. CASE UNCHANGED vars
  BY <1>1, MeasuredFrame DEF vars
<1>2. CASE MainStep /\ ~MainPutc
  BY <1>2, MeasuredMain
<1>3. CASE MainPutc \/ RngAnswer \/ RxByte \/ TxByte \/ \E i \in Lines : Forward(i)
  BY <1>3, MeasuredFrame DEF MainPutc, Elsewhere, RngAnswer, RxByte, TxByte, Forward
<1>4. CASE Trap \/ HandlerStep
  BY <1>4, MeasuredFrame DEF Trap, HandlerStep, Claim, UartIsr, ClearIsr, Drain, DrainEnd, Complete,
     HandlerPutc, Untouched
<1>5. CASE DevServe
  <2>1. avail /\ UNCHANGED <<size, smallest, largest, pc, n, b, passed, capacity>>
    BY <1>5 DEF DevServe
  <2>2. pc \in {"notify", "wait"}
    BY <2>1 DEF IInv, Flow
  <2>3. SizeKept' = SizeKept /\ InTest' = InTest /\ StoredCapacity(size)' = StoredCapacity(size)
    BY <2>1 DEF SizeKept, InTest, InCall, StoredCapacity
  <2>4. QED
    BY <2>1, <2>2, <2>3 DEF Measured, Admitted
<1>6. CASE Resize
  <2>1. ~SizeKept' /\ UNCHANGED <<n, buf, pc, b, passed, capacity>>
    BY <1>6, SizeChanges DEF Resize
  <2>2. Admitted'
    BY <2>1 DEF Measured, Admitted, InTest, InCall
  <2>3. QED
    BY <2>1, <2>2 DEF Measured
<1>7. QED
  BY <1>1, <1>2, <1>3, <1>4, <1>5, <1>6 DEF Next

\* What has been measured holds in every state.
LEMMA MeasuredAlways == Spec => []Measured
<1>1. IInv /\ Measured /\ [Next]_vars => Measured'
  BY NextMeasured
<1>2. QED
  BY <1>1, InitMeasured, Invariant, PTL DEF Spec

\* The capacity is one the disk has had, and the low 32 bits of what it has as
\* long as that is not changed.  By it, virtio_pci_blk_rw judges every whole
\* request by its end, and where the u32 sum wraps, by what is left of it: for
\* every width of the integers, sector size and disk (virtio-pci-blk.c:132,
\* 147-154).
THEOREM RangeAlwaysExact == Spec => []RangeIsExact
<1>1. IInv /\ Measured => RangeIsExact
  <2> SUFFICES ASSUME IInv, Measured, pc = "blk irq"
               PROVE  /\ capacity <= largest
                      /\ SizeKept /\ size < Word => capacity = size
                      /\ \A addr \in U32, len \in U32 : Exact(addr, len, capacity)
    BY DEF RangeIsExact
  <2>1. capacity \in U32 /\ capacity <= largest /\ size \in Nat
    BY DEF IInv, Types
  <2>2. SizeKept => capacity = StoredCapacity(size)
    BY DEF Measured
  <2>3. size < Word => StoredCapacity(size) = size
    <3>1. Word \in Nat \ {0} /\ size \in Nat
      BY <2>1, RangeAssumption
    <3>2. size < Word => size % Word = size
      BY <3>1, BelowModulus
    <3>3. QED
      BY <3>2 DEF StoredCapacity
  <2>4. \A addr \in U32, len \in U32 : Exact(addr, len, capacity)
    BY <2>1, CheckIsExact
  <2>5. QED
    BY <2>1, <2>2, <2>3, <2>4
<1>2. QED
  BY <1>1, Invariant, MeasuredAlways, PTL

\* The disk is never given a request that goes past the largest size it has
\* shown, nor one before its initialisation (virtio-pci-blk.c:151, main.c:128).
THEOREM RequestsFit == Spec => []RequestFits
<1>1. IInv => RequestFits
  BY DEF IInv, Flow, RequestFits
<1>2. QED
  BY <1>1, Invariant, PTL

\* "passed!" is printed only when the whole pattern is on the disk, however the
\* requests failed and whatever sizes the disk took on (main.c:98-125).
THEOREM PassedCorrect == Spec => []PassedIsStored
<1>1. IInv => PassedIsStored
  BY DEF IInv, Checked, PassedIsStored
<1>2. QED
  BY <1>1, Invariant, PTL

-----------------------------------------------------------------------------
(***************************************************************************)
(* The console.  From UartInit on, the lemmas on the queues; before it,    *)
(* nobody prints, and the handler cannot run.                              *)
(***************************************************************************)

\* While UartInit is at its n-th store.
Booting ==
  pc = "console" =>
    /\ n \in 1..7 /\ ~sie /\ hpc = "none"
    /\ tx = << >> /\ \A w \in Callers : putting[w] = << >> /\ ~polled[w]
    /\ said["main"] = 0 /\ said["isr"] = 0 /\ \A s \in Sources : heard[s] = 0
    /\ (dlab <=> n \in 3..5)
    /\ (n >= 4 => divisor[1] = 1) /\ (n >= 5 => divisor[2] = 0)
    /\ (n >= 7 => fifo)

\* Main only runs when the handler has nothing left in its hands.
Line ==
  /\ OnLine /\ Booting
  /\ pc # "console" => SetUp
  /\ hpc = "none" => Idle("handler")

\* Steps that leave the console alone.
LEMMA Still ==
  ASSUME Line, UNCHANGED uartVars,
         UNCHANGED <<pc, n, sie, hpc>> \/ (pc # "console" /\ pc' # "console"),
         hpc' = "none" => hpc = "none" \/ Idle("handler")
  PROVE  Line'
<1>1. UNCHANGED <<dlab, divisor, fifo, rdi, tx, rx, putting, polled, said, heard>>
  BY DEF uartVars, uartRegs
<1>2. OnLine'
  <2>1. Ordered'
    BY <1>1, SameBytes DEF Line, OnLine, OnTheWay
  <2>2. UartTypeOK' /\ Senders'
    BY <1>1 DEF Line, OnLine, UartTypeOK, Senders, Depth
  <2>3. QED
    BY <2>1, <2>2 DEF OnLine
<1>3. Booting' /\ (pc' # "console" => SetUp')
  BY <1>1 DEF Line, Booting, SetUp
<1>4. hpc' = "none" => Idle("handler")'
  BY <1>1 DEF Line, Idle
<1>5. QED
  BY <1>2, <1>3, <1>4 DEF Line

\* Steps of the driver and of the line once the registers are set.
LEMMA Moving ==
  ASSUME Line, pc # "console", pc' # "console", Running',
         hpc' = "none" => Idle("handler")'
  PROVE  Line'
  BY DEF Line, Running, OnLine, Booting

\* UartInit has set the registers.
LEMMA RunningNow ==
  ASSUME Line, pc # "console"
  PROVE  Running
  BY DEF Line, OnLine, Running

\* A step of main that prints.
LEMMA Speaks ==
  ASSUME Line, pc # "console", pc' # "console", Idle("main"), Say, UNCHANGED hpc
  PROVE  Line'
<1>1. Running
  BY RunningNow
<1>2. Running'
  BY <1>1, MainSays DEF Say
<1>3. putting'["handler"] = putting["handler"]
  BY <1>1 DEF Running, UartTypeOK, Say, Putc, Callers
<1>4. QED
  BY <1>2, <1>3, Moving DEF Line, Idle

\* Of a source that has had no byte, none is on its way.
LEMMA NothingYet ==
  ASSUME NEW s
  PROVE  Numbered(<< >>, s, 0, 0)
<1>1. (\A k \in DOMAIN << >> : FALSE) /\ \A m : m \notin 0 + 1 .. 0
  OBVIOUS
<1>2. QED
  BY <1>1, NumberedIs, 0 \in Nat, 0 <= 0

\* One store of UartInit; the one to FCR empties both FIFOs.
LEMMA ConsoleKeeps ==
  ASSUME Line, ConsoleInit
  PROVE  Line'
<1>1. /\ pc = "console" /\ hpc = "none" /\ hpc' = hpc /\ sie' = sie
      /\ Store(UartInit[n][1], UartInit[n][2])
      /\ UNCHANGED <<putting, polled, heard>>
      /\ IF n < 7 THEN n' = n + 1 /\ pc' = "console" ELSE n' = 0 /\ pc' = "traps"
  BY DEF ConsoleInit, At, Go, Elsewhere, trapVars, UartInit
<1>2. /\ n \in 1..7 /\ ~sie
      /\ tx = << >> /\ \A w \in Callers : putting[w] = << >> /\ ~polled[w]
      /\ said["main"] = 0 /\ said["isr"] = 0 /\ \A s \in Sources : heard[s] = 0
      /\ (dlab <=> n \in 3..5)
      /\ (n >= 4 => divisor[1] = 1) /\ (n >= 5 => divisor[2] = 0)
      /\ (n >= 7 => fifo)
  BY <1>1 DEF Line, Booting
<1>3. UartTypeOK /\ Ordered /\ Senders /\ divisor = <<divisor[1], divisor[2]>>
  BY DEF Line, OnLine, UartTypeOK
<1> DEFINE Steady == UNCHANGED <<tx, rx, said, fifo>>
<1>4. /\ n = 1 => dlab' = dlab /\ divisor' = divisor /\ rdi' \in BOOLEAN /\ Steady
      /\ n = 2 => dlab' = TRUE /\ divisor' = divisor /\ rdi' = rdi /\ Steady
      /\ n = 3 => dlab' = dlab /\ divisor' = <<1, divisor[2]>> /\ rdi' = rdi /\ Steady
      /\ n = 4 => dlab' = dlab /\ divisor' = <<divisor[1], 0>> /\ rdi' = rdi /\ Steady
      /\ n = 5 => dlab' = FALSE /\ divisor' = divisor /\ rdi' = rdi /\ Steady
      /\ n = 6 => /\ dlab' = dlab /\ divisor' = divisor /\ rdi' = rdi /\ fifo' = TRUE
                  /\ rx' = << >> /\ tx' = << >> /\ said' = [said EXCEPT !["echo"] = Len(rx')]
      /\ n = 7 => dlab' = dlab /\ divisor' = divisor /\ rdi' \in BOOLEAN /\ Steady
  <2>1. /\ dlab /\ Store(1, 0) => divisor' = <<divisor[1], 0>> /\ UNCHANGED <<dlab, fifo, rdi, tx, rx, said>>
        /\ ~dlab /\ (Store(1, 0) \/ Store(1, 1)) => rdi' \in BOOLEAN /\ UNCHANGED <<dlab, divisor, fifo, tx, rx, said>>
        /\ Store(0, 1) => divisor' = <<1, divisor[2]>> /\ UNCHANGED <<dlab, fifo, rdi, tx, rx, said>>
        /\ Store(3, 3) => dlab' = FALSE /\ UNCHANGED <<divisor, fifo, rdi, tx, rx, said>>
        /\ Store(3, 128) => dlab' = TRUE /\ UNCHANGED <<divisor, fifo, rdi, tx, rx, said>>
        /\ Store(2, 7) => /\ fifo' = TRUE /\ rx' = << >> /\ tx' = << >>
                          /\ said' = [said EXCEPT !["echo"] = Len(rx')]
                          /\ UNCHANGED <<dlab, divisor, rdi>>
    <3> USE DEF Store, THR, IER, FCR, LCR, LCR_DLAB, IER_RDI
    <3>1. /\ 0 # 1 /\ 0 # 2 /\ 0 # 3 /\ 1 # 0 /\ 1 # 2 /\ 1 # 3
          /\ 2 # 0 /\ 2 # 1 /\ 2 # 3 /\ 3 # 0 /\ 3 # 1 /\ 3 # 2
      OBVIOUS
    <3>2. (3 >= 128) = FALSE /\ (128 >= 128) = TRUE
      OBVIOUS
    <3>3. (0 % 2 = 1) \in BOOLEAN /\ (1 % 2 = 1) \in BOOLEAN /\ 7 % 2 = 1 /\ (7 \div 2) % 2 = 1 /\ (7 \div 4) % 2 = 1
      OBVIOUS
    <3>4. dlab /\ Store(1, 0) => divisor' = <<divisor[1], 0>> /\ UNCHANGED <<dlab, fifo, rdi, tx, rx, said>>
      BY <3>1, Zenon
    <3>5. ~dlab /\ (Store(1, 0) \/ Store(1, 1)) => rdi' \in BOOLEAN /\ UNCHANGED <<dlab, divisor, fifo, tx, rx, said>>
      BY <3>1, <3>3, Zenon
    <3>6. Store(0, 1) => divisor' = <<1, divisor[2]>> /\ UNCHANGED <<dlab, fifo, rdi, tx, rx, said>>
      BY <3>1, Zenon
    <3>7. /\ Store(3, 3) => dlab' = FALSE /\ UNCHANGED <<divisor, fifo, rdi, tx, rx, said>>
          /\ Store(3, 128) => dlab' = TRUE /\ UNCHANGED <<divisor, fifo, rdi, tx, rx, said>>
      BY <3>1, <3>2, Zenon
    <3>8. Store(2, 7) => /\ fifo' = TRUE /\ rx' = << >> /\ tx' = << >>
                         /\ said' = [said EXCEPT !["echo"] = Len(rx')]
                         /\ UNCHANGED <<dlab, divisor, rdi>>
      BY <3>1, <3>3, Zenon
    <3> HIDE DEF Store
    <3>9. QED
      BY <3>4, <3>5, <3>6, <3>7, <3>8
  <2>2. /\ (n = 1 => Store(1, 0)) /\ (n = 2 => Store(3, 128)) /\ (n = 3 => Store(0, 1))
        /\ (n = 4 => Store(1, 0)) /\ (n = 5 => Store(3, 3)) /\ (n = 6 => Store(2, 7))
        /\ (n = 7 => Store(1, 1))
    BY <1>1 DEF UartInit, THR, IER, FCR, LCR, LCR_8N1, LCR_DLAB, IER_RDI, FCR_ALL
  <2>3. (n \in {1, 7} => ~dlab) /\ (n = 4 => dlab)
    BY <1>2
  <2>4. QED
    BY <2>1, <2>2, <2>3
<1>5. CASE n # 6
  <2>1. Steady /\ dlab' \in BOOLEAN /\ rdi' \in BOOLEAN /\ divisor' \in Nat \X Nat
    <3>1. /\ dlab \in BOOLEAN /\ rdi \in BOOLEAN /\ divisor \in Nat \X Nat
          /\ <<1, divisor[2]>> \in Nat \X Nat /\ <<divisor[1], 0>> \in Nat \X Nat
      BY <1>3 DEF UartTypeOK
    <3>2. n \in {1, 2, 3, 4, 5, 7}
      BY <1>2, <1>5
    <3> HIDE DEF Steady
    <3>3. QED
      BY <1>4, <3>1, <3>2
  <2>2. Ordered'
    BY <1>1, <1>3, <2>1, SameBytes DEF OnTheWay
  <2>3. UartTypeOK' /\ Senders'
    BY <1>1, <1>3, <2>1 DEF UartTypeOK, Senders, Depth
  <2>4. Booting'
    BY <1>1, <1>2, <1>3, <1>4, <1>5, <2>1 DEF Booting
  <2>5. pc' # "console" => SetUp'
    BY <1>1, <1>2, <1>3, <1>4, <1>5, <2>1 DEF SetUp
  <2>6. QED
    BY <1>1, <2>2, <2>3, <2>4, <2>5 DEF Line, OnLine, Idle
<1>6. CASE n = 6
  <2>1. /\ dlab' = dlab /\ divisor' = divisor /\ rdi' = rdi /\ fifo' = TRUE
        /\ rx' = << >> /\ tx' = << >> /\ said' = [said EXCEPT !["echo"] = 0]
        /\ n' = 7 /\ pc' = "console"
    BY <1>1, <1>4, <1>6
  <2>2. \A s \in Sources : said'[s] = 0 /\ heard'[s] = 0
    BY <1>1, <1>2, <1>3, <2>1 DEF UartTypeOK, Sources
  <2>3. OnTheWay' = << >>
    <3>1. putting'["main"] = << >> /\ putting'["handler"] = << >>
      BY <1>1, <1>2 DEF Callers
    <3>2. << >> \in Seq(Bytes) /\ << >> \o << >> = << >>
      BY ConcatEmptySeq
    <3>3. QED
      BY <2>1, <3>1, <3>2 DEF OnTheWay
  <2>4. Ordered'
    BY <2>2, <2>3, NothingYet DEF Ordered, InOrder
  <2>5. UartTypeOK'
    <3>1. said' \in [Sources -> Nat]
      BY <1>3, <2>1 DEF UartTypeOK
    <3>2. << >> \in Seq(Bytes) /\ Len(<< >>) = 0
      OBVIOUS
    <3>3. QED
      BY <1>1, <1>3, <2>1, <3>1, <3>2, FifoAssumption DEF UartTypeOK, Depth
  <2>6. Senders'
    BY <1>1, <1>3, <2>1 DEF Senders
  <2>7. Booting'
    BY <1>1, <1>2, <1>6, <2>1, <2>2 DEF Booting, Sources
  <2>8. QED
    BY <1>1, <2>1, <2>4, <2>5, <2>6, <2>7 DEF Line, OnLine, Idle
<1>7. QED
  BY <1>5, <1>6

\* Main, except for its calls of UartPutc.
LEMMA MainLine ==
  ASSUME IInv, Line, MainStep, ~MainPutc
  PROVE  Line'
<1> USE DEF At, Go, Elsewhere, trapVars
<1>1. CASE ConsoleInit
  BY <1>1, ConsoleKeeps
<1>2. CASE \/ Hello \/ RngInit \/ RngRead \/ RngPoll \/ RngDone \/ BlkInit \/ virtio_pci_blk_cfg
           \/ EnableBlkIrq \/ CheckFailed \/ Passed \/ PrintSector \/ RwPublish
  <2>1. pc # "console" /\ pc' # "console" /\ Idle("main") /\ Say /\ UNCHANGED hpc
    BY <1>2 DEF Hello, RngInit, RngRead, RngPoll, RngDone, BlkInit, virtio_pci_blk_cfg,
       EnableBlkIrq, CheckFailed, Passed, PrintSector, RwPublish
  <2>2. QED
    BY <2>1, Speaks
<1>3. CASE EnableTraps \/ InitPlic \/ WriteRound \/ ReadRound \/ CheckSame \/ virtio_pci_blk_test2
           \/ shutdown \/ RwNotify
  <2>1. pc # "console" /\ pc' # "console" /\ Silent /\ UNCHANGED hpc
    BY <1>3 DEF EnableTraps, InitPlic, WriteRound, ReadRound, CheckSame, virtio_pci_blk_test2,
       shutdown, RwNotify
  <2>2. QED
    BY <2>1, Still DEF Silent
<1>4. CASE RwReject \/ RwWait
  <2>1. InCall /\ pc # "console" /\ pc' = b.to /\ Idle("main") /\ UNCHANGED hpc
    BY <1>4 DEF RwReject, RwWait, InCall
  <2>2. pc' # "console"
    BY <2>1 DEF IInv, Called
  <2>3. QED
    BY <1>4, <2>1, <2>2, Speaks, Still DEF RwReject, RwWait, Silent
<1>5. QED
  BY <1>1, <1>2, <1>3, <1>4 DEF MainStep

\* UartPutc, on the main thread and in the handler.
LEMMA PutcLine ==
  ASSUME Line, MainPutc \/ HandlerPutc
  PROVE  Line'
<1>1. PICK w \in Callers : UartPutc(w) /\ UNCHANGED <<pc, hpc>> /\ (w = "main" <=> hpc = "none")
                                       /\ (w = "handler" => hpc # "none")
  BY DEF MainPutc, HandlerPutc, Callers, mainVars, trapVars, Elsewhere, Untouched
<1>2. putting[w] # << >> \/ polled[w]
  BY <1>1 DEF UartPutc, PutcPoll, PutcStore, Idle
<1>3. pc # "console"
  BY <1>2 DEF Line, Booting
<1>4. Running
  BY <1>3, RunningNow
<1>5. w = "main" => Idle("handler")
  BY <1>1 DEF Line
<1>6. Running'
  BY <1>1, <1>4, <1>5, PollKeeps, StoreKeeps DEF UartPutc
<1>7. hpc' = "none" => Idle("handler")'
  <2>1. SUFFICES ASSUME w = "main" PROVE putting'["handler"] = putting["handler"]
    BY <1>1, <1>5 DEF Idle
  <2>2. putting' = putting \/ putting' = [putting EXCEPT !["main"] = << >>]
    BY <1>1, <2>1 DEF UartPutc, PutcPoll, PutcStore
  <2>3. QED
    BY <1>4, <2>2 DEF Running, UartTypeOK, Callers
<1>8. QED
  BY <1>1, <1>3, <1>6, <1>7, Moving

\* What the line itself does.
LEMMA WireLine ==
  ASSUME Line, RxByte \/ TxByte
  PROVE  Line'
<1> USE DEF mainVars, trapVars
<1>1. CASE RxByte
  <2>1. Receive /\ UNCHANGED <<pc, n, sie, hpc>>
    BY <1>1 DEF RxByte
  <2>2. OnLine'
    BY <2>1, ReceiveKeeps DEF Line
  <2>3. UNCHANGED <<dlab, divisor, fifo, tx, putting, polled, heard>>
        /\ said' = [said EXCEPT !["echo"] = said["echo"] + 1]
    BY <2>1 DEF Receive, uartRegs
  <2>4. said'["main"] = said["main"] /\ said'["isr"] = said["isr"]
    BY <2>3 DEF Line, OnLine, UartTypeOK, Sources
  <2>5. Booting' /\ (pc' # "console" => SetUp')
    BY <2>1, <2>3, <2>4 DEF Line, Booting, SetUp
  <2>6. QED
    BY <2>1, <2>2, <2>3, <2>5 DEF Line, Idle
<1>2. CASE TxByte
  <2>1. Shift /\ UNCHANGED <<pc, hpc>>
    BY <1>2 DEF TxByte
  <2>2. pc # "console" /\ putting' = putting
    BY <2>1 DEF Shift, Line, Booting
  <2>3. Running'
    BY <2>1, <2>2, RunningNow, ShiftKeeps
  <2>4. QED
    BY <2>1, <2>2, <2>3, Moving DEF Line, Idle
<1>3. QED
  BY <1>1, <1>2

\* The devices and the handler.
LEMMA TrapLine ==
  ASSUME Line, \/ RngAnswer \/ DevServe \/ Resize \/ \E i \in Lines : Forward(i)
               \/ Trap \/ Claim \/ UartIsr \/ ClearIsr \/ Drain \/ DrainEnd \/ Complete
  PROVE  Line'
<1> USE DEF mainVars, trapVars
<1>1. CASE RngAnswer \/ DevServe \/ Resize \/ \E i \in Lines : Forward(i)
  BY <1>1, Still DEF RngAnswer, DevServe, Resize, Forward
<1>2. CASE Trap \/ Claim \/ ClearIsr \/ DrainEnd \/ Complete
  <2>1. pc' = pc /\ UNCHANGED uartVars /\ Idle("handler")
    BY <1>2 DEF Trap, Claim, ClearIsr, DrainEnd, Complete, InTrap, Untouched
  <2>2. sie \/ hpc # "none"
    BY <1>2 DEF Trap, Claim, ClearIsr, DrainEnd, Complete, InTrap
  <2>3. pc # "console"
    BY <2>2 DEF Line, Booting
  <2>4. QED
    BY <2>1, <2>3, Still
<1>3. CASE UartIsr \/ Drain
  <2>1. pc' = pc /\ hpc # "none" /\ hpc' # "none" /\ Idle("handler")
    BY <1>3 DEF UartIsr, Drain, InTrap, Untouched
  <2>2. pc # "console"
    BY <2>1 DEF Line, Booting
  <2>3. Running
    BY <2>2, RunningNow
  <2>4. CASE Drain
    <3>1. Running'
      BY <2>1, <2>3, <2>4, IsrSays DEF Drain
    <3>2. QED
      BY <2>1, <2>2, <3>1, Moving
  <2>5. CASE UartIsr /\ DR
    <3>1. Running'
      BY <2>1, <2>3, <2>5, EchoKeeps DEF UartIsr
    <3>2. QED
      BY <2>1, <2>2, <3>1, Moving
  <2>6. CASE UartIsr /\ ~DR
    BY <2>1, <2>2, <2>6, Still DEF UartIsr
  <2>7. QED
    BY <1>3, <2>4, <2>5, <2>6
<1>4. QED
  BY <1>1, <1>2, <1>3

\* Every step keeps the console in order.
LEMMA NextLine ==
  ASSUME IInv, Line, [Next]_vars
  PROVE  Line'
<1>1. CASE UNCHANGED vars
  BY <1>1, Still DEF vars, mainVars, trapVars
<1>2. CASE Next
  BY <1>2, MainLine, PutcLine, WireLine, TrapLine DEF Next, MainStep, HandlerStep
<1>3. QED
  BY <1>1, <1>2

\* At reset nothing is on the line.
LEMMA InitLine == Init => Line
<1> SUFFICES ASSUME Init PROVE Line
  OBVIOUS
<1>1. /\ dlab = FALSE /\ fifo = FALSE /\ rdi = FALSE /\ divisor = <<2, 1>>
      /\ tx = << >> /\ rx = << >> /\ pc = "console" /\ n = 1 /\ sie = FALSE /\ hpc = "none"
      /\ putting = [w \in Callers |-> << >>] /\ polled = [w \in Callers |-> FALSE]
      /\ said = [s \in Sources |-> 0] /\ heard = [s \in Sources |-> 0]
  BY DEF Init, UartReset
<1>2. << >> \in Seq(Bytes) /\ Len(<< >>) = 0 /\ (\A k \in DOMAIN << >> : FALSE)
  OBVIOUS
<1>3. UartTypeOK
  <2>1. /\ dlab \in BOOLEAN /\ fifo \in BOOLEAN /\ rdi \in BOOLEAN /\ divisor \in Nat \X Nat
        /\ polled \in [Callers -> BOOLEAN] /\ said \in [Sources -> Nat] /\ heard \in [Sources -> Nat]
    BY <1>1
  <2>2. tx \in Seq(Bytes) /\ rx \in Seq(Bytes) /\ putting \in [Callers -> Seq(Bytes)]
    BY <1>1, <1>2
  <2>3. Len(tx) <= Depth /\ Len(rx) <= Depth
    BY <1>1, <1>2 DEF Depth
  <2>4. QED
    BY <2>1, <2>2, <2>3 DEF UartTypeOK
<1>4. OnTheWay = << >>
  <2>1. << >> \o << >> = << >>
    BY <1>2, ConcatEmptySeq
  <2>2. QED
    BY <1>1, <2>1 DEF OnTheWay, Callers
<1>5. Ordered
  BY <1>1, <1>4, NothingYet DEF Ordered, InOrder
<1>6. Senders
  BY <1>1, <1>2 DEF Senders, Callers
<1>7. Booting
  BY <1>1 DEF Booting, Sources
<1>8. QED
  BY <1>1, <1>3, <1>5, <1>6, <1>7 DEF Line, OnLine, Idle, Callers

\* The types of the rest.
Others ==
  /\ PlicTypeOK /\ rng \in Kinds /\ blk \in Kinds
  /\ erred \in BOOLEAN /\ passed \in BOOLEAN /\ live \in BOOLEAN
  /\ avail \in BOOLEAN /\ used \in BOOLEAN /\ flag \in {0, 1} /\ isr \in {0, 1}
  /\ b.addr \in U32 /\ b.len \in U32 /\ b.write \in BOOLEAN

\* Types at reset.
LEMMA InitOthers == Init => Others
<1> SUFFICES ASSUME Init PROVE Others
  OBVIOUS
<1>1. PlicTypeOK
  BY DEF Init, PlicReset, PlicTypeOK
<1>2. rng \in Kinds /\ blk \in Kinds
  BY MachineAssumption DEF Init
<1>3. 0 \in U32
  BY RangeAssumption DEF U32
<1>4. QED
  BY <1>1, <1>2, <1>3 DEF Init, Others, Request

\* Every address the test asks for is a u32.
LEMMA AddressFits ==
  ASSUME NEW m \in Nat, m <= TEST_CNT
  PROVE  m * DATA_LEN \in U32 /\ DATA_LEN \in U32 /\ 0 \in U32 /\ Half \in U32
<1>1. DATA_LEN \in Nat \ {0} /\ TEST_CNT \in Nat \ {0} /\ Word \in Nat \ {0}
  BY RangeAssumption, TestAssumption, SMTT(30) DEF DATA_LEN
<1>2. m * DATA_LEN = DATA_LEN * m /\ TEST_CNT * DATA_LEN = DATA_LEN * TEST_CNT
      /\ 1 * DATA_LEN = DATA_LEN * 1 /\ DATA_LEN * 1 = DATA_LEN
  BY <1>1, SMTT(30)
<1>3. DATA_LEN * m <= DATA_LEN * TEST_CNT /\ DATA_LEN * 1 <= DATA_LEN * TEST_CNT
  BY <1>1, TimesMonotone
<1>4. DATA_LEN * m \in Nat /\ DATA_LEN * TEST_CNT \in Nat /\ Half \in Nat /\ Half <= DATA_LEN
  <2>1. DATA_LEN * m \in Nat /\ DATA_LEN * TEST_CNT \in Nat
    BY <1>1, DivTimes
  <2>2. Half \in Nat /\ Half <= DATA_LEN
    BY <1>1 DEF Half
  <2>3. QED
    BY <2>1, <2>2
<1>5. QED
  BY <1>1, <1>2, <1>3, <1>4, SpaceAssumption DEF U32

\* What main asks the disk for.
LEMMA RequestType ==
  ASSUME IInv, WriteRound \/ ReadRound \/ virtio_pci_blk_test2
  PROVE  b'.addr \in U32 /\ b'.len \in U32 /\ b'.write \in BOOLEAN
<1>1. n \in Nat /\ (pc \in {"read", "check"} => n < TEST_CNT) /\ TEST_CNT \in Nat
  BY TestAssumption DEF IInv, Types, Called
<1>2. CASE WriteRound \/ ReadRound
  <2>1. n < TEST_CNT
    BY <1>1, <1>2 DEF WriteRound, ReadRound, At
  <2>2. n * DATA_LEN \in U32 /\ DATA_LEN \in U32
    BY <1>1, <2>1, AddressFits
  <2>3. WriteRound => b'.addr = n * DATA_LEN /\ b'.len = DATA_LEN /\ b'.write = TRUE
    BY DEF WriteRound, Request
  <2>4. ReadRound => b'.addr = n * DATA_LEN /\ b'.len = DATA_LEN /\ b'.write = FALSE
    BY DEF ReadRound, Request
  <2>5. QED
    BY <1>2, <2>2, <2>3, <2>4
<1>3. CASE virtio_pci_blk_test2
  <2>1. b'.addr = 0 /\ b'.len = Half /\ b'.write = FALSE
    BY <1>3 DEF virtio_pci_blk_test2, Request
  <2>2. 0 \in U32 /\ Half \in U32
    BY <1>1, AddressFits
  <2>3. QED
    BY <2>1, <2>2
<1>4. QED
  BY <1>2, <1>3

\* plic_enable for the disk keeps the type of the PLIC.
LEMMA EnableType ==
  ASSUME PlicTypeOK, plic_enable(PCIE_IRQ_PINB), UNCHANGED <<pending, claimed>>
  PROVE  PlicTypeOK'
<1>1. EnableBit(PCIE_IRQ_PINB) \in (0..1) \X (0..31) /\ PCIE_IRQ_PINB \in Irqs
  BY DEF EnableBit, PCIE_IRQ_PINB, Irqs
<1>2. QED
  BY <1>1 DEF plic_enable, PlicTypeOK

\* Main's steps keep the types.
LEMMA MainOthers ==
  ASSUME IInv, Others, MainStep
  PROVE  Others'
<1> USE DEF Others, At, Go, Elsewhere, machineVars, mainVars, queueVars, trapVars
<1>1. CASE InitPlic \/ EnableBlkIrq
  <2>1. PlicTypeOK'
    <3>1. PlicTypeOK /\ UNCHANGED <<pending, claimed>>
      BY <1>1 DEF InitPlic, EnableBlkIrq
    <3>2. CASE InitPlic
      BY <3>1, <3>2 DEF InitPlic, plic_init, PlicTypeOK, EnableBit, UART0_IRQ, Irqs
    <3>3. CASE EnableBlkIrq
      BY <1>1, <3>1, <3>3, EnableType DEF EnableBlkIrq
    <3>4. QED
      BY <1>1, <3>2, <3>3
  <2>2. UNCHANGED <<rng, blk, erred, passed, flag, live, avail, used, isr, b>>
    BY <1>1 DEF InitPlic, EnableBlkIrq
  <2>3. QED
    BY <2>1, <2>2
<1>2. CASE WriteRound \/ ReadRound \/ virtio_pci_blk_test2
  <2>1. UNCHANGED <<rng, blk, erred, passed, flag, live, avail, used, isr, plicVars>>
    BY <1>2 DEF WriteRound, ReadRound, virtio_pci_blk_test2
  <2>2. b'.addr \in U32 /\ b'.len \in U32 /\ b'.write \in BOOLEAN
    BY <1>2, RequestType
  <2>3. PlicTypeOK'
    BY <2>1 DEF PlicTypeOK, plicVars
  <2>4. QED
    BY <2>1, <2>2, <2>3
<1>3. CASE BlkInit \/ Passed \/ RwPublish
  <2>1. UNCHANGED <<rng, blk, erred, used, isr, b, plicVars>>
    BY <1>3 DEF BlkInit, Passed, RwPublish
  <2>2. passed' \in BOOLEAN /\ live' \in BOOLEAN /\ avail' \in BOOLEAN /\ flag' \in {0, 1}
    BY <1>3 DEF BlkInit, Passed, RwPublish
  <2>3. PlicTypeOK'
    BY <2>1 DEF PlicTypeOK, plicVars
  <2>4. QED
    BY <2>1, <2>2, <2>3
<1>4. CASE \/ ConsoleInit \/ EnableTraps \/ Hello \/ RngInit \/ RngRead \/ RngPoll \/ RngDone
           \/ virtio_pci_blk_cfg \/ CheckSame \/ CheckFailed \/ PrintSector \/ shutdown
           \/ RwReject \/ RwNotify \/ RwWait \/ MainPutc
  <2>1. UNCHANGED <<rng, blk, erred, passed, flag, live, avail, used, isr, b, plicVars>>
    BY <1>4 DEF ConsoleInit, EnableTraps, Hello, RngInit, RngRead, RngPoll, RngDone,
       virtio_pci_blk_cfg, CheckSame, CheckFailed, PrintSector, shutdown,
       RwReject, RwNotify, RwWait, MainPutc
  <2>2. PlicTypeOK'
    BY <2>1 DEF PlicTypeOK, plicVars
  <2>3. QED
    BY <2>1, <2>2
<1>5. QED
  BY <1>1, <1>2, <1>3, <1>4 DEF MainStep

\* So do those of the devices, the lines and the handler.
LEMMA OtherOthers ==
  ASSUME Others,
         \/ RngAnswer \/ DevServe \/ Resize \/ RxByte \/ TxByte \/ \E i \in Lines : Forward(i)
         \/ Trap \/ HandlerStep
  PROVE  Others'
<1> USE DEF Others, Untouched, machineVars, mainVars, queueVars, trapVars
<1>1. CASE RngAnswer \/ RxByte \/ TxByte \/ Trap \/ UartIsr \/ DrainEnd \/ HandlerPutc
  <2>1. UNCHANGED <<rng, blk, erred, passed, flag, live, avail, used, isr, b, plicVars>>
    BY <1>1 DEF RngAnswer, RxByte, TxByte, Trap, UartIsr, DrainEnd, HandlerPutc
  <2>2. PlicTypeOK'
    BY <2>1 DEF PlicTypeOK, plicVars
  <2>3. QED
    BY <2>1, <2>2
<1>2. CASE DevServe \/ Resize \/ ClearIsr \/ Drain
  <2>1. UNCHANGED <<rng, blk, passed, live, b, plicVars>>
    BY <1>2 DEF DevServe, Resize, ClearIsr, Drain
  <2>2. erred' \in BOOLEAN /\ avail' \in BOOLEAN /\ used' \in BOOLEAN /\ flag' \in {0, 1} /\ isr' \in {0, 1}
    <3>1. DevServe => erred' = erred \/ erred' = TRUE
      BY DEF DevServe
    <3>2. QED
      BY <1>2, <3>1 DEF DevServe, Resize, ClearIsr, Drain
  <2>3. PlicTypeOK'
    BY <2>1 DEF PlicTypeOK, plicVars
  <2>4. QED
    BY <2>1, <2>2, <2>3
<1>3. CASE Claim \/ Complete \/ \E i \in Lines : Forward(i)
  <2>1. UNCHANGED <<rng, blk, erred, passed, flag, live, avail, used, isr, b, priority, threshold, enable>>
    BY <1>3 DEF Claim, Complete, Forward, plicRegs
  <2>2. pending' \subseteq Irqs /\ claimed' \subseteq Irqs
    <3>1. CASE Claim
      BY <3>1 DEF Claim, plic_claim, WinsClaim, Claimable, PlicTypeOK
    <3>2. CASE Complete
      BY <3>2 DEF Complete, plic_complete, PlicTypeOK
    <3>3. CASE \E i \in Lines : Forward(i)
      BY <3>3 DEF Forward, GatewayForward, Lines, Irqs, PlicTypeOK
    <3>4. QED
      BY <1>3, <3>1, <3>2, <3>3
  <2>3. QED
    BY <2>1, <2>2 DEF PlicTypeOK
<1>4. QED
  BY <1>1, <1>2, <1>3 DEF HandlerStep

\* Every step keeps the types.
LEMMA NextOthers ==
  ASSUME IInv, Others, [Next]_vars
  PROVE  Others'
<1>1. CASE UNCHANGED vars
  BY <1>1 DEF vars, machineVars, mainVars, queueVars, trapVars, plicVars, Others, PlicTypeOK
<1>2. CASE Next
  BY <1>2, MainOthers, OtherOthers DEF Next
<1>3. QED
  BY <1>1, <1>2

\* Whoever prints and whatever interrupts it, every byte goes out once, whole
\* and in the order of its source, and every byte that came in is echoed
\* likewise: for any depth of the FIFOs, any input and any number of rounds
\* (ns16550.c:35-96).
THEOREM ConsoleCorrect == Spec => []NothingLost
<1>1. Init => Line /\ Others
  BY InitLine, InitOthers
<1>2. IInv /\ Line /\ Others /\ [Next]_vars => Line' /\ Others'
  BY NextLine, NextOthers
<1>3. IInv /\ Line /\ Others => NothingLost
  <2> SUFFICES ASSUME IInv, Line, Others PROVE NothingLost
    OBVIOUS
  <2>1. buf \in Contents \X Contents
    <3>1. buf = <<buf[1], buf[2]>>
      BY DEF IInv, Types
    <3>2. buf[1] \in Contents /\ buf[2] \in Contents
      BY DEF IInv, Types
    <3>3. QED
      BY <3>1, <3>2
  <2>2. TypeOK
    BY <2>1 DEF IInv, Types, Line, OnLine, Others, TypeOK
  <2>3. QED
    BY <2>2 DEF NothingLost, Line, OnLine, Ordered
<1>4. QED
  BY <1>1, <1>2, <1>3, Invariant, PTL DEF Spec

-----------------------------------------------------------------------------
(***************************************************************************)
(* A disk that has worked so far, kept its size and is large enough has    *)
(* done in every round what the round has come to.                         *)
(***************************************************************************)

Healthy ==
  /\ blk = "ok" /\ SizeKept /\ ~erred
  /\ 2 * TEST_CNT <= StoredCapacity(size)

Full   == \A k \in 1..2 : buf[k] = "pattern"
Round  == \A k \in 1..2 : disk[2 * n + (k - 1)] = "pattern"
Served == pc \in {"notify", "wait"} /\ ~avail

Progress ==
  /\ pc \in {"blk cfg", "blk irq"} \/ InTest => live
  /\ pc = "write" \/ (InCall /\ b.to = "read") => Full
  /\ pc = "read" \/ (Served /\ b.to = "read") \/ (InCall /\ b.to = "check") => Round
  /\ pc = "check" \/ (Served /\ b.to = "check") => Full
  /\ pc \in {"test 2", "print", "shutdown", "off"} \/ (InCall /\ b.to = "print") => passed

Sound == Healthy => Progress

\* At reset the test has not come anywhere.
LEMMA InitSound == Init => Sound
  BY DEF Init, Sound, Progress, InTest, InCall, Served

\* Steps of anyone but main, the disk and the environment.
LEMMA SoundFrame ==
  ASSUME Sound, UNCHANGED <<blk, size, smallest, largest, disk, erred, pc, n, b, buf, passed, live, avail>>
  PROVE  Sound'
<1>1. Healthy' = Healthy /\ Full' = Full /\ Round' = Round /\ Served' = Served
      /\ InTest' = InTest /\ InCall' = InCall
  BY DEF Healthy, SizeKept, Full, Round, Served, InTest, InCall
<1>2. QED
  BY <1>1 DEF Sound, Progress

\* Before the block test there is nothing to keep.
LEMMA SoundEarly ==
  ASSUME Sound, UNCHANGED <<blk, size, smallest, largest, erred>>,
         pc' \in {"console", "traps", "plic", "hello", "rng init", "rng read", "rng poll",
                  "blk init", "fault"}
  PROVE  Sound'
  BY DEF Sound, Progress, InTest, InCall, Served

\* What main does on a good disk.
LEMMA SoundMain ==
  ASSUME IInv, Measured, Sound, MainStep, ~MainPutc
  PROVE  Sound'
<1> USE DEF At, Go, queueVars, trapVars
<1>0. UNCHANGED <<blk, size, smallest, largest, disk, erred>>
  BY DEF MainStep, Elsewhere, machineVars, ConsoleInit, EnableTraps, InitPlic, Hello, RngInit, RngRead,
     RngPoll, RngDone, BlkInit, virtio_pci_blk_cfg, EnableBlkIrq, WriteRound, ReadRound, CheckSame,
     CheckFailed, Passed, virtio_pci_blk_test2, PrintSector, shutdown, RwReject, RwPublish, RwNotify,
     RwWait
<1>1. CASE \/ ConsoleInit \/ EnableTraps \/ InitPlic \/ Hello \/ RngInit \/ RngRead \/ RngPoll
           \/ RngDone
  BY <1>0, <1>1, SoundEarly DEF ConsoleInit, EnableTraps, InitPlic, Hello, RngInit, RngRead, RngPoll,
     RngDone
<1>2. Healthy' = Healthy
  BY <1>0 DEF Healthy, SizeKept, StoredCapacity
<1>3. SUFFICES ASSUME Healthy, Progress, MainStep, ~MainPutc,
                      ~(\/ ConsoleInit \/ EnableTraps \/ InitPlic \/ Hello \/ RngInit \/ RngRead
                        \/ RngPoll \/ RngDone)
               PROVE  Progress'
  BY <1>1, <1>2 DEF Sound
<1>4. CASE BlkInit \/ virtio_pci_blk_cfg \/ EnableBlkIrq
  <2>1. BlkInit => pc' = "blk cfg" /\ live'
    BY <1>3 DEF BlkInit, Healthy
  <2>2. virtio_pci_blk_cfg => pc' = "blk irq" /\ live'
    <3>1. SUFFICES ASSUME virtio_pci_blk_cfg
                   PROVE  pc' = "blk irq" /\ live'
      OBVIOUS
    <3>2. pc = "blk cfg" /\ pc' = "blk irq" /\ live' = live
      BY <3>1 DEF virtio_pci_blk_cfg
    <3>3. live
      BY <1>3, <3>2 DEF Progress
    <3>4. QED
      BY <3>2, <3>3
  <2>3. EnableBlkIrq => pc' = "write" /\ live' /\ Full'
    <3>1. SUFFICES ASSUME EnableBlkIrq
                   PROVE  pc' = "write" /\ live' /\ Full'
      OBVIOUS
    <3>2. pc = "blk irq" /\ pc' = "write" /\ live' = live
          /\ buf' = <<"pattern", "pattern">>
      BY <3>1 DEF EnableBlkIrq
    <3>3. live
      BY <1>3, <3>2 DEF Progress
    <3>4. Full'
      <4>1. buf'[1] = "pattern" /\ buf'[2] = "pattern"
        BY <3>2
      <4>2. QED
        BY <4>1 DEF Full
    <3>5. QED
      BY <3>2, <3>3, <3>4
  <2>4. QED
    BY <1>2, <1>4, <2>1, <2>2, <2>3 DEF Progress, InTest, InCall, Served
<1>5. CASE WriteRound
  <2>1. pc = "write" /\ pc' = "rw" /\ b'.to = "read" /\ UNCHANGED <<buf, live>>
    BY <1>5 DEF WriteRound, Request
  <2>2. live /\ Full
    BY <1>3, <2>1 DEF Progress, InTest
  <2>3. QED
    BY <1>2, <2>1, <2>2 DEF Progress, InTest, InCall, Served, Full
<1>6. CASE ReadRound
  <2>1. pc = "read" /\ pc' = "rw" /\ b'.to = "check" /\ UNCHANGED <<n, live>>
    BY <1>6 DEF ReadRound, Request
  <2>2. live /\ Round
    BY <1>3, <2>1 DEF Progress, InTest
  <2>3. QED
    BY <1>0, <1>2, <2>1, <2>2 DEF Progress, InTest, InCall, Served, Round
<1>7. CASE CheckSame
  <2>1. pc = "check" /\ pc' = "write" /\ UNCHANGED <<buf, live>>
    BY <1>7 DEF CheckSame
  <2>2. live /\ Full
    BY <1>3, <2>1 DEF Progress, InTest
  <2>3. QED
    BY <1>2, <2>1, <2>2 DEF Progress, InTest, InCall, Served, Full
<1>8. CASE CheckFailed
  <2>1. pc = "check" /\ buf # <<"pattern", "pattern">>
    BY <1>8 DEF CheckFailed
  <2>2. buf = <<buf[1], buf[2]>>
    BY DEF IInv, Types
  <2>3. buf[1] = "pattern" /\ buf[2] = "pattern"
    BY <1>3, <2>1 DEF Progress, Full
  <2>4. QED
    BY <2>1, <2>2, <2>3
<1>9. CASE Passed \/ PrintSector \/ shutdown
  <2>1. pc' \in {"test 2", "shutdown", "off"} /\ passed'
    BY <1>3, <1>9 DEF Passed, PrintSector, shutdown, Progress
  <2>2. QED
    BY <2>1 DEF Progress, InTest, InCall, Served
<1>10. CASE virtio_pci_blk_test2
  <2>1. pc' = "rw" /\ b'.to = "print" /\ passed'
    BY <1>3, <1>10 DEF virtio_pci_blk_test2, Progress, Request
  <2>2. QED
    BY <2>1 DEF Progress, InTest, InCall, Served
<1>11. CASE RwReject
  <2>1. InCall /\ pc' = b.to /\ ~InRange(b.addr, b.len, capacity) /\ UNCHANGED <<n, passed>>
    BY <1>11 DEF RwReject, InCall
  <2>2. b.to \notin {"read", "check"}
    <3>1. SUFFICES ASSUME b.to \in {"read", "check"} PROVE InRange(b.addr, b.len, capacity)
      BY <2>1
    <3>2. capacity = StoredCapacity(size) /\ n \in Nat /\ n < TEST_CNT
      BY <1>3, <2>1, <3>1 DEF Healthy, Measured, InTest, IInv, Types, Called
    <3>3. EndSector(b.addr, b.len) = 2 * n + 2
      BY <2>1, <3>1, <3>2, CallFacts DEF IInv
    <3>4. 2 * TEST_CNT <= StoredCapacity(size) /\ StoredCapacity(size) \in Int
      BY <1>3, <3>2 DEF Healthy, IInv, Types, U32
    <3>5. QED
      BY <3>2, <3>3, <3>4, TestAssumption DEF InRange
  <2>3. pc' = "print" /\ passed'
    BY <1>3, <2>1, <2>2 DEF IInv, Called, Progress
  <2>4. QED
    BY <2>3 DEF Progress, InTest, InCall, Served
<1>12. CASE RwPublish
  <2>1. InCall /\ pc' = (IF live THEN "notify" ELSE "fault") /\ avail' = live
        /\ UNCHANGED <<n, b, buf, passed, live>>
    BY <1>12 DEF RwPublish, InCall
  <2>2. ~Served' /\ pc' \in {"notify", "fault"}
    BY <2>1 DEF Served
  <2>3. /\ InTest' => InTest
        /\ InCall' => InCall
        /\ Full' = Full /\ Round' = Round
    BY <1>0, <2>1, <2>2 DEF InTest, InCall, Full, Round
  <2>4. QED
    BY <1>2, <1>3, <2>1, <2>2, <2>3 DEF Progress
<1>13. CASE RwNotify
  <2>1. pc = "notify" /\ pc' = "wait" /\ UNCHANGED <<n, b, buf, passed, live, avail>>
    BY <1>13 DEF RwNotify
  <2>2. InCall /\ InCall' /\ InTest' = InTest /\ Served' = Served /\ Full' = Full /\ Round' = Round
    BY <1>0, <2>1 DEF InCall, InTest, Served, Full, Round
  <2>3. QED
    BY <1>2, <1>3, <2>1, <2>2 DEF Progress
<1>14. CASE RwWait
  <2>1. pc = "wait" /\ pc' = b.to /\ flag = 0 /\ UNCHANGED <<n, b, buf, passed, live, avail>>
    BY <1>14 DEF RwWait
  <2>2. Served /\ InCall /\ b.to \in {"read", "check", "print"}
    BY <2>1 DEF IInv, Flow, Called, Served, InCall
  <2>3. /\ b.to \in {"read", "check"} => live
        /\ b.to = "read" => Round
        /\ b.to = "check" => Full
        /\ b.to = "print" => passed
    BY <1>3, <2>2 DEF Progress, InTest
  <2>4. ~InCall' /\ ~Served' /\ (InTest' <=> b.to \in {"read", "check"})
        /\ Full' = Full /\ Round' = Round
    BY <1>0, <2>1, <2>2 DEF InCall, Served, InTest, Full, Round
  <2>5. QED
    BY <1>2, <2>1, <2>2, <2>3, <2>4 DEF Progress
<1>15. QED
  BY <1>3, <1>4, <1>5, <1>6, <1>7, <1>8, <1>9, <1>10, <1>11, <1>12, <1>13, <1>14 DEF MainStep

\* The disk serves a request, all of it as long as it is healthy.
LEMMA SoundServe ==
  ASSUME IInv, Sound, DevServe
  PROVE  Sound'
<1>1. avail /\ avail' = FALSE /\ UNCHANGED <<blk, size, smallest, largest, pc, n, b, passed, live>>
  BY DEF DevServe, trapVars
<1>2. SUFFICES ASSUME Healthy' PROVE Progress'
  BY <1>1 DEF Sound
<1>3. ~erred' /\ ~erred /\ Move(Touched)
  BY <1>2 DEF DevServe, Healthy
<1>4. Healthy /\ Progress
  BY <1>1, <1>2, <1>3 DEF Healthy, SizeKept, Sound, StoredCapacity
<1>5. pc \in {"notify", "wait"} /\ InCall /\ InCall' /\ n \in Nat
  BY <1>1 DEF IInv, Flow, Types, InCall
<1>6. InTest' = InTest /\ b.to \in {"read", "check", "print"} /\ b.write = (b.to = "read")
  BY <1>1, <1>5 DEF InTest, InCall, IInv, Called
<1>7. b.to \in {"read", "check"} => First = 2 * n /\ Touched = 2 * n .. 2 * n + 2 - 1 /\ n < TEST_CNT
  BY <1>5, CallFacts DEF IInv, Called, Touched
<1>8. ASSUME b.to \in {"read", "check"}, NEW k \in 1..2
      PROVE  /\ 2 * n + (k - 1) \in TestSectors /\ 2 * n + (k - 1) \in Touched
             /\ (2 * n + (k - 1)) - First + 1 = k /\ First + k - 1 = 2 * n + (k - 1)
  BY <1>5, <1>7, <1>8, TestAssumption DEF TestSectors
<1>9. CASE b.to = "read"
  <2>1. Full /\ live
    BY <1>4, <1>5, <1>9 DEF Progress, InTest
  <2>2. disk' = [s \in TestSectors |-> IF s \in Touched THEN buf[s - First + 1] ELSE disk[s]]
        /\ buf' = buf
    BY <1>3, <1>6, <1>9 DEF Move
  <2>3. ASSUME NEW k \in 1..2 PROVE disk'[2 * n + (k - 1)] = "pattern"
    <3> DEFINE s == 2 * n + (k - 1)
    <3>1. s \in TestSectors /\ s \in Touched /\ s - First + 1 = k
      BY <1>8, <1>9
    <3> HIDE DEF s
    <3>2. disk'[s] = buf[k]
      BY <2>2, <3>1
    <3>3. QED
      BY <2>1, <3>2 DEF Full, s
  <2>4. Full' /\ Round'
    BY <1>1, <2>1, <2>2, <2>3 DEF Full, Round
  <2>5. QED
    BY <1>1, <1>5, <1>6, <1>9, <2>1, <2>4 DEF Progress
<1>10. CASE b.to = "check"
  <2>1. Round /\ live
    BY <1>4, <1>5, <1>10 DEF Progress, InTest
  <2>2. buf' = [k \in 1..2 |-> IF First + k - 1 \in Touched THEN disk[First + k - 1] ELSE buf[k]]
        /\ disk' = disk
    BY <1>3, <1>6, <1>10 DEF Move
  <2>3. ASSUME NEW k \in 1..2 PROVE buf'[k] = "pattern"
    <3>1. First + k - 1 \in Touched /\ disk[First + k - 1] = "pattern"
      BY <1>8, <1>10, <2>1 DEF Round
    <3>2. QED
      BY <2>2, <3>1
  <2>4. Full' /\ Round'
    BY <1>1, <2>1, <2>2, <2>3 DEF Full, Round
  <2>5. QED
    BY <1>1, <1>5, <1>6, <1>10, <2>1, <2>4 DEF Progress
<1>11. CASE b.to = "print"
  <2>1. passed /\ ~InTest
    BY <1>4, <1>5, <1>11 DEF Progress, InTest
  <2>2. QED
    BY <1>1, <1>5, <1>6, <1>11, <2>1 DEF Progress
<1>12. QED
  BY <1>6, <1>9, <1>10, <1>11

\* Every step keeps the test of a good disk on its way.
LEMMA NextSound ==
  ASSUME IInv, Measured, Sound, [Next]_vars
  PROVE  Sound'
<1> USE DEF machineVars, mainVars, queueVars, trapVars
<1>1. CASE UNCHANGED vars
  BY <1>1, SoundFrame DEF vars
<1>2. CASE MainStep /\ ~MainPutc
  BY <1>2, SoundMain
<1>3. CASE MainPutc \/ RngAnswer \/ RxByte \/ TxByte \/ \E i \in Lines : Forward(i)
  BY <1>3, SoundFrame DEF MainPutc, Elsewhere, RngAnswer, RxByte, TxByte, Forward
<1>4. CASE Trap \/ HandlerStep
  BY <1>4, SoundFrame DEF Trap, HandlerStep, Claim, UartIsr, ClearIsr, Drain, DrainEnd, Complete,
     HandlerPutc, Untouched
<1>5. CASE DevServe
  BY <1>5, SoundServe
<1>6. CASE Resize
  BY <1>6, SizeChanges DEF Sound, Healthy
<1>7. QED
  BY <1>1, <1>2, <1>3, <1>4, <1>5, <1>6 DEF Next

\* A disk that fails no request and keeps its size passes the test exactly when
\* the low 32 bits of its sectors are enough, however many rounds the test has,
\* whatever the disk held and whatever is typed meanwhile (main.c:98-125,
\* virtio-pci-blk.c:132).
THEOREM GoodDiskCorrect == Spec => []GoodDiskPasses
<1>1. IInv /\ Measured /\ Sound /\ [Next]_vars => Sound'
  BY NextSound
<1>2. Measured /\ Sound => GoodDiskPasses
  <2> SUFFICES ASSUME Measured, Sound, pc = "off", blk = "ok", SizeKept, ~erred
               PROVE  passed <=> 2 * TEST_CNT <= StoredCapacity(size)
    BY DEF GoodDiskPasses
  <2>1. ASSUME 2 * TEST_CNT <= StoredCapacity(size) PROVE passed
    BY <2>1 DEF Sound, Healthy, Progress
  <2>2. ASSUME passed PROVE 2 * TEST_CNT <= StoredCapacity(size)
    BY <2>2 DEF Measured, Admitted
  <2>3. QED
    BY <2>1, <2>2
<1>3. QED
  BY <1>1, <1>2, InitSound, Invariant, MeasuredAlways, PTL DEF Spec
=============================================================================
