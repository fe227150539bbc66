-------------------------- MODULE VirtioCapsProofs --------------------------
(***************************************************************************)
(* Both drivers find their device and keep addresses of its registers, on  *)
(* every machine whose devices fit their drivers: the probe finds what is  *)
(* there, sizes every BAR right and puts it into the window, and what the  *)
(* capability walk has kept stays good while the next device is probed.    *)
(***************************************************************************)
EXTENDS VirtioCaps, TLAPS

-----------------------------------------------------------------------------
(***************************************************************************)
(* The inductive invariant.                                                *)
(***************************************************************************)

MemKinds == {"mem32", "mem64"}
ScanEnd == (BusCount - 1) * DevCount

\* Inside the body of the scan: a device has been found, its BARs are being placed.
Sizing   == pc \in {"size high", "place", "place high"}
InDevice == pc = "bar" \/ Sizing

\* The register the body of the loop is writing.
InHand(p, n) == Sizing /\ p = scan /\ n = i

Types ==
  /\ machine \in Machines
  /\ memory \subseteq Scanned
  /\ bar \in [Positions -> [BarNumbers -> Nat]]
  /\ s_off \in Nat /\ mem_addr \in 0..Word - 1
  /\ pc \in {"call", "scan", "bar", "size high", "place", "place high", "probed", "walk", "end"}
  /\ scan \in 0..ScanEnd /\ i \in 0..6 /\ ret \in Scanned
  /\ driver \in 1..Len(Drivers) /\ cap \in Nat \ {0}
  /\ pc # "call" => pci_id = Drivers[driver]

\* What the scan has found so far: every device left behind it.
Finding ==
  /\ pc # "call" /\ ret # 0 => ret \in Here(pci_id)
  /\ pc = "scan" => \A p \in Here(pci_id) : p < scan => ret # 0
  /\ pc = "scan" /\ ret # 0 => ret < scan
  /\ InDevice => scan \in Scanned /\ ret = scan /\ scan # 0
  /\ Sizing => i \in BarNumbers /\ Kind(scan, i) # "io"
  /\ pc = "probed" /\ ret = 0 => Here(pci_id) = {}
  /\ pc = "walk" => ret # 0

\* A register holds an address, except for the one in hand: its size, and then
\* its address a half at a time.
Registers ==
  /\ \A p \in Positions, n \in BarNumbers :
       /\ ~InHand(p, n) => bar[p][n] < Word
       /\ Present(p) /\ Kind(p, n) = "none" => bar[p][n] = 0
  /\ LET z == Size(scan, i)
     IN  /\ pc = "size high" => Is64 /\ bar[scan][i] = Word - z
         /\ pc = "place" /\ Kind(scan, i) = "mem32" => bar[scan][i] = Word - z
         /\ pc = "place" /\ Is64 => bar[scan][i] = Word * Word - z
         /\ pc = "place high" =>
              /\ Is64 /\ mem_addr \in PCIE0_MMIO..PCIE0_MMIO + WindowSize - 1
              /\ bar[scan][i] = (Word - 1) * Word + Masked(mem_addr, z)

\* The BARs of a device below a number are inside the window.
Placed(p, limit) ==
  \A n \in BarNumbers : n < limit /\ Kind(p, n) \in MemKinds =>
    bar[p][n] < PCIE0_MMIO + WindowSize /\ bar[p][n] + Size(p, n) > PCIE0_MMIO

\* Everything that decodes memory is in its place, as far as the probe has come.
Settled ==
  /\ \A p \in memory : Present(p) /\ Placed(p, IF InDevice /\ p = scan THEN i ELSE 6)
  /\ pc # "call" /\ ret # 0 => ret \in memory

\* The room taken: a BAR takes no more than its share of the window.
Share == WindowSize \div (6 * Len(Drivers))
BarsPlaced ==
  6 * (driver - 1) +
    CASE pc = "call" \/ (pc = "scan" /\ ret = 0) -> 0
      [] pc \in {"bar", "size high", "place"} -> i
      [] pc = "place high" -> i + 1
      [] OTHER -> 6
Window == s_off <= Share * BarsPlaced

\* An address kept comes from a capability of the driver's own device.
KeptFrom(n, a, p, k) ==
  LET c == Caps(p)[k]
  IN  c.vndr /\ c.area = a /\ hw[n][a] = ReadBar64(p, c.bar) + c.offset

LastOf(p, a, upto, k) ==
  /\ k \in 1..upto
  /\ \A j \in k + 1..upto : ~(Caps(p)[j].vndr /\ Caps(p)[j].area = a)

Kept ==
  /\ hw \in [1..Len(Drivers) -> [Areas -> Nat \cup {NONE}]]
  /\ \A n \in 1..Len(Drivers), a \in Areas : hw[n][a] # NONE =>
       \/ n < driver \/ (n = driver /\ pc = "end")
       \/ n = driver /\ pc = "walk"
  /\ \A n \in 1..Len(Drivers), a \in Areas :
       hw[n][a] # NONE /\ (n < driver \/ (n = driver /\ pc = "end")) =>
         \E p \in memory \cap Here(Drivers[n]) : \E k \in DOMAIN Caps(p) :
           LastOf(p, a, Len(Caps(p)), k) /\ KeptFrom(n, a, p, k)
  /\ pc = "walk" => cap <= Len(Caps(ret)) + 1
  /\ \A a \in Areas : pc = "walk" /\ hw[driver][a] # NONE =>
       \E k \in 1..cap - 1 : LastOf(ret, a, cap - 1, k) /\ KeptFrom(driver, a, ret, k)

IInv == Types /\ Finding /\ Registers /\ Settled /\ Window /\ Kept

-----------------------------------------------------------------------------
(***************************************************************************)
(* Arithmetic of BAR registers.                                            *)
(***************************************************************************)

\* Division with remainder.
LEMMA DivMod ==
  ASSUME NEW a \in Nat, NEW d \in Nat \ {0}
  PROVE  /\ a \div d \in Nat
         /\ a = d * (a \div d) + (a % d)
         /\ a % d \in 0..d - 1
  BY SMTT(30)

\* Multiplication keeps the order.
LEMMA TimesMonotone ==
  ASSUME NEW a \in Nat, NEW b \in Nat, NEW c \in Nat, a <= b
  PROVE  c * a <= c * b
  BY SMTT(30)

\* Quotient and remainder are the only ones.
LEMMA DivUnique ==
  ASSUME NEW d \in Nat \ {0}, NEW q \in Nat, NEW r \in 0..d - 1
  PROVE  /\ (d * q + r) \div d = q
         /\ (d * q + r) % d = r
<1> DEFINE a == d * q + r
           x == a \div d
           y == a % d
<1>1. a \in Nat
  BY SMTT(30)
<1>2. x \in Nat /\ a = d * x + y /\ y \in 0..d - 1
  BY <1>1, DivMod
<1> HIDE DEF x, y
<1>3. ~(x < q)
  <2> SUFFICES ASSUME x + 1 <= q PROVE FALSE
    BY <1>2
  <2>1. d * (x + 1) <= d * q
    BY <1>2, TimesMonotone
  <2>2. d * (x + 1) = d * x + d
    BY <1>2, SMTT(30)
  <2>3. d * x \in Nat /\ d * q \in Nat
    BY <1>2, SMTT(30)
  <2>. QED
    BY <1>2, <2>1, <2>2, <2>3
<1>4. ~(q < x)
  <2> SUFFICES ASSUME q + 1 <= x PROVE FALSE
    BY <1>2
  <2>1. d * (q + 1) <= d * x
    BY <1>2, TimesMonotone
  <2>2. d * (q + 1) = d * q + d
    BY SMTT(30)
  <2>3. d * x \in Nat /\ d * q \in Nat
    BY <1>2, SMTT(30)
  <2>. QED
    BY <1>2, <2>1, <2>2, <2>3
<1>5. x = q
  BY <1>2, <1>3, <1>4
<1>6. d * q \in Nat
  BY SMTT(30)
<1>7. y = r
  BY <1>2, <1>5, <1>6
<1>. QED
  BY <1>5, <1>7 DEF x, y

\* A register drops the bits below its size.
LEMMA MaskedIs ==
  ASSUME NEW z \in Nat \ {0}, NEW q \in Nat, NEW r \in 0..z - 1
  PROVE  Masked(z * q + r, z) = z * q
<1>1. (z * q + r) \div z = q
  BY DivUnique
<1>2. q * z = z * q
  OBVIOUS
<1>. QED
  BY <1>1, <1>2 DEF Masked

\* What is dropped is less than the size.
LEMMA MaskedBounds ==
  ASSUME NEW z \in Nat \ {0}, NEW v \in Nat
  PROVE  Masked(v, z) \in Nat /\ Masked(v, z) <= v /\ v < Masked(v, z) + z
<1>1. v \div z \in Nat /\ v = z * (v \div z) + (v % z) /\ v % z \in 0..z - 1
  BY DivMod
<1>2. (v \div z) * z = z * (v \div z) /\ z * (v \div z) \in Nat
  BY <1>1, SMTT(30)
<1>3. Masked(v, z) = z * (v \div z)
  BY <1>2 DEF Masked
<1>. QED
  BY <1>1, <1>2, <1>3

\* Of a multiple of the size and a half beside it, only the half loses bits.
LEMMA MaskedHalf ==
  ASSUME NEW z \in Nat \ {0}, NEW k \in Nat, NEW v \in Nat
  PROVE  Masked(z * k + v, z) = z * k + Masked(v, z)
<1>1. v \div z \in Nat /\ v = z * (v \div z) + (v % z) /\ v % z \in 0..z - 1
  BY DivMod
<1> DEFINE q == v \div z
           r == v % z
<1>2. q \in Nat /\ v = z * q + r /\ r \in 0..z - 1
  BY <1>1
<1> HIDE DEF q, r
<1>3. z * k + v = z * (k + q) + r /\ k + q \in Nat
  BY <1>2, SMTT(30)
<1>4. Masked(z * k + v, z) = z * (k + q)
  BY <1>2, <1>3, MaskedIs
<1>5. Masked(v, z) = z * q
  BY <1>2, MaskedIs
<1>6. z * (k + q) = z * k + z * q
  BY <1>2, SMTT(30)
<1>. QED
  BY <1>4, <1>5, <1>6

\* A size that PCI allows: a divisor of a word, and less.
IsSize(z) == z \in 1..Word - 1 /\ Word % z = 0

\* A word and its multiples are multiples of the size.
LEMMA SizeDivides ==
  ASSUME NEW z, IsSize(z)
  PROVE  \E k \in Nat : k >= 2 /\ Word = z * k
<1>1. Word \in Nat \ {0} /\ z \in Nat \ {0} /\ z < Word /\ Word % z = 0
  BY AddressAssumption DEF IsSize
<1> DEFINE k == Word \div z
<1>2. k \in Nat /\ Word = z * k + (Word % z)
  BY <1>1, DivMod
<1> HIDE DEF k
<1>3. Word = z * k
  <2>1. z * k \in Nat
    BY <1>1, <1>2, SMTT(30)
  <2>. QED
    BY <1>1, <1>2, <2>1
<1>4. k # 0
  BY <1>1, <1>3, SMTT(30)
<1>5. k # 1
  BY <1>1, <1>3, SMTT(30)
<1>. QED
  BY <1>2, <1>3, <1>4, <1>5

\* All bits written to a BAR of 32 bits, or the lower half of one of 64.
LEMMA SizedLow ==
  ASSUME NEW z, IsSize(z), NEW b \in 0..Word - 1
  PROVE  Masked((b \div Word) * Word + (Word - 1), z) = Word - z
<1>1. Word \in Nat \ {0} /\ z \in Nat \ {0}
  BY AddressAssumption DEF IsSize
<1>2. b \div Word = 0
  <2>1. Word * 0 + b = b
    BY <1>1
  <2>. QED
    BY <1>1, <2>1, DivUnique
<1>3. PICK k \in Nat : k >= 2 /\ Word = z * k
  BY SizeDivides
<1>4. k - 1 \in Nat /\ z - 1 \in 0..z - 1
  BY <1>1, <1>3
<1>5. z * (k - 1) = Word - z
  BY <1>1, <1>3, SMTT(30)
<1>6. (b \div Word) * Word + (Word - 1) = z * (k - 1) + (z - 1)
  BY <1>1, <1>2, <1>5
<1>. QED
  BY <1>1, <1>4, <1>5, <1>6, MaskedIs

\* A value below a word, as the two halves of a register.
LEMMA Halves ==
  ASSUME NEW h \in Nat, NEW v \in 0..Word - 1
  PROVE  (h * Word + v) \div Word = h /\ (h * Word + v) % Word = v
<1>1. Word \in Nat \ {0}
  BY AddressAssumption
<1>2. h * Word = Word * h
  BY <1>1
<1>. QED
  BY <1>1, <1>2, DivUnique

\* The same with nothing in the upper half.
LEMMA LowHalf ==
  ASSUME NEW v \in 0..Word - 1
  PROVE  v \div Word = 0 /\ v % Word = v /\ (v \div Word) * Word = 0
<1>1. Word \in Nat \ {0}
  BY AddressAssumption
<1>2. 0 * Word + v = v
  BY <1>1
<1>3. v \div Word = 0 /\ v % Word = v
  BY <1>2, Halves
<1>. QED
  BY <1>1, <1>3

\* All ones in the upper half too: all bits but those below the size.
LEMMA SizedHigh ==
  ASSUME NEW z, IsSize(z)
  PROVE  /\ Masked((Word - 1) * Word + ((Word - z) % Word), z) = Word * Word - z
         /\ Word * Word - z = (Word - 1) * Word + (Word - z)
         /\ (Word - 1) * Word \in Nat /\ Word * Word \in Nat
<1>1. Word \in Nat \ {0} /\ z \in Nat \ {0} /\ z < Word
  BY AddressAssumption DEF IsSize
<1>2. (Word - z) % Word = Word - z
  BY <1>1, LowHalf
<1>3. PICK k \in Nat : k >= 2 /\ Word = z * k
  BY SizeDivides
<1> DEFINE w == Word * Word
           x == (Word - 1) * Word
<1>4. w \in Nat /\ x \in Nat /\ x = w - Word
  BY <1>1, SMTT(30)
<1>5. w - z = x + (Word - z)
  BY <1>1, <1>4
<1>6. k * Word - 1 \in Nat
  BY <1>1, <1>3, SMTT(30)
<1>7. z * (k * Word - 1) = w - z
  <2>1. z * (k * Word) = w
    <3>1. z * (k * Word) = (z * k) * Word
      BY <1>1, <1>3, SMTT(30)
    <3>. QED
      BY <1>3, <3>1
  <2>2. z * (k * Word - 1) = z * (k * Word) - z
    BY <1>1, <1>3, SMTT(30)
  <2>. QED
    BY <2>1, <2>2
<1> DEFINE q == k * Word - 1
<1>8. q \in Nat /\ z * q = w - z
  BY <1>6, <1>7
<1> HIDE DEF w, x, q
<1>9. Masked(w - z, z) = w - z
  <2>1. w - z = z * q + 0 /\ 0 \in 0..z - 1
    BY <1>1, <1>4, <1>8
  <2>2. Masked(z * q + 0, z) = z * q
    BY <1>1, <1>8, <2>1, MaskedIs
  <2>. QED
    BY <1>8, <2>1, <2>2
<1>10. Masked(x + ((Word - z) % Word), z) = w - z
  BY <1>2, <1>5, <1>9
<1>. QED
  BY <1>4, <1>5, <1>10 DEF w, x

\* The size is read off what is left.
LEMMA NeededIs ==
  ASSUME NEW z, IsSize(z)
  PROVE  /\ (Word - (Word - z)) % Word = z
         /\ (Word * Word - (Word * Word - z)) % (Word * Word) = z
<1>1. Word \in Nat \ {0} /\ z \in Nat \ {0} /\ z < Word
  BY AddressAssumption DEF IsSize
<1>2. z % Word = z
  BY <1>1, LowHalf
<1> DEFINE w == Word * Word
<1>3. w \in Nat \ {0} /\ z < w
  BY <1>1, SMTT(30)
<1> HIDE DEF w
<1>4. z % w = z
  <2>1. w * 0 + z = z /\ z \in 0..w - 1
    BY <1>1, <1>3
  <2>2. (w * 0 + z) % w = z
    BY <1>3, <2>1, DivUnique
  <2>. QED
    BY <2>1, <2>2
<1>5. Word - (Word - z) = z /\ w - (w - z) = z
  BY <1>1, <1>3
<1>6. (w - (w - z)) % w = z
  BY <1>4, <1>5
<1>. QED
  BY <1>2, <1>5, <1>6 DEF w

\* An address below a word written to the lower half, and to both.
LEMMA PlacedLow ==
  ASSUME NEW z, IsSize(z), NEW v \in 0..Word - 1
  PROVE  /\ Masked(((Word - z) \div Word) * Word + v, z) = Masked(v, z)
         /\ Masked(((Word * Word - z) \div Word) * Word + v, z) = (Word - 1) * Word + Masked(v, z)
<1>1. Word \in Nat \ {0} /\ z \in Nat \ {0} /\ z < Word
  BY AddressAssumption DEF IsSize
<1>2. ((Word - z) \div Word) * Word = 0
  BY <1>1, LowHalf
<1>3. (Word * Word - z) \div Word = Word - 1
  <2>1. Word * Word - z = (Word - 1) * Word + (Word - z)
    BY SizedHigh
  <2>2. Word - 1 \in Nat /\ Word - z \in 0..Word - 1
    BY <1>1
  <2>. QED
    BY <2>1, <2>2, Halves
<1>4. PICK k \in Nat : k >= 2 /\ Word = z * k
  BY SizeDivides
<1> DEFINE j == k * (Word - 1)
<1>5. j \in Nat /\ z * j = (Word - 1) * Word
  <2>1. j \in Nat
    BY <1>1, <1>4, SMTT(30)
  <2>2. z * (k * (Word - 1)) = (z * k) * (Word - 1)
    BY <1>1, <1>4, SMTT(30)
  <2>3. (z * k) * (Word - 1) = (Word - 1) * Word
    BY <1>1, <1>4, SMTT(30)
  <2>. QED
    BY <2>1, <2>2, <2>3
<1> HIDE DEF j
<1>6. Masked(z * j + v, z) = z * j + Masked(v, z)
  <2>1. v \in Nat
    BY <1>1
  <2>. QED
    BY <1>1, <1>5, <2>1, MaskedHalf
<1>7. Masked((Word - 1) * Word + v, z) = (Word - 1) * Word + Masked(v, z)
  BY <1>5, <1>6
<1>. QED
  BY <1>2, <1>3, <1>7

\* The upper half of such an address is 0, and the lower half stays.
LEMMA PlacedHigh ==
  ASSUME NEW z, IsSize(z), NEW v \in 0..Word - 1
  PROVE  Masked((v \div Word) * Word + (((Word - 1) * Word + Masked(v, z)) % Word), z) = Masked(v, z)
<1>1. Word \in Nat \ {0} /\ z \in Nat \ {0} /\ z < Word
  BY AddressAssumption DEF IsSize
<1> DEFINE m == Masked(v, z)
<1>2. m \in 0..Word - 1
  BY <1>1, MaskedBounds
<1>3. ((Word - 1) * Word + m) % Word = m
  BY <1>1, <1>2, Halves
<1>4. (v \div Word) * Word = 0
  BY LowHalf
<1>5. Masked(m, z) = m
  <2>1. v \div z \in Nat
    <3>1. v \in Nat
      BY <1>1
    <3>. QED
      BY <1>1, <3>1, DivMod
  <2>2. m = z * (v \div z)
    BY <1>1, <2>1, SMTT(30) DEF Masked
  <2> DEFINE q == v \div z
  <2>3. q \in Nat /\ m = z * q
    BY <2>1, <2>2
  <2> HIDE DEF q, m
  <2>4. z * q + 0 = m /\ 0 \in 0..z - 1
    BY <1>1, <1>2, <2>3
  <2>5. Masked(z * q + 0, z) = z * q
    BY <1>1, <2>3, <2>4, MaskedIs
  <2>. QED
    BY <2>3, <2>4, <2>5
<1> HIDE DEF m
<1>6. (v \div Word) * Word + (((Word - 1) * Word + m) % Word) = m
  BY <1>2, <1>3, <1>4
<1>7. Masked((v \div Word) * Word + (((Word - 1) * Word + m) % Word), z) = m
  BY <1>5, <1>6
<1>. QED
  BY <1>7 DEF m

\* A size rounded up to pages.
LEMMA Rounded ==
  ASSUME NEW z \in Nat
  PROVE  PAGE_ALIGN(z) \in Nat /\ z <= PAGE_ALIGN(z)
<1> DEFINE a == z + PAGE - 1
           q == a \div PAGE
<1>1. PAGE \in Nat \ {0} /\ a \in Nat
  BY AddressAssumption
<1>2. q \in Nat /\ a = PAGE * q + (a % PAGE) /\ a % PAGE \in 0..PAGE - 1
  BY <1>1, DivMod
<1>3. PAGE * q \in Nat /\ q * PAGE = PAGE * q
  BY <1>1, <1>2, SMTT(30)
<1>4. PAGE_ALIGN(z) = q * PAGE
  BY DEF PAGE_ALIGN
<1> HIDE DEF q
<1>. QED
  BY <1>1, <1>2, <1>3, <1>4

-----------------------------------------------------------------------------
(***************************************************************************)
(* What a machine is like.                                                 *)
(***************************************************************************)

\* The positions that are scanned.
LEMMA ScannedIs ==
  /\ ScanEnd \in Nat \ {0} /\ Scanned = 0..ScanEnd - 1 /\ 0 \in Scanned
  /\ Scanned \subseteq Positions
<1>1. BusCount \in Nat \ {0, 1} /\ DevCount \in Nat \ {0}
  BY BusAssumption
<1> DEFINE e == (BusCount - 1) * DevCount
           a == BusCount * DevCount
<1>2. e \in Nat \ {0} /\ a \in Nat /\ e <= a
  BY <1>1, SMTT(30)
<1>3. ScanEnd = e /\ Scanned = 0..e - 1 /\ Positions = 0..a - 1
  BY DEF ScanEnd, Scanned, Positions
<1> HIDE DEF e, a
<1>. QED
  BY <1>2, <1>3

\* BARs.
LEMMA Bars ==
  ASSUME machine \in Machines, NEW p \in Positions, Present(p), NEW n \in BarNumbers
  PROVE  /\ Kind(p, n) \in {"io", "mem32", "mem64", "none"}
         /\ Kind(p, n) = "none" => Size(p, n) = 0
         /\ Kind(p, n) \in MemKinds => IsSize(Size(p, n))
         /\ Kind(p, n) = "mem64" => n + 1 \in BarNumbers /\ Kind(p, n + 1) = "none"
  BY BarAssumption DEF Present, Kind, Size, MemKinds, IsSize, BarNumbers

\* What a driver's probe can find: one device that fits it, behind the bridge.
LEMMA Devices ==
  ASSUME machine \in Machines, NEW n \in 1..Len(Drivers), NEW p \in Here(Drivers[n])
  PROVE  /\ p \in Scanned /\ p \in Positions /\ p # 0
         /\ Present(p) /\ machine[p].id = Drivers[n]
         /\ Fits(machine[p])
         /\ \A q \in Here(Drivers[n]) : q = p
<1>1. p \in Positions /\ \A q \in Here(Drivers[n]) : q \in Positions
  BY ScannedIs DEF Here
<1>. QED
  BY <1>1, DeviceAssumption DEF Here, Present

\* Two drivers do not share a device.
LEMMA NotShared ==
  ASSUME machine \in Machines, NEW n \in 1..Len(Drivers), NEW k \in 1..Len(Drivers), n # k
  PROVE  \A p \in Here(Drivers[n]), q \in Here(Drivers[k]) : p # q
  BY DriverAssumption DEF Here

\* A BAR takes no more than its share, and all shares are in the window.
LEMMA Shares ==
  /\ Share \in Nat
  /\ \A n \in Nat : n <= 6 * Len(Drivers) => Share * n <= WindowSize
  /\ \A z \in Nat : 6 * Len(Drivers) * PAGE_ALIGN(z) <= WindowSize => PAGE_ALIGN(z) <= Share
<1> DEFINE D == 6 * Len(Drivers)
<1>1. D \in Nat \ {0} /\ WindowSize \in Nat
  BY DriverAssumption, AddressAssumption
<1> HIDE DEF D
<1>2. Share = WindowSize \div D
  BY DEF Share, D
<1>3. Share \in Nat /\ WindowSize = D * Share + (WindowSize % D) /\ WindowSize % D \in 0..D - 1
  BY <1>1, <1>2, DivMod
<1>4. D * Share \in Nat
  BY <1>1, <1>3, SMTT(30)
<1>5. ASSUME NEW n \in Nat, n <= D
      PROVE  Share * n <= WindowSize
  <2>1. Share * n <= Share * D
    BY <1>1, <1>3, <1>5, TimesMonotone
  <2>2. Share * D = D * Share
    BY <1>1, <1>3, SMTT(30)
  <2>3. Share * n \in Nat
    BY <1>3, SMTT(30)
  <2>. QED
    BY <1>3, <1>4, <2>1, <2>2, <2>3
<1>6. ASSUME NEW z \in Nat, D * PAGE_ALIGN(z) <= WindowSize
      PROVE  PAGE_ALIGN(z) <= Share
  <2>1. PAGE_ALIGN(z) \in Nat
    BY Rounded
  <2>2. SUFFICES ASSUME Share + 1 <= PAGE_ALIGN(z) PROVE FALSE
    BY <1>3, <2>1
  <2>3. D * (Share + 1) <= D * PAGE_ALIGN(z)
    BY <1>1, <1>3, <2>1, <2>2, TimesMonotone
  <2>4. D * (Share + 1) = D * Share + D
    BY <1>1, <1>3, SMTT(30)
  <2>5. D * PAGE_ALIGN(z) \in Nat
    BY <1>1, <2>1, SMTT(30)
  <2>. QED
    BY <1>1, <1>3, <1>4, <1>6, <2>3, <2>4, <2>5
<1>. QED
  BY <1>3, <1>5, <1>6 DEF D

-----------------------------------------------------------------------------
(***************************************************************************)
(* What a step leaves alone.                                               *)
(***************************************************************************)

\* Inside the body of the scan it is the driver's device.
LEMMA InDeviceIs ==
  ASSUME IInv, InDevice
  PROVE  /\ scan \in Here(Drivers[driver]) /\ scan \in Scanned /\ scan \in Positions
         /\ Present(scan) /\ Fits(machine[scan])
         /\ ret = scan /\ ret # 0 /\ scan \in memory
<1>1. ret = scan /\ ret # 0 /\ pc # "call" /\ ret \in Here(pci_id)
  BY DEF IInv, Finding, InDevice, Sizing
<1>2. pci_id = Drivers[driver] /\ driver \in 1..Len(Drivers) /\ machine \in Machines
  BY <1>1 DEF IInv, Types
<1>. QED
  BY <1>1, <1>2, Devices DEF IInv, Settled

\* Probing the next device does not move what a driver has kept.
LEMMA KeptStays ==
  ASSUME IInv, UNCHANGED <<machine, capVars>>,
         pc \notin {"call", "probed", "walk", "end"}, pc' \notin {"walk", "end"},
         memory \subseteq memory',
         \A p \in Positions : p # scan \/ ~InDevice => bar'[p] = bar[p]
  PROVE  Kept'
<1>1. machine' = machine /\ driver' = driver /\ cap' = cap /\ hw' = hw
  BY DEF capVars
<1>2. driver \in 1..Len(Drivers) /\ machine \in Machines
  BY DEF IInv, Types
<1>3. ASSUME NEW n \in 1..Len(Drivers), NEW a \in Areas, hw[n][a] # NONE
      PROVE  /\ n < driver
             /\ \E p \in memory' \cap Here(Drivers[n])' : \E k \in DOMAIN Caps(p)' :
                  LastOf(p, a, Len(Caps(p)), k)' /\ KeptFrom(n, a, p, k)'
  <2>1. n < driver
    BY <1>3 DEF IInv, Kept
  <2>2. PICK p, k :
          /\ p \in memory \cap Here(Drivers[n])
          /\ k \in DOMAIN Caps(p)
          /\ LastOf(p, a, Len(Caps(p)), k) /\ KeptFrom(n, a, p, k)
    BY <1>3, <2>1 DEF IInv, Kept
  <2>3. p \in Positions
    BY <1>2, <2>2, Devices
  <2>4. bar'[p] = bar[p]
    <3>1. CASE InDevice
      <4>1. scan \in Here(Drivers[driver])
        BY <3>1, InDeviceIs
      <4>2. n # driver
        BY <1>2, <2>1
      <4>3. p # scan
        BY <1>2, <2>2, <4>1, <4>2, NotShared
      <4>. QED
        BY <2>3, <4>3
    <3>. QED
      BY <2>3, <3>1
  <2>5. p \in memory' \cap Here(Drivers[n])' /\ k \in DOMAIN Caps(p)'
    BY <1>1, <2>2 DEF Here, Present, Caps
  <2>6. LastOf(p, a, Len(Caps(p)), k)'
    BY <1>1, <2>2 DEF LastOf, Caps
  <2>7. KeptFrom(n, a, p, k)'
    BY <1>1, <2>2, <2>4 DEF KeptFrom, Caps, ReadBar64, Kind
  <2>. QED
    BY <2>1, <2>5, <2>6, <2>7
<1>4. hw' \in [1..Len(Drivers) -> [Areas -> Nat \cup {NONE}]]
  BY <1>1 DEF IInv, Kept
<1>. QED
  BY <1>1, <1>3, <1>4 DEF Kept

\* Registers nobody writes.
LEMMA RegistersStay ==
  ASSUME Registers, UNCHANGED <<machine, bar>>, ~Sizing, ~Sizing'
  PROVE  Registers'
  BY DEF Registers, Sizing, InHand, Present, Kind

\* One register is written.
LEMMA Stored ==
  ASSUME Types, scan \in Positions, i \in BarNumbers, NEW x \in Nat,
         bar' = [bar EXCEPT ![scan][i] = x]
  PROVE  /\ bar' \in [Positions -> [BarNumbers -> Nat]]
         /\ bar'[scan][i] = x
         /\ \A p \in Positions : p # scan => bar'[p] = bar[p]
         /\ \A p \in Positions, n \in BarNumbers : p # scan \/ n # i => bar'[p][n] = bar[p][n]
  BY DEF Types

\* What holds of all registers then.
LEMMA RegistersStep ==
  ASSUME IInv, InDevice, UNCHANGED <<machine, scan>>, i \in BarNumbers, NEW x \in Nat,
         bar' = [bar EXCEPT ![scan][i] = x],
         Kind(scan, i) = "none" => x = 0,
         IF Sizing' THEN i' = i ELSE x < Word
  PROVE  \A p \in Positions, n \in BarNumbers :
           /\ ~InHand(p, n)' => bar'[p][n] < Word
           /\ Present(p)' /\ Kind(p, n)' = "none" => bar'[p][n] = 0
<1>1. scan \in Positions
  BY InDeviceIs
<1>2. SUFFICES ASSUME NEW p \in Positions, NEW n \in BarNumbers
               PROVE  /\ ~InHand(p, n)' => bar'[p][n] < Word
                      /\ Present(p) /\ Kind(p, n) = "none" => bar'[p][n] = 0
  BY DEF Present, Kind
<1>3. /\ ~InHand(p, n) => bar[p][n] < Word
      /\ Present(p) /\ Kind(p, n) = "none" => bar[p][n] = 0
  BY DEF IInv, Registers
<1>4. CASE p = scan /\ n = i
  <2>1. bar'[p][n] = x
    BY <1>1, <1>4, Stored DEF IInv
  <2>. QED
    BY <1>4, <2>1 DEF InHand
<1>5. CASE p # scan \/ n # i
  <2>1. bar'[p][n] = bar[p][n]
    BY <1>1, <1>5, Stored DEF IInv
  <2>. QED
    BY <1>3, <1>5, <2>1 DEF InHand
<1>. QED
  BY <1>4, <1>5

\* What decodes memory stays where it is, and the BAR in hand gets its place.
LEMMA SettledStep ==
  ASSUME IInv, InDevice, InDevice', UNCHANGED <<machine, memory, scan, ret>>,
         i \in BarNumbers, i' \in Nat, NEW x \in Nat, bar' = [bar EXCEPT ![scan][i] = x],
         \A n \in BarNumbers : n < i' /\ ~(n < i) /\ Kind(scan, n) \in MemKinds =>
           n = i /\ x < PCIE0_MMIO + WindowSize /\ x + Size(scan, i) > PCIE0_MMIO
  PROVE  Settled'
<1>1. scan \in Positions /\ ret # 0 /\ ret \in memory
  BY InDeviceIs
<1>2. memory \subseteq Positions
  BY ScannedIs DEF IInv, Types
<1>3. ASSUME NEW p \in memory
      PROVE  Present(p)' /\ Placed(p, IF InDevice /\ p = scan THEN i ELSE 6)'
  <2>1. Present(p) /\ Present(p)' /\ p \in Positions
    BY <1>2 DEF IInv, Settled, Present
  <2>2. CASE p # scan
    <3>1. Placed(p, 6) /\ bar'[p] = bar[p]
      BY <1>1, <2>1, <2>2, Stored DEF IInv, Settled
    <3>. QED
      BY <2>1, <2>2, <3>1 DEF Placed, Kind, Size
  <2>3. CASE p = scan
    <3>1. Placed(scan, i)
      BY <2>3 DEF IInv, Settled
    <3>2. ASSUME NEW n \in BarNumbers, n < i', Kind(scan, n) \in MemKinds
          PROVE  bar'[scan][n] < PCIE0_MMIO + WindowSize /\ bar'[scan][n] + Size(scan, n) > PCIE0_MMIO
      <4>1. CASE n < i
        <5>1. n # i
          BY <4>1 DEF BarNumbers
        <5>2. bar'[scan][n] = bar[scan][n]
          BY <1>1, <5>1, Stored DEF IInv
        <5>. QED
          BY <3>1, <3>2, <4>1, <5>2 DEF Placed
      <4>2. CASE ~(n < i)
        <5>1. n = i /\ x < PCIE0_MMIO + WindowSize /\ x + Size(scan, i) > PCIE0_MMIO
          BY <3>2, <4>2
        <5>2. bar'[scan][i] = x
          BY <1>1, Stored DEF IInv
        <5>. QED
          BY <5>1, <5>2
      <4>. QED
        BY <4>1, <4>2
    <3>3. Placed(scan, i)'
      BY <3>2 DEF Placed, Kind, Size
    <3>. QED
      BY <2>1, <2>3, <3>3
  <2>. QED
    BY <2>2, <2>3
<1>. QED
  BY <1>1, <1>3 DEF Settled

-----------------------------------------------------------------------------
(***************************************************************************)
(* The scan.                                                               *)
(***************************************************************************)

\* A position that is not the device's.
LEMMA SkipKeeps ==
  ASSUME IInv, Skip, UNCHANGED capVars
  PROVE  IInv'
<1> USE DEF Skip, At, busVars
<1>1. pc = "scan" /\ pc' = "scan" /\ ~Sizing /\ ~Sizing' /\ ~InDevice /\ ~InDevice'
  BY DEF Sizing, InDevice
<1>2. scan \in 0..ScanEnd - 1 /\ scan' \in 0..ScanEnd
  BY ScannedIs DEF IInv, Types
<1>3. Types'
  BY <1>1, <1>2 DEF IInv, Types, capVars
<1>4. Finding'
  <2>1. scan \notin Here(pci_id)
    BY DEF Matches, Here, Present
  <2>2. \A p \in Here(pci_id) : p < scan + 1 /\ p # scan => p < scan
    BY <1>2, ScannedIs DEF Here
  <2>3. ret # 0 => ret \in Here(pci_id) /\ ret < scan + 1
    BY <1>1, <1>2, ScannedIs DEF IInv, Types, Finding
  <2>4. \A p \in Here(pci_id) : p < scan + 1 => ret # 0
    BY <1>1, <2>1, <2>2 DEF IInv, Finding
  <2>5. Here(pci_id)' = Here(pci_id)
    BY DEF Here, Present
  <2>. QED
    BY <1>1, <2>3, <2>4, <2>5 DEF Finding
<1>5. Registers'
  BY <1>1, RegistersStay DEF IInv
<1>6. Settled'
  BY <1>1 DEF IInv, Settled, Present, Placed, Kind, Size
<1>7. Window'
  BY <1>1 DEF IInv, Window, BarsPlaced, capVars
<1>8. Kept'
  BY <1>1, KeptStays
<1>. QED
  BY <1>3, <1>4, <1>5, <1>6, <1>7, <1>8 DEF IInv

\* The device: there is no other, so nothing has been placed for this driver.
LEMMA FoundKeeps ==
  ASSUME IInv, Found, UNCHANGED capVars
  PROVE  IInv'
<1> USE DEF Found, At
<1>1. pc = "scan" /\ pc' = "bar" /\ ~Sizing /\ ~Sizing' /\ ~InDevice /\ InDevice'
  BY DEF Sizing, InDevice
<1>2. driver \in 1..Len(Drivers) /\ machine \in Machines /\ pci_id = Drivers[driver]
  BY <1>1 DEF IInv, Types
<1>3. scan \in Here(pci_id) /\ scan \in Scanned /\ scan # 0 /\ Present(scan)
  <2>1. scan \in Here(pci_id)
    BY DEF Matches, Here
  <2>. QED
    BY <1>2, <2>1, Devices
<1>4. ret = 0
  <2>1. ret # 0 => ret \in Here(pci_id) /\ ret < scan
    BY <1>1 DEF IInv, Finding
  <2>2. ret # 0 => ret = scan
    BY <1>2, <1>3, <2>1, Devices
  <2>3. scan \in Int
    BY DEF IInv, Types
  <2>. QED
    BY <2>1, <2>2, <2>3
<1>5. Types'
  BY <1>1, <1>3 DEF IInv, Types, capVars
<1>6. Finding'
  <2>1. Here(pci_id)' = Here(pci_id)
    BY DEF Here, Present
  <2>. QED
    BY <1>1, <1>3, <2>1 DEF Finding
<1>7. Registers'
  BY <1>1, RegistersStay DEF IInv
<1>8. Settled'
  <2>1. ASSUME NEW p \in memory' PROVE Present(p)' /\ Placed(p, IF InDevice /\ p = scan THEN i ELSE 6)'
    <3>1. CASE p = scan
      <4>1. \A n \in BarNumbers : ~(n < 0)
        BY DEF BarNumbers
      <4>2. Placed(scan, 0)'
        BY <4>1 DEF Placed
      <4>. QED
        BY <1>1, <1>3, <3>1, <4>2 DEF Present, Placed
    <3>2. CASE p # scan
      <4>1. Present(p) /\ Placed(p, 6)
        BY <1>1, <2>1, <3>2 DEF IInv, Settled
      <4>. QED
        BY <1>1, <3>2, <4>1 DEF Present, Placed, Kind, Size
    <3>. QED
      BY <3>1, <3>2
  <2>. QED
    BY <2>1 DEF Settled
<1>9. Window'
  BY <1>1, <1>4 DEF IInv, Window, BarsPlaced, capVars
<1>10. Kept'
  BY <1>1, KeptStays
<1>. QED
  BY <1>5, <1>6, <1>7, <1>8, <1>9, <1>10 DEF IInv

\* The last position has been looked at.
LEMMA EndScanKeeps ==
  ASSUME IInv, EndScan, UNCHANGED capVars
  PROVE  IInv'
<1> USE DEF EndScan, At, busVars
<1>1. pc = "scan" /\ pc' = "probed" /\ ~Sizing /\ ~Sizing' /\ ~InDevice /\ ~InDevice'
  BY DEF Sizing, InDevice
<1>2. Types'
  BY <1>1 DEF IInv, Types, capVars
<1>3. Finding'
  <2>1. Here(pci_id)' = Here(pci_id)
    BY DEF Here, Present
  <2>2. \A p \in Here(pci_id) : p < scan
    BY ScannedIs DEF IInv, Types, Here
  <2>. QED
    BY <1>1, <2>1, <2>2 DEF IInv, Finding, InDevice
<1>4. Registers'
  BY <1>1, RegistersStay DEF IInv
<1>5. Settled'
  BY <1>1 DEF IInv, Settled, Present, Placed, Kind, Size
<1>6. Window'
  <2>1. driver \in 1..Len(Drivers) /\ Len(Drivers) \in Nat /\ s_off \in Nat
    BY DriverAssumption DEF IInv, Types
  <2>2. Share * (6 * (driver - 1)) <= Share * (6 * (driver - 1) + 6)
    <3>1. 6 * (driver - 1) \in Nat /\ 6 * (driver - 1) + 6 \in Nat
      BY <2>1
    <3>. QED
      BY <3>1, Shares, TimesMonotone
  <2>3. Share * (6 * (driver - 1)) \in Nat /\ Share * (6 * (driver - 1) + 6) \in Nat
    <3>1. Share \in Nat
      BY Shares
    <3>. QED
      BY <2>1, <3>1, SMTT(30)
  <2>4. 6 * (driver - 1) + 0 = 6 * (driver - 1)
    BY <2>1
  <2>5. s_off <= Share * (6 * (driver - 1)) \/ s_off <= Share * (6 * (driver - 1) + 6)
    BY <1>1, <2>4 DEF IInv, Window, BarsPlaced
  <2>6. s_off <= Share * (6 * (driver - 1) + 6)
    BY <2>1, <2>2, <2>3, <2>5
  <2>. QED
    BY <1>1, <2>6 DEF Window, BarsPlaced, capVars
<1>7. Kept'
  BY <1>1, KeptStays
<1>. QED
  BY <1>2, <1>3, <1>4, <1>5, <1>6, <1>7 DEF IInv

-----------------------------------------------------------------------------
(***************************************************************************)
(* The BARs.                                                               *)
(***************************************************************************)

\* What stays in the body of the scan.
LEMMA BodyTypes ==
  ASSUME IInv, InDevice, InDevice', UNCHANGED <<machine, memory, scan, ret, pci_id, capVars>>,
         bar' \in [Positions -> [BarNumbers -> Nat]], s_off' \in Nat, mem_addr' \in 0..Word - 1,
         i' \in 0..6, Sizing' => i' \in BarNumbers /\ Kind(scan, i') # "io"
  PROVE  Types' /\ Finding'
<1>1. pc # "call" /\ pc' # "call" /\ pc' # "scan" /\ pc' # "probed" /\ pc' # "walk"
  BY DEF InDevice, Sizing
<1>2. Types'
  BY <1>1 DEF IInv, Types, capVars, InDevice, Sizing
<1>3. Finding'
  <2>1. Here(pci_id)' = Here(pci_id)
    BY DEF Here, Present
  <2>2. ret \in Here(pci_id) /\ scan \in Scanned /\ ret = scan /\ scan # 0
    BY <1>1, InDeviceIs DEF IInv, Finding
  <2>. QED
    BY <1>1, <2>1, <2>2 DEF Finding, Kind
<1>. QED
  BY <1>2, <1>3

\* Numbers of BARs.
LEMMA Numbers ==
  /\ \A n \in BarNumbers : n \in 0..5 /\ n \in 0..6 /\ n + 1 \in 0..6
  /\ \A n \in BarNumbers : n + 1 \in BarNumbers => n + 2 \in 0..6
  /\ \A n, m \in BarNumbers : ~(n < m) /\ n < m + 1 => n = m
  /\ \A n, m \in BarNumbers : ~(n < m) /\ n < m + 2 => n = m \/ n = m + 1
  BY DEF BarNumbers

\* The numbers of a state.
LEMMA Counters ==
  ASSUME IInv
  PROVE  /\ driver \in 1..Len(Drivers) /\ s_off \in Nat /\ mem_addr \in 0..Word - 1
         /\ i \in Nat /\ i \in 0..6 /\ machine \in Machines
         /\ bar \in [Positions -> [BarNumbers -> Nat]]
<1>1. i \in 0..6
  BY DEF IInv, Types
<1>2. i \in Nat
  BY <1>1
<1>. QED
  BY <1>1, <1>2, Zenon DEF IInv, Types

\* More BARs have more room.
LEMMA RoomGrows ==
  ASSUME NEW d \in 1..Len(Drivers), NEW a \in Nat, NEW b \in Nat, a <= b
  PROVE  /\ Share * (6 * (d - 1) + a) \in Nat
         /\ Share * (6 * (d - 1) + b) \in Nat
         /\ Share * (6 * (d - 1) + a) <= Share * (6 * (d - 1) + b)
<1>1. 6 * (d - 1) + a \in Nat /\ 6 * (d - 1) + b \in Nat /\ 6 * (d - 1) + a <= 6 * (d - 1) + b
  BY DriverAssumption
<1> DEFINE x == 6 * (d - 1) + a
           y == 6 * (d - 1) + b
<1>2. x \in Nat /\ y \in Nat /\ x <= y
  BY <1>1
<1> HIDE DEF x, y
<1>3. Share * x <= Share * y
  BY <1>2, Shares, TimesMonotone
<1>4. Share * x \in Nat /\ Share * y \in Nat
  <2>1. Share \in Nat
    BY Shares
  <2>. QED
    BY <1>2, <2>1, SMTT(30)
<1>. QED
  BY <1>3, <1>4, Zenon DEF x, y

\* Nothing of the body's own is moved when a register is passed over.
LEMMA PassKeeps ==
  ASSUME IInv, pc \in {"bar", "place"}, pc' = "bar", i \in BarNumbers, i' = i + 1,
         Kind(scan, i) \notin MemKinds,
         UNCHANGED <<busVars, pci_id, scan, mem_addr, ret, capVars>>
  PROVE  IInv'
<1>1. InDevice /\ InDevice' /\ ~Sizing'
  BY DEF InDevice, Sizing
<1>2. scan \in Positions /\ Present(scan)
  BY <1>1, InDeviceIs
<1>3. bar' = bar /\ machine' = machine /\ memory' = memory /\ s_off' = s_off
  BY DEF busVars
<1>4. Types' /\ Finding'
  <2>1. i' \in 0..6
    BY Numbers
  <2>2. bar' \in [Positions -> [BarNumbers -> Nat]] /\ s_off' \in Nat /\ mem_addr' \in 0..Word - 1
    BY <1>3 DEF IInv, Types
  <2>. QED
    BY <1>1, <1>3, <2>1, <2>2, BodyTypes
<1>5. Registers'
  <2>1. ASSUME NEW p \in Positions, NEW n \in BarNumbers
        PROVE  bar[p][n] < Word /\ (Present(p) /\ Kind(p, n) = "none" => bar[p][n] = 0)
    <3>1. ~InHand(p, n) => bar[p][n] < Word
      BY DEF IInv, Registers
    <3>2. Present(p) /\ Kind(p, n) = "none" => bar[p][n] = 0
      BY DEF IInv, Registers
    <3>3. InHand(p, n) => Present(p) /\ Kind(p, n) = "none"
      <4>1. InHand(p, n) => p = scan /\ n = i /\ Kind(scan, i) # "io"
        BY DEF InHand, IInv, Finding
      <4>. QED
        BY <1>2, <4>1, Bars DEF IInv, Types, MemKinds
    <3>4. 0 < Word
      BY AddressAssumption
    <3>. QED
      BY <3>1, <3>2, <3>3, <3>4
  <2>. QED
    BY <1>1, <1>3, <2>1 DEF Registers, Present, Kind, Sizing
<1>6. Settled'
  <2>1. \A n \in BarNumbers : n < i + 1 /\ Kind(scan, n) \in MemKinds => n < i
    BY DEF BarNumbers
  <2>2. Placed(scan, i) => Placed(scan, i)'
    BY <1>3, <2>1 DEF Placed, Kind, Size
  <2>3. \A p \in memory : Placed(p, 6)' <=> Placed(p, 6)
    BY <1>3 DEF Placed, Kind, Size
  <2>4. \A p \in memory : Present(p)' /\ Placed(p, IF InDevice /\ p = scan THEN i ELSE 6)'
    BY <1>1, <1>3, <2>2, <2>3 DEF IInv, Settled, Present
  <2>. QED
    BY <1>1, <1>3, <2>4, InDeviceIs DEF Settled
<1>7. Window'
  <2>1. driver \in 1..Len(Drivers) /\ s_off \in Nat /\ i \in Nat
    BY Counters
  <2>2. s_off <= Share * (6 * (driver - 1) + i)
    BY DEF IInv, Window, BarsPlaced
  <2>3. Window' <=> s_off <= Share * (6 * (driver - 1) + (i + 1))
    BY <1>3 DEF Window, BarsPlaced, capVars
  <2>4. i + 1 \in Nat /\ i <= i + 1
    BY <2>1
  <2>5. /\ Share * (6 * (driver - 1) + i) \in Nat
        /\ Share * (6 * (driver - 1) + (i + 1)) \in Nat
        /\ Share * (6 * (driver - 1) + i) <= Share * (6 * (driver - 1) + (i + 1))
    BY <2>1, <2>4, RoomGrows
  <2>. QED
    BY <2>1, <2>2, <2>3, <2>5
<1>8. Kept'
  BY <1>3, KeptStays
<1>. QED
  BY <1>4, <1>5, <1>6, <1>7, <1>8 DEF IInv

\* An I/O BAR.
LEMMA SkipIoKeeps ==
  ASSUME IInv, SkipIo, UNCHANGED capVars
  PROVE  IInv'
  BY PassKeeps DEF SkipIo, At, MemKinds

\* What a memory BAR in hand reports is its size.
LEMMA NeededSize ==
  ASSUME IInv, pc = "place"
  PROVE  /\ Kind(scan, i) \in MemKinds => Needed = Size(scan, i) /\ IsSize(Size(scan, i))
         /\ Kind(scan, i) \notin MemKinds => Needed = 0 /\ Kind(scan, i) = "none"
<1>1. InDevice /\ i \in BarNumbers /\ Kind(scan, i) # "io"
  BY DEF InDevice, Sizing, IInv, Finding
<1>2. scan \in Positions /\ Present(scan) /\ machine \in Machines
  BY <1>1, InDeviceIs DEF IInv, Types
<1> DEFINE z == Size(scan, i)
<1>3. CASE Kind(scan, i) = "mem32"
  <2>1. IsSize(z) /\ bar[scan][i] = Word - z /\ ~Is64
    BY <1>1, <1>2, <1>3, Bars DEF IInv, Registers, Is64, MemKinds
  <2> HIDE DEF z
  <2>2. Needed = (Word - (Word - z)) % Word
    BY <2>1 DEF Needed
  <2>. QED
    BY <1>3, <2>1, <2>2, NeededIs DEF z, MemKinds
<1>4. CASE Kind(scan, i) = "mem64"
  <2>1. IsSize(z) /\ bar[scan][i] = Word * Word - z /\ Is64
    BY <1>1, <1>2, <1>4, Bars DEF IInv, Registers, Is64, MemKinds
  <2> HIDE DEF z
  <2>2. Needed = (Word * Word - (Word * Word - z)) % (Word * Word)
    BY <2>1 DEF Needed
  <2>. QED
    BY <1>4, <2>1, <2>2, NeededIs DEF z, MemKinds
<1>5. CASE Kind(scan, i) = "none"
  <2>1. bar[scan][i] = 0 /\ ~Is64
    BY <1>1, <1>2, <1>5 DEF IInv, Registers, Is64
  <2>2. Needed = (Word - 0) % Word
    BY <2>1 DEF Needed
  <2>3. Word \in Nat \ {0} /\ Word * 1 + 0 = Word - 0
    BY AddressAssumption
  <2>4. (Word * 1 + 0) % Word = 0
    BY <2>3, DivUnique
  <2>. QED
    BY <1>5, <2>2, <2>3, <2>4 DEF MemKinds
<1>. QED
  BY <1>1, <1>2, <1>3, <1>4, <1>5, Bars

\* A register that is not there.
LEMMA NoSuchBarKeeps ==
  ASSUME IInv, NoSuchBar, UNCHANGED capVars
  PROVE  IInv'
<1>1. pc = "place" /\ pc' = "bar" /\ Needed = 0
  BY DEF NoSuchBar, At
<1>2. Kind(scan, i) \notin MemKinds
  BY <1>1, NeededSize DEF IsSize
<1>3. i' = i + 1 /\ i \in BarNumbers
  BY <1>1, <1>2 DEF NoSuchBar, Is64, MemKinds, IInv, Finding, Sizing
<1>. QED
  BY <1>1, <1>2, <1>3, PassKeeps DEF NoSuchBar

\* All BARs of the device are in their places.
LEMMA EndBarsKeeps ==
  ASSUME IInv, EndBars, UNCHANGED capVars
  PROVE  IInv'
<1> USE DEF EndBars, At, busVars
<1>1. pc = "bar" /\ pc' = "scan" /\ ~Sizing /\ ~Sizing' /\ InDevice /\ ~InDevice'
  BY DEF Sizing, InDevice
<1>2. i = 6 /\ scan' = scan + 1 /\ scan \in 0..ScanEnd - 1
  <2>1. i \in 0..6 /\ i \notin 0..5
    BY Counters DEF BarNumbers
  <2>2. scan \in 0..ScanEnd - 1
    BY <1>1, InDeviceIs, ScannedIs
  <2>. QED
    BY <2>1, <2>2
<1>3. ret = scan /\ ret # 0 /\ ret \in memory
  BY <1>1, InDeviceIs
<1>4. Types'
  BY <1>1, <1>2, ScannedIs DEF IInv, Types, capVars
<1>5. Finding'
  <2>1. Here(pci_id)' = Here(pci_id)
    BY DEF Here, Present
  <2>2. ret \in Here(pci_id)
    BY <1>1, <1>3 DEF IInv, Finding
  <2>. QED
    BY <1>1, <1>2, <1>3, <2>1, <2>2 DEF Finding
<1>6. Registers'
  BY <1>1, RegistersStay DEF IInv
<1>7. Settled'
  BY <1>1, <1>2, <1>3 DEF IInv, Settled, Present, Placed, Kind, Size
<1>8. Window'
  BY <1>1, <1>2, <1>3 DEF IInv, Window, BarsPlaced, capVars
<1>9. Kept'
  BY <1>1, KeptStays
<1>. QED
  BY <1>4, <1>5, <1>6, <1>7, <1>8, <1>9 DEF IInv

\* The body writes a register: what it leaves alone keeps its properties.
LEMMA StoreKeeps ==
  ASSUME IInv, InDevice, InDevice', UNCHANGED <<machine, memory, scan, ret, pci_id, capVars>>,
         i \in BarNumbers, i' \in 0..6, s_off' \in Nat, mem_addr' \in 0..Word - 1,
         NEW x \in Nat, bar' = [bar EXCEPT ![scan][i] = x],
         Kind(scan, i) = "none" => x = 0,
         IF Sizing' THEN i' = i /\ Kind(scan, i) # "io" ELSE x < Word,
         \A n \in BarNumbers : n < i' /\ ~(n < i) /\ Kind(scan, n) \in MemKinds =>
           n = i /\ x < PCIE0_MMIO + WindowSize /\ x + Size(scan, i) > PCIE0_MMIO
  PROVE  /\ Types' /\ Finding' /\ Settled' /\ Kept'
         /\ bar'[scan][i] = x
         /\ \A p \in Positions, n \in BarNumbers :
              /\ ~InHand(p, n)' => bar'[p][n] < Word
              /\ Present(p)' /\ Kind(p, n)' = "none" => bar'[p][n] = 0
<1>1. scan \in Positions
  BY InDeviceIs
<1>2. /\ bar' \in [Positions -> [BarNumbers -> Nat]] /\ bar'[scan][i] = x
      /\ \A p \in Positions : p # scan => bar'[p] = bar[p]
  BY <1>1, Stored DEF IInv
<1>3. Types' /\ Finding'
  BY <1>2, BodyTypes, Zenon
<1>4. Settled'
  <2>1. i' \in Nat
    OBVIOUS
  <2>. QED
    BY <2>1, SettledStep, Zenon
<1>5. Kept'
  <2>1. pc \notin {"call", "probed", "walk", "end"} /\ pc' \notin {"walk", "end"}
    BY DEF InDevice, Sizing
  <2>. QED
    BY <1>2, <2>1, KeptStays
<1>6. \A p \in Positions, n \in BarNumbers :
        /\ ~InHand(p, n)' => bar'[p][n] < Word
        /\ Present(p)' /\ Kind(p, n)' = "none" => bar'[p][n] = 0
  BY RegistersStep
<1>. QED
  BY <1>2, <1>3, <1>4, <1>5, <1>6, Zenon

\* All bits of a register, or of its lower half, are written.
LEMMA SizeLowKeeps ==
  ASSUME IInv, SizeLow, UNCHANGED capVars
  PROVE  IInv'
<1> DEFINE z == Size(scan, i)
           x == Masked((bar[scan][i] \div Word) * Word + (Word - 1), z)
<1>1. /\ pc = "bar" /\ pc' = IF Is64 THEN "size high" ELSE "place"
      /\ i \in BarNumbers /\ Kind(scan, i) # "io" /\ bar' = [bar EXCEPT ![scan][i] = x]
      /\ UNCHANGED <<machine, memory, s_off, pci_id, scan, i, mem_addr, ret>>
  BY DEF SizeLow, WriteLow, Store
<1>2. InDevice /\ ~Sizing /\ InDevice' /\ Sizing'
  BY <1>1 DEF InDevice, Sizing
<1>3. scan \in Positions /\ Present(scan) /\ machine \in Machines
  BY <1>2, InDeviceIs, Counters
<1>4. /\ Kind(scan, i) \in {"mem32", "mem64", "none"}
      /\ Kind(scan, i) = "none" => z = 0
      /\ Kind(scan, i) \in MemKinds => IsSize(z)
  BY <1>1, <1>3, Bars
<1>5. bar[scan][i] \in 0..Word - 1
  <2>1. bar[scan][i] \in Nat
    BY <1>1, <1>3, Counters
  <2>2. bar[scan][i] < Word
    BY <1>1, <1>2, <1>3 DEF IInv, Registers, InHand
  <2>3. Word \in Nat
    BY AddressAssumption
  <2>. QED
    BY <2>1, <2>2, <2>3
<1>6. /\ Kind(scan, i) = "none" => x = 0
      /\ Kind(scan, i) \in MemKinds => x = Word - z
      /\ x \in Nat
  <2>1. CASE Kind(scan, i) = "none"
    BY <1>4, <2>1 DEF Masked, MemKinds
  <2>2. CASE Kind(scan, i) \in MemKinds
    <3>1. x = Word - z
      BY <1>4, <1>5, <2>2, SizedLow, Zenon
    <3>2. Word - z \in Nat
      BY <1>4, <2>2, AddressAssumption DEF IsSize
    <3>. QED
      BY <2>2, <3>1, <3>2 DEF MemKinds
  <2>. QED
    BY <1>4, <2>1, <2>2 DEF MemKinds
<1> HIDE DEF x
<1>7. /\ Types' /\ Finding' /\ Settled' /\ Kept'
      /\ bar'[scan][i] = x
      /\ \A p \in Positions, n \in BarNumbers :
           /\ ~InHand(p, n)' => bar'[p][n] < Word
           /\ Present(p)' /\ Kind(p, n)' = "none" => bar'[p][n] = 0
  <2>1. i' \in 0..6 /\ s_off' \in Nat /\ mem_addr' \in 0..Word - 1
    BY <1>1, Counters
  <2>2. ~(\E n \in BarNumbers : n < i' /\ ~(n < i))
    BY <1>1
  <2>. QED
    BY <1>1, <1>2, <1>6, <2>1, <2>2, StoreKeeps, Zenon
<1>8. Registers'
  BY <1>1, <1>6, <1>7 DEF Registers, Is64, Kind, Size, MemKinds
<1>9. Window'
  <2>1. BarsPlaced' = BarsPlaced
    BY <1>1 DEF BarsPlaced, capVars
  <2>. QED
    BY <1>1, <2>1 DEF IInv, Window, capVars, Share
<1>. QED
  BY <1>7, <1>8, <1>9 DEF IInv

\* All bits of the upper half.
LEMMA SizeHighKeeps ==
  ASSUME IInv, SizeHigh, UNCHANGED capVars
  PROVE  IInv'
<1> DEFINE z == Size(scan, i)
           x == Masked((Word - 1) * Word + (bar[scan][i] % Word), z)
<1>1. /\ pc = "size high" /\ pc' = "place" /\ bar' = [bar EXCEPT ![scan][i] = x]
      /\ UNCHANGED <<machine, memory, s_off, pci_id, scan, i, mem_addr, ret>>
  BY DEF SizeHigh, WriteHigh, Store, At
<1>2. InDevice /\ Sizing /\ InDevice' /\ Sizing'
  BY <1>1 DEF InDevice, Sizing
<1>3. /\ scan \in Positions /\ Present(scan) /\ machine \in Machines
      /\ i \in BarNumbers /\ Kind(scan, i) = "mem64" /\ Is64
      /\ bar[scan][i] = Word - z
  BY <1>1, <1>2, InDeviceIs, Counters DEF IInv, Finding, Registers, Is64
<1>4. IsSize(z)
  BY <1>3, Bars DEF MemKinds
<1>5. x = Word * Word - z /\ x \in Nat
  <2>1. x = Word * Word - z
    BY <1>3, <1>4, SizedHigh, Zenon
  <2>2. Word * Word - z = (Word - 1) * Word + (Word - z) /\ (Word - 1) * Word \in Nat
    BY <1>4, SizedHigh, Zenon
  <2>3. Word - z \in Nat
    BY <1>4, AddressAssumption DEF IsSize
  <2>. QED
    BY <2>1, <2>2, <2>3
<1> HIDE DEF x
<1>7. /\ Types' /\ Finding' /\ Settled' /\ Kept'
      /\ bar'[scan][i] = x
      /\ \A p \in Positions, n \in BarNumbers :
           /\ ~InHand(p, n)' => bar'[p][n] < Word
           /\ Present(p)' /\ Kind(p, n)' = "none" => bar'[p][n] = 0
  <2>1. i' \in 0..6 /\ s_off' \in Nat /\ mem_addr' \in 0..Word - 1
    BY <1>1, Counters
  <2>2. ~(\E n \in BarNumbers : n < i' /\ ~(n < i))
    BY <1>1
  <2>3. Kind(scan, i) # "none" /\ Kind(scan, i) # "io"
    BY <1>3
  <2>. QED
    BY <1>1, <1>2, <1>3, <1>5, <2>1, <2>2, <2>3, StoreKeeps, Zenon
<1>8. Registers'
  BY <1>1, <1>3, <1>5, <1>7 DEF Registers, Is64, Kind, Size
<1>9. Window'
  <2>1. BarsPlaced' = BarsPlaced
    BY <1>1 DEF BarsPlaced, capVars
  <2>. QED
    BY <1>1, <2>1 DEF IInv, Window, capVars, Share
<1>. QED
  BY <1>7, <1>8, <1>9 DEF IInv

\* There is room for the BAR in hand: the share it has not taken yet.
LEMMA RoomLeft ==
  ASSUME IInv, InDevice, i \in BarNumbers, Kind(scan, i) \in MemKinds, IsSize(Size(scan, i)),
         s_off <= Share * (6 * (driver - 1) + i)
  PROVE  /\ s_off + PAGE_ALIGN(Size(scan, i)) \in Nat
         /\ s_off + PAGE_ALIGN(Size(scan, i)) <= Share * (6 * (driver - 1) + (i + 1))
         /\ s_off < WindowSize
<1> DEFINE z == Size(scan, i)
           g == PAGE_ALIGN(z)
           m == 6 * (driver - 1) + i
<1>1. driver \in 1..Len(Drivers) /\ s_off \in Nat /\ i \in 0..5 /\ Len(Drivers) \in Nat
  BY Counters, DriverAssumption DEF BarNumbers
<1>2. z \in Nat /\ z >= 1 /\ WindowSize \in Nat
  BY AddressAssumption DEF IsSize
<1>3. 6 * Len(Drivers) * g <= WindowSize
  BY InDeviceIs DEF Fits, Kind, Size, MemKinds
<1>4. g \in Nat /\ z <= g
  BY <1>2, Rounded
<1>5. g <= Share
  BY <1>2, <1>3, Shares
<1>6. m \in Nat /\ m + 1 \in Nat /\ m + 1 <= 6 * Len(Drivers) /\ m + 1 = 6 * (driver - 1) + (i + 1)
  BY <1>1
<1> HIDE DEF z, g, m
<1>7. Share \in Nat /\ Share * (m + 1) <= WindowSize
  BY <1>6, Shares
<1>8. Share * (m + 1) = Share * m + Share /\ Share * m \in Nat
  BY <1>6, <1>7, SMTT(30)
<1>9. s_off <= Share * m
  BY DEF m
<1>10. /\ s_off + g \in Nat
       /\ s_off + g <= Share * (m + 1)
       /\ s_off < WindowSize
  BY <1>1, <1>2, <1>4, <1>5, <1>7, <1>8, <1>9
<1>11. s_off + g <= Share * (6 * (driver - 1) + (i + 1))
  BY <1>6, <1>10
<1>. QED
  BY <1>10, <1>11, Zenon DEF z, g

\* The lower half of a BAR gets its address.
LEMMA PlaceLowKeeps ==
  ASSUME IInv, PlaceLow, UNCHANGED capVars
  PROVE  IInv'
<1> DEFINE z == Size(scan, i)
           v == PCIE0_MMIO + s_off
           x == Masked((bar[scan][i] \div Word) * Word + v, z)
<1>1. /\ pc = "place" /\ Needed # 0
      /\ pc' = IF Is64 THEN "place high" ELSE "bar"
      /\ i' = IF Is64 THEN i ELSE i + 1
      /\ mem_addr' = v /\ s_off' = s_off + PAGE_ALIGN(Needed)
      /\ WriteLow(v % Word)
      /\ UNCHANGED <<machine, memory, pci_id, scan, ret>>
  BY DEF PlaceLow, pci_alloc_mmio
<1>2. InDevice /\ InDevice' /\ Sizing
  BY <1>1 DEF InDevice, Sizing
<1>3. /\ Kind(scan, i) \in MemKinds /\ IsSize(z) /\ Needed = z
      /\ scan \in Positions /\ Present(scan) /\ i \in BarNumbers
  BY <1>1, <1>2, NeededSize, InDeviceIs DEF IInv, Finding
<1>4. s_off <= Share * (6 * (driver - 1) + i)
  BY <1>1 DEF IInv, Window, BarsPlaced
<1>5. /\ s_off' \in Nat /\ s_off' <= Share * (6 * (driver - 1) + (i + 1))
      /\ s_off < WindowSize
  BY <1>1, <1>2, <1>3, <1>4, RoomLeft
<1>6. /\ v \in 0..Word - 1 /\ v \in Nat /\ v >= PCIE0_MMIO /\ v < PCIE0_MMIO + WindowSize
      /\ v \in PCIE0_MMIO..PCIE0_MMIO + WindowSize - 1
  BY <1>5, Counters, AddressAssumption
<1> DEFINE w == Masked(v, z)
<1> HIDE DEF v
<1>7. v % Word = v
  BY <1>6, LowHalf
<1>8. bar' = [bar EXCEPT ![scan][i] = x]
  BY <1>1, <1>7 DEF WriteLow, Store
<1>9. w \in Nat /\ w <= v /\ v < w + z /\ z \in Nat
  <2>1. z \in Nat \ {0}
    BY <1>3, AddressAssumption DEF IsSize
  <2>. QED
    BY <1>6, <2>1, MaskedBounds, Zenon
<1>10. /\ ~Is64 => x = w
       /\ Is64 => x = (Word - 1) * Word + w
       /\ x \in Nat
  <2>1. CASE ~Is64
    <3>1. bar[scan][i] = Word - z
      BY <1>1, <1>3, <2>1 DEF IInv, Registers, Is64, MemKinds
    <3>2. x = w
      BY <1>3, <1>6, <3>1, PlacedLow, Zenon
    <3>. QED
      BY <1>9, <2>1, <3>2
  <2>2. CASE Is64
    <3>1. bar[scan][i] = Word * Word - z
      BY <1>1, <2>2 DEF IInv, Registers
    <3>2. x = (Word - 1) * Word + w
      BY <1>3, <1>6, <3>1, PlacedLow, Zenon
    <3>3. (Word - 1) * Word \in Nat
      BY <1>3, SizedHigh, Zenon
    <3>. QED
      BY <1>9, <2>2, <3>2, <3>3
  <2>. QED
    BY <2>1, <2>2
<1> HIDE DEF x, w
<1>11. i' \in 0..6
  BY <1>1, <1>3, Numbers, Zenon
<1>12. ~Is64 => ~Sizing' /\ x < Word /\ x < PCIE0_MMIO + WindowSize /\ x + z > PCIE0_MMIO
  <2>1. ~Is64 => ~Sizing'
    BY <1>1 DEF Sizing
  <2>. QED
    BY <2>1, <1>6, <1>9, <1>10, AddressAssumption
<1>13. Is64 => Sizing' /\ i' = i /\ Kind(scan, i) # "io"
  BY <1>1 DEF Sizing, Is64
<1>14. ASSUME NEW n \in BarNumbers, n < i', ~(n < i), Kind(scan, n) \in MemKinds
       PROVE  n = i /\ x < PCIE0_MMIO + WindowSize /\ x + Size(scan, i) > PCIE0_MMIO
  <2>1. ~Is64 /\ n = i
    BY <1>1, <1>3, <1>14, Numbers, Zenon
  <2>. QED
    BY <1>12, <2>1
<1>15. /\ Types' /\ Finding' /\ Settled' /\ Kept'
       /\ bar'[scan][i] = x
       /\ \A p \in Positions, n \in BarNumbers :
            /\ ~InHand(p, n)' => bar'[p][n] < Word
            /\ Present(p)' /\ Kind(p, n)' = "none" => bar'[p][n] = 0
  <2>1. mem_addr' \in 0..Word - 1 /\ Kind(scan, i) # "none"
    BY <1>1, <1>3, <1>6 DEF MemKinds
  <2>2. IF Sizing' THEN i' = i /\ Kind(scan, i) # "io" ELSE x < Word
    BY <1>12, <1>13
  <2>. QED
    BY <1>1, <1>2, <1>3, <1>5, <1>8, <1>10, <1>11, <1>14, <2>1, <2>2, StoreKeeps, Zenon
<1>16. Registers'
  <2>1. pc' = "place high" => Is64 /\ i' = i /\ mem_addr' = v /\ bar'[scan][i] = (Word - 1) * Word + w
    BY <1>1, <1>10, <1>15
  <2>2. pc' # "size high" /\ pc' # "place" /\ scan' = scan /\ machine' = machine
    BY <1>1
  <2>3. pc' = "place high" =>
          /\ Is64' /\ mem_addr' \in PCIE0_MMIO..PCIE0_MMIO + WindowSize - 1
          /\ bar'[scan'][i'] = (Word - 1) * Word + Masked(mem_addr', Size(scan, i)')
    BY <1>6, <2>1, <2>2 DEF Is64, Kind, Size, w
  <2>. QED
    BY <1>15, <2>2, <2>3 DEF Registers
<1>17. Window'
  <2>1. BarsPlaced' = 6 * (driver - 1) + (i + 1)
    BY <1>1 DEF BarsPlaced, capVars
  <2>. QED
    BY <1>5, <2>1 DEF Window, Share
<1>. QED
  BY <1>15, <1>16, <1>17 DEF IInv

\* And the upper half.
LEMMA PlaceHighKeeps ==
  ASSUME IInv, PlaceHigh, UNCHANGED capVars
  PROVE  IInv'
<1> DEFINE z == Size(scan, i)
           v == mem_addr
           x == Masked((v \div Word) * Word + (bar[scan][i] % Word), z)
           w == Masked(v, z)
<1>1. /\ pc = "place high" /\ pc' = "bar" /\ i' = i + 2
      /\ bar' = [bar EXCEPT ![scan][i] = x]
      /\ UNCHANGED <<machine, memory, s_off, pci_id, scan, mem_addr, ret>>
  BY DEF PlaceHigh, WriteHigh, Store, At
<1>2. InDevice /\ InDevice' /\ Sizing /\ ~Sizing'
  BY <1>1 DEF InDevice, Sizing
<1>3. /\ scan \in Positions /\ Present(scan) /\ machine \in Machines /\ i \in BarNumbers
      /\ Kind(scan, i) = "mem64" /\ v \in PCIE0_MMIO..PCIE0_MMIO + WindowSize - 1
      /\ bar[scan][i] = (Word - 1) * Word + w
  BY <1>1, <1>2, InDeviceIs, Counters DEF IInv, Finding, Registers, Is64
<1>4. IsSize(z) /\ i + 1 \in BarNumbers /\ Kind(scan, i + 1) = "none"
  BY <1>3, Bars DEF MemKinds
<1>5. v \in 0..Word - 1 /\ v \in Nat /\ v >= PCIE0_MMIO /\ v < PCIE0_MMIO + WindowSize
  BY <1>3, AddressAssumption
<1>6. x = w
  BY <1>3, <1>4, <1>5, PlacedHigh, Zenon
<1>7. w \in Nat /\ w <= v /\ v < w + z /\ z \in Nat
  <2>1. z \in Nat \ {0}
    BY <1>4, AddressAssumption DEF IsSize
  <2>. QED
    BY <1>5, <2>1, MaskedBounds, Zenon
<1> HIDE DEF x, w
<1>8. x \in Nat /\ x < Word /\ x < PCIE0_MMIO + WindowSize /\ x + z > PCIE0_MMIO
  BY <1>5, <1>6, <1>7, AddressAssumption
<1>9. ASSUME NEW n \in BarNumbers, n < i', ~(n < i), Kind(scan, n) \in MemKinds
      PROVE  n = i /\ x < PCIE0_MMIO + WindowSize /\ x + Size(scan, i) > PCIE0_MMIO
  <2>1. n = i \/ n = i + 1
    BY <1>1, <1>3, <1>9, Numbers, Zenon
  <2>2. n = i
    BY <1>4, <1>9, <2>1 DEF MemKinds
  <2>. QED
    BY <1>8, <2>2
<1>10. /\ Types' /\ Finding' /\ Settled' /\ Kept'
       /\ bar'[scan][i] = x
       /\ \A p \in Positions, n \in BarNumbers :
            /\ ~InHand(p, n)' => bar'[p][n] < Word
            /\ Present(p)' /\ Kind(p, n)' = "none" => bar'[p][n] = 0
  <2>1. s_off' \in Nat /\ mem_addr' \in 0..Word - 1 /\ i' \in 0..6
    BY <1>1, <1>3, <1>4, Counters, Numbers, Zenon
  <2>2. Kind(scan, i) # "none"
    BY <1>3
  <2>. QED
    BY <1>1, <1>2, <1>3, <1>8, <1>9, <2>1, <2>2, StoreKeeps, Zenon
<1>11. Registers'
  BY <1>1, <1>10 DEF Registers
<1>12. Window'
  <2>1. driver \in 1..Len(Drivers) /\ s_off \in Nat /\ i \in Nat
    BY Counters
  <2>2. s_off <= Share * (6 * (driver - 1) + (i + 1))
    BY <1>1 DEF IInv, Window, BarsPlaced
  <2>3. Window' <=> s_off <= Share * (6 * (driver - 1) + (i + 2))
    BY <1>1 DEF Window, BarsPlaced, capVars, Share
  <2>4. i + 1 \in Nat /\ i + 2 \in Nat /\ i + 1 <= i + 2
    BY <2>1
  <2>5. /\ Share * (6 * (driver - 1) + (i + 1)) \in Nat
        /\ Share * (6 * (driver - 1) + (i + 2)) \in Nat
        /\ Share * (6 * (driver - 1) + (i + 1)) <= Share * (6 * (driver - 1) + (i + 2))
    BY <2>1, <2>4, RoomGrows
  <2>. QED
    BY <2>1, <2>2, <2>3, <2>5
<1>. QED
  BY <1>10, <1>11, <1>12 DEF IInv

-----------------------------------------------------------------------------
(***************************************************************************)
(* Outside the scan.                                                       *)
(***************************************************************************)

\* Nothing is written to the bus.
LEMMA BusStays ==
  ASSUME IInv, UNCHANGED busVars, ~InDevice, ~InDevice'
  PROVE  /\ Registers'
         /\ \A p \in memory' : Present(p)' /\ Placed(p, IF InDevice /\ p = scan THEN i ELSE 6)'
         /\ \A id : Here(id)' = Here(id)
<1>1. machine' = machine /\ memory' = memory /\ bar' = bar
  BY DEF busVars
<1>2. ~Sizing /\ ~Sizing'
  BY DEF InDevice
<1>3. Registers'
  BY <1>1, <1>2, RegistersStay DEF IInv
<1>4. \A p \in memory' : Present(p)' /\ Placed(p, IF InDevice /\ p = scan THEN i ELSE 6)'
  BY <1>1 DEF IInv, Settled, Present, Placed, Kind, Size
<1>. QED
  BY <1>1, <1>3, <1>4 DEF Here, Present

\* An address kept for good, and nothing has happened to it.
LEMMA KeptStill ==
  ASSUME UNCHANGED <<machine, memory, bar>>, NEW n, NEW a, hw'[n][a] = hw[n][a],
         \E p \in memory \cap Here(Drivers[n]) : \E k \in DOMAIN Caps(p) :
           LastOf(p, a, Len(Caps(p)), k) /\ KeptFrom(n, a, p, k)
  PROVE  \E p \in memory' \cap Here(Drivers[n])' : \E k \in DOMAIN Caps(p)' :
           LastOf(p, a, Len(Caps(p)), k)' /\ KeptFrom(n, a, p, k)'
<1>1. PICK p, k :
        /\ p \in memory \cap Here(Drivers[n])
        /\ k \in DOMAIN Caps(p) /\ LastOf(p, a, Len(Caps(p)), k) /\ KeptFrom(n, a, p, k)
  OBVIOUS
<1>2. p \in memory' \cap Here(Drivers[n])' /\ k \in DOMAIN Caps(p)'
  BY <1>1 DEF Here, Present, Caps
<1>3. LastOf(p, a, Len(Caps(p)), k)'
  BY <1>1 DEF LastOf, Caps
<1>4. KeptFrom(n, a, p, k)'
  BY <1>1 DEF KeptFrom, Caps, ReadBar64, Kind
<1>. QED
  BY <1>2, <1>3, <1>4

\* Steps that keep no address, between one driver's walk and the next one's.
LEMMA KeptBefore ==
  ASSUME IInv, UNCHANGED <<busVars, driver, hw>>, pc \in {"call", "probed"}, pc' # "walk"
  PROVE  Kept'
<1>1. machine' = machine /\ memory' = memory /\ bar' = bar
  BY DEF busVars
<1>2. driver \in 1..Len(Drivers)
  BY Counters
<1>3. ASSUME NEW n \in 1..Len(Drivers), NEW a \in Areas, hw[n][a] # NONE
      PROVE  /\ n < driver
             /\ \E p \in memory' \cap Here(Drivers[n])' : \E k \in DOMAIN Caps(p)' :
                  LastOf(p, a, Len(Caps(p)), k)' /\ KeptFrom(n, a, p, k)'
  <2>1. n < driver
    BY <1>3 DEF IInv, Kept
  <2>2. \E p \in memory \cap Here(Drivers[n]) : \E k \in DOMAIN Caps(p) :
          LastOf(p, a, Len(Caps(p)), k) /\ KeptFrom(n, a, p, k)
    BY <1>3, <2>1 DEF IInv, Kept
  <2>. QED
    BY <1>1, <2>1, <2>2, KeptStill
<1>4. hw' \in [1..Len(Drivers) -> [Areas -> Nat \cup {NONE}]]
  BY DEF IInv, Kept
<1>. QED
  BY <1>3, <1>4 DEF Kept

\* pci_device_probe is called.
LEMMA ProbeKeeps ==
  ASSUME IInv, Probe
  PROVE  IInv'
<1>1. /\ pc = "call" /\ pc' = "scan" /\ pci_id' = Drivers[driver] /\ scan' = 0 /\ ret' = 0
      /\ UNCHANGED <<busVars, i, mem_addr, capVars>>
      /\ UNCHANGED <<machine, memory, bar, s_off, driver, cap, hw>>
  BY DEF Probe, CallProbe, At, busVars, capVars
<1>2. ~InDevice /\ ~InDevice' /\ ~Sizing'
  BY <1>1 DEF InDevice, Sizing
<1>3. Types'
  <2>1. scan' \in 0..ScanEnd /\ ret' \in Scanned
    BY <1>1, ScannedIs
  <2>. QED
    BY <1>1, <2>1 DEF IInv, Types
<1>4. Finding'
  <2>1. \A p \in Here(pci_id)' : ~(p < 0)
    BY ScannedIs DEF Here
  <2>. QED
    BY <1>1, <1>2, <2>1 DEF Finding
<1>5. Registers' /\ Settled'
  BY <1>1, <1>2, BusStays DEF Settled
<1>6. Window'
  BY <1>1 DEF IInv, Window, BarsPlaced, Share
<1>7. Kept'
  BY <1>1, KeptBefore
<1>. QED
  BY <1>3, <1>4, <1>5, <1>6, <1>7 DEF IInv

\* Nobody answers to the id.
LEMMA NotFoundKeeps ==
  ASSUME IInv, NotFound
  PROVE  IInv'
<1>1. /\ pc = "probed" /\ pc' = "end" /\ ret = 0
      /\ UNCHANGED <<busVars, pci_id, scan, i, mem_addr, ret, capVars>>
      /\ UNCHANGED <<machine, memory, bar, s_off, driver, cap, hw>>
  BY DEF NotFound, At, busVars, capVars
<1>2. ~InDevice /\ ~InDevice' /\ ~Sizing'
  BY <1>1 DEF InDevice, Sizing
<1>3. Types'
  BY <1>1 DEF IInv, Types
<1>4. Finding'
  BY <1>1, <1>2 DEF Finding
<1>5. Registers' /\ Settled'
  BY <1>1, <1>2, BusStays DEF Settled
<1>6. Window'
  BY <1>1 DEF IInv, Window, BarsPlaced, Share
<1>7. Kept'
  BY <1>1, KeptBefore
<1>. QED
  BY <1>3, <1>4, <1>5, <1>6, <1>7 DEF IInv

\* The driver's own device, once it is found.
LEMMA RetIs ==
  ASSUME IInv, pc \in {"probed", "walk"}, ret # 0
  PROVE  /\ ret \in Here(Drivers[driver]) /\ ret \in memory /\ ret \in Positions
         /\ Fits(machine[ret]) /\ Len(Caps(ret)) \in Nat /\ DOMAIN Caps(ret) = 1..Len(Caps(ret))
<1>1. ret \in Here(Drivers[driver]) /\ ret \in memory
  BY DEF IInv, Types, Finding, Settled
<1>2. driver \in 1..Len(Drivers) /\ machine \in Machines
  BY Counters
<1>3. ret \in Positions /\ Fits(machine[ret])
  BY <1>1, <1>2, Devices
<1>. QED
  BY <1>1, <1>3 DEF Fits, Caps

\* virtio_pci_read_caps starts.
LEMMA StartWalkKeeps ==
  ASSUME IInv, StartWalk
  PROVE  IInv'
<1>1. /\ pc = "probed" /\ pc' = "walk" /\ ret # 0 /\ cap' = 1
      /\ UNCHANGED <<busVars, pci_id, scan, i, mem_addr, ret, driver, hw>>
      /\ UNCHANGED <<machine, memory, bar, s_off>>
  BY DEF StartWalk, At, busVars
<1>2. ~InDevice /\ ~InDevice' /\ ~Sizing'
  BY <1>1 DEF InDevice, Sizing
<1>3. Types'
  BY <1>1 DEF IInv, Types
<1>4. Finding'
  <2>1. ret \in Here(pci_id) /\ Here(pci_id)' = Here(pci_id)
    BY <1>1, <1>2, BusStays DEF IInv, Finding
  <2>. QED
    BY <1>1, <1>2, <2>1 DEF Finding
<1>5. Registers' /\ Settled'
  BY <1>1, <1>2, BusStays, RetIs DEF Settled
<1>6. Window'
  BY <1>1 DEF IInv, Window, BarsPlaced, Share
<1>7. Kept'
  <2>1. driver \in 1..Len(Drivers)
    BY Counters
  <2>2. ASSUME NEW n \in 1..Len(Drivers), NEW a \in Areas, hw[n][a] # NONE
        PROVE  /\ n < driver
               /\ \E p \in memory' \cap Here(Drivers[n])' : \E k \in DOMAIN Caps(p)' :
                    LastOf(p, a, Len(Caps(p)), k)' /\ KeptFrom(n, a, p, k)'
    <3>1. n < driver
      BY <1>1, <2>2 DEF IInv, Kept
    <3>2. \E p \in memory \cap Here(Drivers[n]) : \E k \in DOMAIN Caps(p) :
            LastOf(p, a, Len(Caps(p)), k) /\ KeptFrom(n, a, p, k)
      BY <2>2, <3>1 DEF IInv, Kept
    <3>. QED
      BY <1>1, <3>1, <3>2, KeptStill
  <2>3. cap' <= Len(Caps(ret)) + 1 /\ Caps(ret)' = Caps(ret)
    BY <1>1, RetIs DEF Caps
  <2>4. \A a \in Areas : hw[driver][a] = NONE
    BY <2>1, <2>2
  <2>5. hw' \in [1..Len(Drivers) -> [Areas -> Nat \cup {NONE}]]
    BY <1>1 DEF IInv, Kept
  <2>. QED
    BY <1>1, <2>2, <2>3, <2>4, <2>5 DEF Kept
<1>. QED
  BY <1>3, <1>4, <1>5, <1>6, <1>7 DEF IInv

\* What a BAR reads as is a number.
LEMMA ReadIs ==
  ASSUME IInv, NEW p \in Positions, NEW n \in BarNumbers
  PROVE  ReadBar64(p, n) \in Nat
<1>1. \A m \in BarNumbers : bar[p][m] \in Nat
  BY Counters
<1>2. Word \in Nat
  BY AddressAssumption
<1>3. CASE n = 5
  BY <1>1, <1>3 DEF ReadBar64
<1>4. CASE n # 5
  <2>1. bar[p][n] \in Nat /\ bar[p][n + 1] \in Nat
    BY <1>1, <1>4 DEF BarNumbers
  <2>2. bar[p][n + 1] * Word \in Nat
    BY <1>2, <2>1, SMTT(30)
  <2>3. bar[p][n + 1] * Word + bar[p][n] \in Nat
    BY <2>1, <2>2
  <2>. QED
    BY <2>1, <2>3 DEF ReadBar64
<1>. QED
  BY <1>3, <1>4

\* A capability is read: a later one of the same area replaces an earlier one.
LEMMA ReadCapKeeps ==
  ASSUME IInv, ReadCap
  PROVE  IInv'
<1> DEFINE c == Caps(ret)[cap]
           Kepts == c.vndr /\ c.area \in Areas
<1>1. /\ pc = "walk" /\ pc' = "walk" /\ cap <= Len(Caps(ret)) /\ cap' = cap + 1
      /\ hw' = IF Kepts THEN [hw EXCEPT ![driver][c.area] = get_cfg_addr(ret, c)] ELSE hw
      /\ UNCHANGED <<busVars, pci_id, scan, i, mem_addr, ret, driver>>
      /\ UNCHANGED <<machine, memory, bar, s_off>>
  BY DEF ReadCap, At, busVars
<1>2. ~InDevice /\ ~InDevice' /\ ~Sizing'
  BY <1>1 DEF InDevice, Sizing
<1>3. ret # 0 /\ cap \in Nat \ {0} /\ driver \in 1..Len(Drivers)
  BY <1>1 DEF IInv, Types, Finding
<1>4. /\ ret \in Here(Drivers[driver]) /\ ret \in memory /\ ret \in Positions
      /\ Fits(machine[ret]) /\ Len(Caps(ret)) \in Nat /\ DOMAIN Caps(ret) = 1..Len(Caps(ret))
  BY <1>1, <1>3, RetIs
<1>5. Types'
  BY <1>1, <1>3 DEF IInv, Types
<1>6. Finding'
  <2>1. ret \in Here(pci_id) /\ Here(pci_id)' = Here(pci_id)
    BY <1>1, <1>2, <1>3, BusStays DEF IInv, Finding
  <2>. QED
    BY <1>1, <1>2, <1>3, <2>1 DEF Finding
<1>7. Registers' /\ Settled'
  BY <1>1, <1>2, <1>4, BusStays DEF Settled
<1>8. Window'
  BY <1>1 DEF IInv, Window, BarsPlaced, Share
<1>9. hw \in [1..Len(Drivers) -> [Areas -> Nat \cup {NONE}]]
  BY DEF IInv, Kept
<1>10. Kepts => get_cfg_addr(ret, c) \in Nat
  <2>1. cap \in 1..Len(Caps(ret))
    BY <1>1, <1>3, <1>4
  <2>2. Kepts => c.bar \in BarNumbers /\ c.offset \in Nat
    BY <1>4, <2>1 DEF Fits, Caps
  <2>3. Kepts => ReadBar64(ret, c.bar) \in Nat
    BY <1>4, <2>2, ReadIs
  <2>. QED
    BY <2>2, <2>3 DEF get_cfg_addr
<1>11. /\ hw' \in [1..Len(Drivers) -> [Areas -> Nat \cup {NONE}]]
       /\ \A n \in 1..Len(Drivers), a \in Areas : n # driver => hw'[n][a] = hw[n][a]
       /\ \A a \in Areas : ~(Kepts /\ c.area = a) => hw'[driver][a] = hw[driver][a]
       /\ \A a \in Areas : Kepts /\ c.area = a => hw'[driver][a] = get_cfg_addr(ret, c)
  <2> HIDE DEF c
  <2>. QED
    BY <1>1, <1>3, <1>9, <1>10
<1>12. ASSUME NEW n \in 1..Len(Drivers), NEW a \in Areas, hw'[n][a] # NONE, n # driver
       PROVE  /\ n < driver
              /\ \E p \in memory' \cap Here(Drivers[n])' : \E k \in DOMAIN Caps(p)' :
                   LastOf(p, a, Len(Caps(p)), k)' /\ KeptFrom(n, a, p, k)'
  <2>1. hw[n][a] # NONE /\ hw'[n][a] = hw[n][a]
    BY <1>11, <1>12
  <2>2. n < driver
    BY <1>1, <1>12, <2>1 DEF IInv, Kept
  <2>3. \E p \in memory \cap Here(Drivers[n]) : \E k \in DOMAIN Caps(p) :
          LastOf(p, a, Len(Caps(p)), k) /\ KeptFrom(n, a, p, k)
    BY <2>1, <2>2 DEF IInv, Kept
  <2>. QED
    BY <1>1, <2>1, <2>2, <2>3, KeptStill
<1>13. Caps(ret)' = Caps(ret) /\ \A n \in BarNumbers : ReadBar64(ret, n)' = ReadBar64(ret, n)
  BY <1>1 DEF Caps, ReadBar64, Kind
<1>14. ASSUME NEW a, NEW k
       PROVE  /\ LastOf(ret, a, cap, k) => LastOf(ret, a, cap - 1, k)'
              /\ LastOf(ret, a, cap, k) => k \in 1..cap
              /\ k \in 1..cap - 1 /\ LastOf(ret, a, cap - 1, k) /\ ~(c.vndr /\ c.area = a) => LastOf(ret, a, cap, k)
              /\ k = cap => LastOf(ret, a, cap, k)
  <2>1. cap' - 1 = cap /\ ret' = ret
    BY <1>1, <1>3
  <2>2. LastOf(ret, a, cap, k) => LastOf(ret, a, cap - 1, k)'
    BY <1>13, <2>1 DEF LastOf
  <2>3. k \in 1..cap - 1 => k \in 1..cap /\ \A j \in k + 1..cap : j \in k + 1..cap - 1 \/ j = cap
    BY <1>3
  <2>4. k = cap => k \in 1..cap /\ ~(\E j \in k + 1..cap : TRUE)
    BY <1>3
  <2>. QED
    BY <2>2, <2>3, <2>4 DEF LastOf
<1>15. ASSUME NEW a \in Areas, hw'[driver][a] # NONE
       PROVE  \E k \in 1..cap : LastOf(ret, a, cap - 1, k)' /\ KeptFrom(driver, a, ret, k)'
  <2>1. CASE Kepts /\ c.area = a
    <3>1. hw'[driver][a] = ReadBar64(ret, c.bar) + c.offset
      BY <1>11, <2>1 DEF get_cfg_addr
    <3>2. ASSUME NEW k, k = cap
          PROVE  KeptFrom(driver, a, ret, k)'
      BY <1>1, <2>1, <3>1, <3>2 DEF KeptFrom, ReadBar64, Kind, Caps
    <3>. QED
      BY <1>14, <3>2
  <2>2. CASE ~(Kepts /\ c.area = a)
    <3>1. hw'[driver][a] = hw[driver][a]
      BY <1>11, <2>2
    <3>2. PICK k \in 1..cap - 1 : LastOf(ret, a, cap - 1, k) /\ KeptFrom(driver, a, ret, k)
      BY <1>1, <1>15, <3>1 DEF IInv, Kept
    <3>3. k \in 1..cap /\ LastOf(ret, a, cap - 1, k)'
      BY <1>14, <2>2, <3>2
    <3>4. KeptFrom(driver, a, ret, k)'
      BY <1>1, <3>1, <3>2 DEF KeptFrom, ReadBar64, Kind, Caps
    <3>. QED
      BY <3>3, <3>4
  <2>. QED
    BY <2>1, <2>2
<1>16. Kept'
  <2>1. cap' <= Len(Caps(ret)') + 1 /\ cap' - 1 = cap
    BY <1>1, <1>3, <1>4, <1>13
  <2>2. driver' = driver /\ ret' = ret /\ pc' = "walk"
    BY <1>1
  <2>3. \A n \in 1..Len(Drivers) : ~(n < driver) \/ n # driver
    BY <1>3
  <2>4. \A a \in Areas : hw'[driver][a] # NONE =>
          \E k \in 1..cap' - 1 : LastOf(ret, a, cap - 1, k)' /\ KeptFrom(driver, a, ret, k)'
    BY <1>15, <2>1
  <2>. QED
    BY <1>11, <1>12, <2>1, <2>2, <2>3, <2>4 DEF Kept
<1>. QED
  BY <1>5, <1>6, <1>7, <1>8, <1>16 DEF IInv

\* The walk is over: the driver keeps the last address of each area.
LEMMA EndWalkKeeps ==
  ASSUME IInv, EndWalk
  PROVE  IInv'
<1>1. /\ pc = "walk" /\ pc' = IF driver < Len(Drivers) THEN "call" ELSE "end"
      /\ cap > Len(Caps(ret))
      /\ driver' = IF driver < Len(Drivers) THEN driver + 1 ELSE driver
      /\ UNCHANGED <<busVars, pci_id, scan, i, mem_addr, ret, cap, hw>>
      /\ UNCHANGED <<machine, memory, bar, s_off>>
  BY DEF EndWalk, At, busVars
<1>2. ~InDevice /\ ~InDevice' /\ ~Sizing' /\ pc' \in {"call", "end"}
  BY <1>1 DEF InDevice, Sizing
<1>3. ret # 0 /\ cap \in Nat \ {0} /\ driver \in 1..Len(Drivers) /\ Len(Drivers) \in Nat
  BY <1>1, DriverAssumption DEF IInv, Types, Finding
<1>4. /\ ret \in Here(Drivers[driver]) /\ ret \in memory /\ Len(Caps(ret)) \in Nat
      /\ DOMAIN Caps(ret) = 1..Len(Caps(ret))
  BY <1>1, <1>3, RetIs
<1>5. driver' \in 1..Len(Drivers)
  BY <1>1, <1>3
<1>6. Types'
  <2>1. pc' # "call" => driver' = driver
    BY <1>1
  <2>. QED
    BY <1>1, <1>2, <1>5, <2>1 DEF IInv, Types
<1>7. Finding'
  <2>1. ret \in Here(pci_id) /\ Here(pci_id)' = Here(pci_id)
    BY <1>1, <1>2, <1>3, BusStays DEF IInv, Finding
  <2>. QED
    BY <1>1, <1>2, <1>3, <2>1 DEF Finding
<1>8. Registers' /\ Settled'
  BY <1>1, <1>2, <1>4, BusStays DEF Settled
<1>9. Window'
  <2>1. s_off <= Share * (6 * (driver - 1) + 6)
    BY <1>1 DEF IInv, Window, BarsPlaced
  <2>2. CASE driver < Len(Drivers)
    <3>1. 6 * (driver' - 1) + 0 = 6 * (driver - 1) + 6
      BY <1>1, <1>3, <2>2
    <3>2. BarsPlaced' = 6 * (driver' - 1) + 0
      BY <1>1, <2>2 DEF BarsPlaced
    <3>. QED
      BY <1>1, <2>1, <3>1, <3>2 DEF Window, Share
  <2>3. CASE ~(driver < Len(Drivers))
    <3>1. BarsPlaced' = 6 * (driver - 1) + 6
      BY <1>1, <2>3 DEF BarsPlaced
    <3>. QED
      BY <1>1, <2>1, <3>1 DEF Window, Share
  <2>. QED
    BY <2>2, <2>3
<1>10. ASSUME NEW n \in 1..Len(Drivers), NEW a \in Areas, hw[n][a] # NONE
       PROVE  /\ n < driver' \/ (n = driver' /\ pc' = "end")
              /\ \E p \in memory' \cap Here(Drivers[n])' : \E k \in DOMAIN Caps(p)' :
                   LastOf(p, a, Len(Caps(p)), k)' /\ KeptFrom(n, a, p, k)'
  <2>1. n < driver \/ n = driver
    BY <1>1, <1>10 DEF IInv, Kept
  <2>2. n < driver' \/ (n = driver' /\ pc' = "end")
    <3>1. n < driver + 1
      BY <1>3, <2>1
    <3>. QED
      BY <1>1, <2>1, <3>1
  <2>3. \E p \in memory \cap Here(Drivers[n]) : \E k \in DOMAIN Caps(p) :
          LastOf(p, a, Len(Caps(p)), k) /\ KeptFrom(n, a, p, k)
    <3>1. CASE n < driver
      BY <1>10, <3>1 DEF IInv, Kept
    <3>2. CASE n = driver
      <4>1. cap - 1 = Len(Caps(ret))
        <5>1. cap <= Len(Caps(ret)) + 1
          BY <1>1 DEF IInv, Kept
        <5>. QED
          BY <1>1, <1>3, <1>4, <5>1
      <4>2. PICK k \in 1..cap - 1 : LastOf(ret, a, cap - 1, k) /\ KeptFrom(driver, a, ret, k)
        BY <1>1, <1>10, <3>2 DEF IInv, Kept
      <4>3. k \in DOMAIN Caps(ret) /\ LastOf(ret, a, Len(Caps(ret)), k)
        BY <1>4, <4>1, <4>2
      <4>. QED
        BY <1>4, <3>2, <4>2, <4>3
    <3>. QED
      BY <2>1, <3>1, <3>2
  <2>. QED
    BY <1>1, <2>2, <2>3, KeptStill
<1>11. Kept'
  <2>1. hw \in [1..Len(Drivers) -> [Areas -> Nat \cup {NONE}]]
    BY DEF IInv, Kept
  <2>. QED
    BY <1>1, <1>2, <1>10, <2>1 DEF Kept
<1>. QED
  BY <1>6, <1>7, <1>8, <1>9, <1>11 DEF IInv

-----------------------------------------------------------------------------
(***************************************************************************)
(* The theorems.                                                           *)
(***************************************************************************)

\* Nothing has been found, written or kept yet.
LEMMA InitHolds == Init => IInv
<1> SUFFICES ASSUME Init PROVE IInv
  OBVIOUS
<1> USE DEF Init, ProbeInit
<1>1. ~Sizing /\ ~InDevice
  BY DEF Sizing, InDevice
<1>2. Word \in Nat \ {0} /\ Len(Drivers) \in Nat \ {0}
  BY AddressAssumption, DriverAssumption
<1>3. Types
  <2>1. bar \in [Positions -> [BarNumbers -> Nat]]
    OBVIOUS
  <2>2. scan \in 0..ScanEnd /\ ret \in Scanned /\ mem_addr \in 0..Word - 1 /\ driver \in 1..Len(Drivers)
    BY <1>2, ScannedIs
  <2>. QED
    BY <2>1, <2>2 DEF Types
<1>4. Finding
  BY <1>1 DEF Finding
<1>5. Registers
  BY <1>2 DEF Registers
<1>6. Settled
  BY DEF Settled
<1>7. Window
  <2>1. BarsPlaced = 6 * (1 - 1) + 0
    BY DEF BarsPlaced
  <2>2. Share * 0 = 0
    BY Shares
  <2>. QED
    BY <2>1, <2>2 DEF Window
<1>8. Kept
  BY DEF Kept
<1>. QED
  BY <1>3, <1>4, <1>5, <1>6, <1>7, <1>8 DEF IInv

\* Every step of the two probes and walks keeps the invariant.
LEMMA NextKeeps == IInv /\ [Next]_vars => IInv'
<1> SUFFICES ASSUME IInv, [Next]_vars PROVE IInv'
  OBVIOUS
<1>1. CASE ProbeStep /\ UNCHANGED capVars
  BY <1>1, SkipKeeps, FoundKeeps, EndScanKeeps, SkipIoKeeps, SizeLowKeeps, SizeHighKeeps,
     NoSuchBarKeeps, PlaceLowKeeps, PlaceHighKeeps, EndBarsKeeps DEF ProbeStep
<1>2. CASE Probe
  BY <1>2, ProbeKeeps
<1>3. CASE NotFound
  BY <1>3, NotFoundKeeps
<1>4. CASE StartWalk
  BY <1>4, StartWalkKeeps
<1>5. CASE ReadCap
  BY <1>5, ReadCapKeeps
<1>6. CASE EndWalk
  BY <1>6, EndWalkKeeps
<1>7. CASE UNCHANGED vars
  <2> USE <1>7 DEF vars, busVars, probeVars, capVars
  <2>1. Types'
    BY DEF IInv, Types
  <2>2. Finding'
    BY DEF IInv, Finding, Here, Present, Scanned, InDevice, Sizing, Kind
  <2>3. Registers'
    BY DEF IInv, Registers, InHand, Sizing, Present, Kind, Size, Is64, Masked
  <2>4. Settled'
    BY DEF IInv, Settled, Placed, InDevice, Sizing, Present, Kind, Size
  <2>5. Window'
    BY DEF IInv, Window, BarsPlaced, Share
  <2>6. Kept'
    <3>1. \A n, a, p, k : KeptFrom(n, a, p, k)' <=> KeptFrom(n, a, p, k)
      BY DEF KeptFrom, Caps, ReadBar64, Kind
    <3>2. \A p, a, u, k : LastOf(p, a, u, k)' <=> LastOf(p, a, u, k)
      BY DEF LastOf, Caps
    <3>3. \A p : Caps(p)' = Caps(p)
      BY DEF Caps
    <3>4. \A n : Here(Drivers[n])' = Here(Drivers[n])
      BY DEF Here, Present
    <3>. QED
      BY <3>1, <3>2, <3>3, <3>4 DEF IInv, Kept
  <2>. QED
    BY <2>1, <2>2, <2>3, <2>4, <2>5, <2>6 DEF IInv
<1>. QED
  BY <1>1, <1>2, <1>3, <1>4, <1>5, <1>6, <1>7 DEF Next

\* The invariant of the set-up.
THEOREM Invariant == Spec => []IInv
  BY InitHolds, NextKeeps, PTL DEF Spec

\* No register holds more than its 64 bits, and the window is never exhausted.
LEMMA TypesFollow == IInv => TypeOK
<1> SUFFICES ASSUME IInv PROVE TypeOK
  OBVIOUS
<1>1. bar \in [Positions -> [BarNumbers -> 0..Word * Word - 1]]
  <2>1. Word \in Nat \ {0} /\ Word <= Word * Word /\ Word * Word \in Nat
    BY AddressAssumption, SMTT(30)
  <2>2. ASSUME NEW p \in Positions, NEW n \in BarNumbers
        PROVE  bar[p][n] \in 0..Word * Word - 1
    <3>1. bar[p][n] \in Nat
      BY Counters
    <3>2. CASE bar[p][n] < Word
      BY <2>1, <3>1, <3>2
    <3>3. CASE ~(bar[p][n] < Word)
      <4>1. Sizing /\ p = scan /\ n = i
        BY <3>3 DEF IInv, Registers, InHand
      <4>2. /\ InDevice /\ Kind(scan, i) # "io" /\ scan \in Positions /\ Present(scan)
            /\ machine \in Machines
        BY <4>1, InDeviceIs, Counters DEF InDevice, IInv, Finding
      <4> DEFINE z == Size(scan, i)
      <4>3. Kind(scan, i) \in MemKinds /\ IsSize(z)
        <5>1. Kind(scan, i) # "none"
          <6>1. bar[scan][i] # 0
            BY <2>1, <3>3, <4>1
          <6>. QED
            BY <4>1, <4>2, <6>1 DEF IInv, Registers
        <5>. QED
          BY <4>1, <4>2, <5>1, Bars DEF MemKinds
      <4>4. z \in 1..Word - 1
        BY <4>3 DEF IsSize
      <4>5. CASE pc = "size high" \/ (pc = "place" /\ Kind(scan, i) = "mem32")
        <5>1. bar[scan][i] = Word - z
          BY <4>5 DEF IInv, Registers
        <5> HIDE DEF z
        <5>. QED
          BY <2>1, <3>3, <4>1, <4>4, <5>1
      <4>6. CASE pc = "place" /\ Kind(scan, i) = "mem64"
        <5>1. bar[scan][i] = Word * Word - z
          BY <4>6 DEF IInv, Registers, Is64
        <5> HIDE DEF z
        <5>. QED
          BY <2>1, <3>1, <4>1, <4>4, <5>1
      <4>7. CASE pc = "place high"
        <5> DEFINE w == Masked(mem_addr, z)
        <5>1. bar[scan][i] = (Word - 1) * Word + w
          BY <4>7 DEF IInv, Registers
        <5>2. w \in Nat /\ w <= mem_addr
          <6>1. z \in Nat \ {0} /\ mem_addr \in Nat
            BY <4>4, Counters, AddressAssumption
          <6>. QED
            BY <6>1, MaskedBounds
        <5>3. mem_addr \in 0..Word - 1
          BY Counters
        <5> HIDE DEF z, w
        <5>4. (Word - 1) * Word = Word * Word - Word
          BY <2>1, SMTT(30)
        <5>. QED
          BY <2>1, <3>1, <4>1, <5>1, <5>2, <5>3, <5>4
      <4>. QED
        BY <4>1, <4>3, <4>5, <4>6, <4>7 DEF Sizing, MemKinds
    <3>. QED
      BY <3>2, <3>3
  <2>. QED
    BY <2>2, Counters
<1>2. s_off \in 0..WindowSize
  <2>1. driver \in 1..Len(Drivers) /\ s_off \in Nat /\ i \in 0..6 /\ Len(Drivers) \in Nat /\ WindowSize \in Nat
    BY Counters, DriverAssumption, AddressAssumption
  <2>2. pc = "place high" => i + 1 \in 0..6
    BY Numbers, Zenon DEF IInv, Finding, Sizing
  <2>3. BarsPlaced \in Nat /\ BarsPlaced <= 6 * Len(Drivers)
    <3>1. \A e \in 0..6 : 6 * (driver - 1) + e \in Nat /\ 6 * (driver - 1) + e <= 6 * Len(Drivers)
      BY <2>1
    <3>2. 0 \in 0..6 /\ 6 \in 0..6
      OBVIOUS
    <3>. QED
      BY <2>1, <2>2, <3>1, <3>2 DEF BarsPlaced
  <2>4. s_off <= Share * BarsPlaced /\ Share * BarsPlaced <= WindowSize
    BY <2>3, Shares DEF IInv, Window
  <2>5. Share * BarsPlaced \in Nat
    <3>1. Share \in Nat
      BY Shares
    <3>. QED
      BY <2>3, <3>1, SMTT(30)
  <2>. QED
    BY <2>1, <2>4, <2>5
<1>3. scan \in Scanned \cup {(BusCount - 1) * DevCount}
  <2>1. scan \in 0..ScanEnd
    BY DEF IInv, Types
  <2>2. scan \in Scanned \cup {ScanEnd}
    BY <2>1, ScannedIs
  <2>. QED
    BY <2>2 DEF ScanEnd
<1>4. i \in 0..7
  BY Counters
<1>5. \A n \in 1..Len(Drivers), a \in Areas : hw[n][a] \in Nat \cup {NONE}
  BY DEF IInv, Kept
<1>. QED
  BY <1>1, <1>2, <1>3, <1>4, <1>5 DEF IInv, Types, TypeOK, ProbeTypeOK

\* The probes and the walks keep their variables in range, whatever is on the bus.
THEOREM TypeCorrect == Spec => []TypeOK
  BY Invariant, TypesFollow, PTL

\* pci_device_probe returns the device it was asked for whenever it is on a bus
\* that is scanned, and 0 only if it is not.
THEOREM ProbeCorrect == Spec => []ProbeFinds
<1>1. IInv => ProbeFinds
  <2> SUFFICES ASSUME IInv PROVE ProbeFinds
    OBVIOUS
  <2>1. pc = "probed" => (ret # 0 => ret \in Here(pci_id)) /\ (ret = 0 => Here(pci_id) = {})
    BY DEF IInv, Finding
  <2>. QED
    BY <2>1, TypesFollow DEF ProbeFinds
<1>. QED
  BY <1>1, Invariant, PTL

\* The addresses virtio_pci_read_caps leaves a driver with stay addresses of its
\* own device, at the offset a capability gives, whatever is probed later.
THEOREM AreasCorrect == Spec => []AreasReachable
<1>1. IInv => AreasReachable
  <2> SUFFICES ASSUME IInv, NEW n \in 1..Len(Drivers), Configured(n),
                      NEW a \in Areas, hw[n][a] # NONE
               PROVE  \E pm \in HomeBars(n, hw[n][a]) :
                        \E k \in DOMAIN Caps(pm[1]) :
                          LET c == Caps(pm[1])[k]
                          IN  /\ c.vndr /\ c.area = a /\ c.bar = pm[2]
                              /\ hw[n][a] = First(pm[1], pm[2]) + c.offset
    BY DEF AreasReachable
  <2>1. n < driver \/ (n = driver /\ pc = "end")
    BY DEF IInv, Kept, Configured
  <2>2. PICK p, k :
          /\ p \in memory \cap Here(Drivers[n])
          /\ k \in DOMAIN Caps(p)
          /\ LastOf(p, a, Len(Caps(p)), k) /\ KeptFrom(n, a, p, k)
    BY <2>1 DEF IInv, Kept
  <2> DEFINE c == Caps(p)[k]
             m == c.bar
  <2>3. /\ p \in Positions /\ p \in memory /\ Present(p) /\ machine[p].id = Drivers[n]
        /\ Fits(machine[p]) /\ machine \in Machines /\ driver \in 1..Len(Drivers)
    BY <2>2, Devices, Counters
  <2>4. /\ m \in BarNumbers /\ c.offset \in Nat /\ c.offset < Size(p, m)
        /\ Kind(p, m) = "mem64" \/ (Kind(p, m) = "mem32" /\ (m < 5 => Kind(p, m + 1) = "none"))
    BY <2>2, <2>3 DEF Fits, Caps, LastOf, KeptFrom, Kind, Size
  <2>5. Placed(p, 6)
    <3>1. InDevice => p # scan
      <4>1. InDevice => n < driver /\ scan \in Here(Drivers[driver])
        BY <2>1, InDeviceIs DEF InDevice, Sizing
      <4>2. n < driver => n # driver
        BY <2>3
      <4>. QED
        BY <2>2, <2>3, <4>1, <4>2, NotShared
    <3>. QED
      BY <2>3, <3>1 DEF IInv, Settled
  <2>6. ReadBar64(p, m) = bar[p][m] /\ bar[p][m] \in Nat
    <3>1. bar[p][m] \in Nat
      BY <2>3, <2>4, Counters
    <3>2. ASSUME Kind(p, m) = "mem32", m # 5
          PROVE  bar[p][m + 1] * Word + bar[p][m] = bar[p][m]
      <4>1. m + 1 \in BarNumbers /\ m < 5
        BY <2>4, <3>2 DEF BarNumbers
      <4>2. bar[p][m + 1] = 0
        BY <2>3, <2>4, <3>2, <4>1 DEF IInv, Registers
      <4>. QED
        BY <3>1, <4>2, AddressAssumption
    <3>. QED
      BY <2>4, <3>1, <3>2 DEF ReadBar64
  <2>7. hw[n][a] = bar[p][m] + c.offset /\ c.vndr /\ c.area = a
    BY <2>2, <2>6 DEF KeptFrom
  <2>8. /\ bar[p][m] < PCIE0_MMIO + WindowSize /\ bar[p][m] + Size(p, m) > PCIE0_MMIO
        /\ Size(p, m) \in Nat
    <3>1. Kind(p, m) \in MemKinds /\ m < 6
      BY <2>4 DEF MemKinds, BarNumbers
    <3>2. IsSize(Size(p, m))
      BY <2>3, <2>4, <3>1, Bars
    <3>. QED
      BY <2>4, <2>5, <3>1, <3>2, AddressAssumption DEF Placed, IsSize
  <2>9. Visible(p, m)
    <3>1. Last(p, m) >= PCIE0_MMIO
      BY <2>6, <2>8, AddressAssumption DEF Last
    <3>. QED
      BY <2>3, <2>4, <2>8, <3>1 DEF Visible, IsMemory, First
  <2>10. hw[n][a] \in First(p, m)..Last(p, m)
    BY <2>4, <2>6, <2>7, <2>8 DEF First, Last
  <2>11. <<p, m>> \in HomeBars(n, hw[n][a])
    BY <2>3, <2>4, <2>9, <2>10 DEF HomeBars
  <2>. QED
    BY <2>2, <2>7, <2>11 DEF First
<1>. QED
  BY <1>1, Invariant, PTL

-----------------------------------------------------------------------------
(***************************************************************************)
(* The order of the BARs.  The window is handed out from its start, so a   *)
(* BAR placed later ends later; it begins behind an earlier one whenever   *)
(* its size divides the other's, because rounding its address down then    *)
(* cannot bring it back below that end.                                    *)
(***************************************************************************)

\* A BAR that decodes memory at the address allocated for it.
InPlace(p, n) ==
  /\ p \in memory /\ n \in BarNumbers /\ Kind(p, n) \in MemKinds
  /\ InDevice /\ p = scan => n < i

End(p, n) == bar[p][n] + Size(p, n)

\* The order in which the drivers and the loop over the BARs come to them.
Before(p, n, q, m) ==
  \/ p = q /\ n < m
  \/ \E j, k \in 1..Len(Drivers) : j < k /\ p \in Here(Drivers[j]) /\ q \in Here(Drivers[k])

\* Only devices of drivers decode memory.
Owned ==
  \A p \in memory : \E n \in 1..Len(Drivers) :
    p \in Here(Drivers[n]) /\ (n < driver \/ (n = driver /\ pc # "call" /\ ret = p))

\* A register not written yet is 0.
Fresh ==
  \A p \in Positions, n \in BarNumbers :
    \/ p \notin memory
    \/ p = scan /\ ((pc = "bar" /\ i <= n) \/ (Sizing /\ i < n))
    => bar[p][n] = 0

\* Every BAR in place lies below what has been handed out, and below the
\* address kept for the one in hand.
Stacked ==
  /\ \A p \in Positions, n \in BarNumbers : InPlace(p, n) =>
       /\ \E k \in Nat : bar[p][n] = Size(p, n) * k
       /\ End(p, n) <= PCIE0_MMIO + s_off
       /\ pc = "place high" => End(p, n) <= mem_addr
  /\ pc = "place high" => mem_addr + Size(scan, i) <= PCIE0_MMIO + s_off

Sorted ==
  \A p, q \in Positions, n, m \in BarNumbers :
    InPlace(p, n) /\ InPlace(q, m) /\ Before(p, n, q, m) =>
      /\ End(p, n) <= End(q, m)
      /\ Size(p, n) % Size(q, m) = 0 => End(p, n) <= bar[q][m]

Order == Owned /\ Fresh /\ Stacked /\ Sorted

\* What is in place is a memory BAR of a device with a size PCI allows.
LEMMA InPlaceIs ==
  ASSUME IInv, NEW p \in Positions, NEW n \in BarNumbers, InPlace(p, n)
  PROVE  /\ Present(p) /\ IsSize(Size(p, n)) /\ Size(p, n) \in Nat \ {0}
         /\ bar[p][n] \in Nat /\ End(p, n) \in Nat
<1>1. Present(p) /\ machine \in Machines /\ Kind(p, n) \in MemKinds
  BY Counters DEF InPlace, IInv, Settled
<1>2. IsSize(Size(p, n))
  BY <1>1, Bars
<1>3. Size(p, n) \in Nat \ {0}
  BY <1>2, AddressAssumption DEF IsSize
<1>4. bar[p][n] \in Nat
  BY Counters
<1>. QED
  BY <1>1, <1>2, <1>3, <1>4 DEF End

\* The devices stay where they are.
LEMMA PlacesStay ==
  ASSUME machine' = machine
  PROVE  /\ \A p, n : Kind(p, n)' = Kind(p, n) /\ Size(p, n)' = Size(p, n)
         /\ \A id : Here(id)' = Here(id)
         /\ \A p, n, q, m : Before(p, n, q, m)' = Before(p, n, q, m)
<1>1. \A id : Here(id)' = Here(id)
  BY DEF Here, Present
<1>. QED
  BY <1>1 DEF Kind, Size, Before

\* A step that puts nothing new into its place.
LEMMA OrderStays ==
  ASSUME IInv, Order, machine' = machine, s_off' = s_off, pc' # "place high",
         \A p \in Positions, n \in BarNumbers :
           InPlace(p, n)' => InPlace(p, n) /\ bar'[p][n] = bar[p][n]
  PROVE  Stacked' /\ Sorted'
<1>1. /\ \A p, n : Size(p, n)' = Size(p, n)
      /\ \A p, n, q, m : Before(p, n, q, m)' = Before(p, n, q, m)
  BY PlacesStay
<1>2. \A p \in Positions, n \in BarNumbers : InPlace(p, n)' => End(p, n)' = End(p, n)
  BY <1>1 DEF End
<1>3. ASSUME NEW p \in Positions, NEW n \in BarNumbers, InPlace(p, n)'
      PROVE  /\ \E k \in Nat : bar'[p][n] = Size(p, n)' * k
             /\ End(p, n)' <= PCIE0_MMIO + s_off'
  BY <1>1, <1>2, <1>3 DEF Order, Stacked
<1>4. Stacked'
  BY <1>3 DEF Stacked
<1>5. ASSUME NEW p \in Positions, NEW q \in Positions, NEW n \in BarNumbers, NEW m \in BarNumbers,
             InPlace(p, n)', InPlace(q, m)', Before(p, n, q, m)'
      PROVE  /\ End(p, n)' <= End(q, m)'
             /\ Size(p, n)' % Size(q, m)' = 0 => End(p, n)' <= bar'[q][m]
  <2>1. InPlace(p, n) /\ InPlace(q, m) /\ Before(p, n, q, m) /\ bar'[q][m] = bar[q][m]
    BY <1>1, <1>5
  <2>2. End(p, n) <= End(q, m) /\ (Size(p, n) % Size(q, m) = 0 => End(p, n) <= bar[q][m])
    BY <2>1 DEF Order, Sorted
  <2>. QED
    BY <1>1, <1>2, <1>5, <2>1, <2>2
<1>6. Sorted'
  BY <1>5 DEF Sorted
<1>. QED
  BY <1>4, <1>6

\* Rounding an address down cannot cross a multiple of the size.
LEMMA NotBelow ==
  ASSUME NEW x \in Nat \ {0}, NEW z \in Nat \ {0}, x % z = 0, NEW k \in Nat,
         NEW v \in Nat, x * k + x <= v
  PROVE  x * k + x <= Masked(v, z)
<1> DEFINE c == x \div z
           q == v \div z
<1>1. c \in Nat /\ x = z * c
  <2>1. c \in Nat /\ x = z * c + (x % z)
    BY DivMod
  <2>2. z * c \in Nat
    BY <2>1, SMTT(30)
  <2>. QED
    BY <2>1, <2>2
<1>2. q \in Nat /\ v = z * q + (v % z) /\ v % z \in 0..z - 1
  BY DivMod
<1>3. Masked(v, z) = z * q
  BY <1>2, SMTT(30) DEF Masked
<1> HIDE DEF c, q
<1> DEFINE e == c * k + c
<1>4. e \in Nat /\ x * k + x = z * e
  <2>1. e \in Nat
    BY <1>1, SMTT(30)
  <2>2. x * k = z * (c * k)
    BY <1>1, SMTT(30)
  <2>3. c * k \in Nat
    BY <1>1, SMTT(30)
  <2>4. z * e = z * (c * k) + z * c
    BY <1>1, <2>3, SMTT(30)
  <2>. QED
    BY <1>1, <2>1, <2>2, <2>4
<1> HIDE DEF e
<1>5. e <= q
  <2>1. SUFFICES ASSUME q + 1 <= e PROVE FALSE
    BY <1>2, <1>4
  <2>2. z * (q + 1) <= z * e
    BY <1>2, <1>4, <2>1, TimesMonotone
  <2>3. z * (q + 1) = z * q + z /\ z * q \in Nat /\ z * e \in Nat
    BY <1>2, <1>4, SMTT(30)
  <2>. QED
    BY <1>2, <1>4, <2>2, <2>3
<1>6. z * e <= z * q
  BY <1>2, <1>4, <1>5, TimesMonotone
<1>. QED
  BY <1>3, <1>4, <1>6

\* The device in hand is the last one: nothing in place comes behind its BAR.
LEMMA HandIsLast ==
  ASSUME IInv, Order, InDevice, i \in BarNumbers,
         NEW q \in Positions, NEW m \in BarNumbers, InPlace(q, m)
  PROVE  ~Before(scan, i, q, m)
<1>1. /\ scan \in Here(Drivers[driver]) /\ driver \in 1..Len(Drivers) /\ machine \in Machines
      /\ q \in memory
  BY InDeviceIs, Counters DEF InPlace
<1>2. ~(scan = q /\ i < m)
  BY DEF InPlace, BarNumbers
<1>3. ASSUME NEW j \in 1..Len(Drivers), NEW k \in 1..Len(Drivers), j < k,
             scan \in Here(Drivers[j]), q \in Here(Drivers[k])
      PROVE  FALSE
  <2>1. j = driver
    BY <1>1, <1>3, NotShared
  <2>2. PICK n \in 1..Len(Drivers) : q \in Here(Drivers[n]) /\ n <= driver
    BY <1>1 DEF Order, Owned
  <2>3. n = k
    BY <1>1, <1>3, <2>2, NotShared
  <2>. QED
    BY <1>3, <2>1, <2>2, <2>3
<1>. QED
  BY <1>2, <1>3 DEF Before

\* Nothing but the BAR in hand is put into its place.
OnlyHand ==
  \A p \in Positions, n \in BarNumbers : InPlace(p, n)' =>
    \/ p = scan /\ n = i
    \/ InPlace(p, n) /\ bar'[p][n] = bar[p][n]

\* The BAR in hand gets the address v, behind everything in place so far.
HandPlaced(v) ==
  /\ pc' # "place high"
  /\ \A p \in Positions, n \in BarNumbers : InPlace(p, n) => End(p, n) <= v
  /\ v + Size(scan, i) <= PCIE0_MMIO + s_off'
  /\ s_off' \in Nat /\ s_off <= s_off'
  /\ bar'[scan][i] = Masked(v, Size(scan, i))

\* That keeps the order.
LEMMA Placement ==
  ASSUME IInv, Order, InDevice, i \in BarNumbers, Kind(scan, i) \in MemKinds,
         machine' = machine, NEW v \in Nat,
         OnlyHand, HandPlaced(v)
  PROVE  Stacked' /\ Sorted'
<1> DEFINE z == Size(scan, i)
           w == Masked(v, z)
           Hand(p, n) == p = scan /\ n = i
<1>1. /\ \A p, n : Size(p, n)' = Size(p, n)
      /\ \A p, n, q, m : Before(p, n, q, m)' = Before(p, n, q, m)
  BY PlacesStay
<1>2. scan \in Positions /\ Present(scan) /\ machine \in Machines
  BY InDeviceIs, Counters
<1>3. z \in Nat \ {0}
  <2>1. IsSize(z)
    BY <1>2, Bars
  <2>. QED
    BY <2>1, AddressAssumption DEF IsSize
<1>4. w \in Nat /\ w <= v /\ v < w + z
  BY <1>3, MaskedBounds, Zenon
<1>5. /\ PCIE0_MMIO \in Nat /\ s_off \in Nat /\ s_off' \in Nat
      /\ s_off <= s_off' /\ v + z <= PCIE0_MMIO + s_off'
  BY Counters, AddressAssumption DEF HandPlaced
<1>6. ASSUME NEW p \in Positions, NEW n \in BarNumbers, InPlace(p, n)', Hand(p, n)
      PROVE  bar'[p][n] = w /\ End(p, n)' = w + z
  BY <1>1, <1>6 DEF End, HandPlaced
<1>7. ASSUME NEW p \in Positions, NEW n \in BarNumbers, InPlace(p, n)', ~Hand(p, n)
      PROVE  /\ InPlace(p, n) /\ bar'[p][n] = bar[p][n] /\ End(p, n)' = End(p, n)
             /\ End(p, n) \in Nat /\ End(p, n) <= v /\ bar[p][n] \in Nat
  <2>1. InPlace(p, n) /\ bar'[p][n] = bar[p][n]
    BY <1>7 DEF OnlyHand
  <2>. QED
    BY <1>1, <2>1, InPlaceIs DEF End, HandPlaced
<1> HIDE DEF z, w
<1>8. ASSUME NEW p \in Positions, NEW n \in BarNumbers, InPlace(p, n)'
      PROVE  /\ \E k \in Nat : bar'[p][n] = Size(p, n)' * k
             /\ End(p, n)' <= PCIE0_MMIO + s_off'
  <2>1. CASE Hand(p, n)
    <3>1. Size(p, n)' = z
      BY <1>1, <2>1 DEF z
    <3>2. w + z <= PCIE0_MMIO + s_off'
      <4>1. w <= v /\ v + z <= PCIE0_MMIO + s_off'
        BY <1>4, <1>5
      <4>2. w \in Nat /\ z \in Nat /\ PCIE0_MMIO \in Nat /\ s_off' \in Nat
        BY <1>3, <1>4, <1>5
      <4>3. \A a, b, c, d, e \in Nat : a <= b /\ b + c <= d + e => a + c <= d + e
        OBVIOUS
      <4>. QED
        BY <4>1, <4>2, <4>3, Zenon
    <3>3. \E k \in Nat : w = z * k
      <4>1. v \div z \in Nat
        BY <1>3, DivMod
      <4>2. \A b \in Nat : b * z = z * b
        BY <1>3
      <4>. QED
        BY <1>3, <4>1, <4>2 DEF Masked, w
    <3>. QED
      BY <1>6, <1>8, <2>1, <3>1, <3>2, <3>3
  <2>2. CASE ~Hand(p, n)
    <3>1. /\ \E k \in Nat : bar[p][n] = Size(p, n) * k
          /\ End(p, n) <= PCIE0_MMIO + s_off
      BY <1>7, <1>8, <2>2 DEF Order, Stacked
    <3>2. End(p, n) <= PCIE0_MMIO + s_off'
      <4>1. End(p, n) \in Nat
        BY <1>7, <1>8, <2>2
      <4>. QED
        BY <1>5, <3>1, <4>1
    <3>. QED
      BY <1>1, <1>7, <1>8, <2>2, <3>1, <3>2
  <2>. QED
    BY <2>1, <2>2
<1>9. Stacked'
  BY <1>8 DEF Stacked, HandPlaced
<1>10. ASSUME NEW p \in Positions, NEW q \in Positions, NEW n \in BarNumbers, NEW m \in BarNumbers,
              InPlace(p, n)', InPlace(q, m)', Before(p, n, q, m)
       PROVE  /\ End(p, n)' <= End(q, m)'
              /\ Size(p, n) % Size(q, m) = 0 => End(p, n)' <= bar'[q][m]
  <2>1. CASE Hand(q, m) /\ ~Hand(p, n)
    <3>1. /\ InPlace(p, n) /\ End(p, n)' = End(p, n) /\ End(p, n) \in Nat /\ End(p, n) <= v
      BY <1>7, <1>10, <2>1
    <3>2. bar'[q][m] = w /\ End(q, m)' = w + z /\ Size(q, m) = z
      BY <1>6, <1>10, <2>1 DEF z
    <3>3. ASSUME Size(p, n) % z = 0
          PROVE  End(p, n) <= w
      <4>1. PICK k \in Nat : bar[p][n] = Size(p, n) * k
        BY <3>1 DEF Order, Stacked
      <4>2. Size(p, n) \in Nat \ {0}
        BY <3>1, InPlaceIs
      <4>3. Size(p, n) * k + Size(p, n) = End(p, n)
        BY <4>1 DEF End
      <4>4. Size(p, n) * k + Size(p, n) <= v
        BY <3>1, <4>3
      <4>5. Size(p, n) * k + Size(p, n) <= Masked(v, z)
        BY <1>3, <3>3, <4>2, <4>4, NotBelow, Zenon
      <4>. QED
        BY <4>3, <4>5 DEF w
    <3>4. End(p, n) <= w + z
      BY <1>3, <1>4, <3>1
    <3>. QED
      BY <3>1, <3>2, <3>3, <3>4
  <2>2. CASE ~Hand(q, m) /\ ~Hand(p, n)
    <3>1. InPlace(p, n) /\ InPlace(q, m) /\ bar'[q][m] = bar[q][m]
          /\ End(p, n)' = End(p, n) /\ End(q, m)' = End(q, m)
      BY <1>7, <1>10, <2>2
    <3>2. End(p, n) <= End(q, m) /\ (Size(p, n) % Size(q, m) = 0 => End(p, n) <= bar[q][m])
      BY <1>10, <3>1 DEF Order, Sorted
    <3>. QED
      BY <3>1, <3>2
  <2>3. CASE Hand(p, n) /\ ~Hand(q, m)
    <3>1. InPlace(q, m) /\ p = scan /\ n = i
      BY <1>7, <1>10, <2>3
    <3>. QED
      BY <1>10, <3>1, HandIsLast
  <2>4. CASE Hand(p, n) /\ Hand(q, m)
    <3>1. p = q /\ n = m /\ p = scan
      BY <2>4
    <3>2. ~(n < n)
      BY DEF BarNumbers
    <3>3. PICK j, k \in 1..Len(Drivers) : j < k /\ scan \in Here(Drivers[j]) /\ scan \in Here(Drivers[k])
      BY <1>10, <3>1, <3>2 DEF Before
    <3>4. j # k
      BY <3>3, DriverAssumption
    <3>. QED
      BY <1>2, <3>3, <3>4, NotShared
  <2>. QED
    BY <2>1, <2>2, <2>3, <2>4
<1>11. Sorted'
  <2>1. SUFFICES ASSUME NEW p \in Positions, NEW q \in Positions, NEW n \in BarNumbers,
                        NEW m \in BarNumbers,
                        InPlace(p, n)', InPlace(q, m)', Before(p, n, q, m)'
                 PROVE  /\ End(p, n)' <= End(q, m)'
                        /\ Size(p, n)' % Size(q, m)' = 0 => End(p, n)' <= bar'[q][m]
    BY DEF Sorted
  <2>2. Before(p, n, q, m) /\ Size(p, n)' = Size(p, n) /\ Size(q, m)' = Size(q, m)
    BY <1>1, <2>1
  <2>. QED
    BY <1>10, <2>1, <2>2
<1>. QED
  BY <1>9, <1>11

-----------------------------------------------------------------------------
(***************************************************************************)
(* The order is kept.                                                      *)
(***************************************************************************)

\* Outside the body of the scan nothing is placed.
LEMMA OutsideKeeps ==
  ASSUME IInv, Order, UNCHANGED busVars, ~InDevice, ~InDevice', Owned'
  PROVE  Order'
<1>1. machine' = machine /\ memory' = memory /\ bar' = bar /\ s_off' = s_off
  BY DEF busVars
<1>2. pc # "bar" /\ ~Sizing /\ pc' # "bar" /\ ~Sizing' /\ pc' # "place high"
  BY DEF InDevice, Sizing
<1>3. Fresh'
  BY <1>1, <1>2 DEF Order, Fresh
<1>4. \A p \in Positions, n \in BarNumbers :
        InPlace(p, n)' => InPlace(p, n) /\ bar'[p][n] = bar[p][n]
  BY <1>1 DEF InPlace, Kind
<1>. QED
  BY <1>1, <1>2, <1>3, <1>4, OrderStays DEF Order

\* As long as it is the same driver's turn.
LEMMA OwnedStays ==
  ASSUME IInv, Owned, UNCHANGED <<machine, memory, driver, ret>>, pc # "call", pc' # "call"
  PROVE  Owned'
<1>1. \A id : Here(id)' = Here(id)
  BY PlacesStay
<1>. QED
  BY <1>1 DEF Owned

\* The device starts to decode memory: none of its BARs is in place.
LEMMA FoundOrder ==
  ASSUME IInv, Order, Found, UNCHANGED capVars
  PROVE  Order'
<1>1. /\ pc = "scan" /\ pc' = "bar" /\ ~InDevice /\ InDevice' /\ ~Sizing /\ ~Sizing'
      /\ memory' = memory \cup {scan} /\ ret' = scan /\ i' = 0
      /\ UNCHANGED <<machine, bar, s_off, pci_id, scan, mem_addr, driver>>
  BY DEF Found, At, InDevice, Sizing, capVars
<1>2. driver \in 1..Len(Drivers) /\ machine \in Machines /\ pci_id = Drivers[driver]
  BY <1>1 DEF IInv, Types
<1>3. scan \in Here(Drivers[driver])
  BY <1>2 DEF Found, Matches, Here
<1>4. ASSUME NEW p \in memory
      PROVE  p # scan /\ \E n \in 1..Len(Drivers) : p \in Here(Drivers[n]) /\ n < driver
  <2>1. PICK n \in 1..Len(Drivers) : p \in Here(Drivers[n]) /\ (n < driver \/ (n = driver /\ ret = p))
    BY DEF Order, Owned
  <2>2. n < driver
    <3>1. SUFFICES ASSUME ret = p PROVE FALSE
      BY <2>1
    <3>2. ret # 0
      BY <1>2, <2>1, <3>1, Devices
    <3>3. ret \in Here(Drivers[driver]) /\ ret < scan
      BY <1>1, <1>2, <3>2 DEF IInv, Finding
    <3>4. ret = scan
      BY <1>2, <1>3, <3>3, Devices
    <3>5. scan \in Int
      BY <1>2, <1>3, Devices, ScannedIs
    <3>. QED
      BY <3>3, <3>4, <3>5
  <2>3. n # driver
    BY <1>2, <2>2
  <2>. QED
    BY <1>2, <1>3, <2>1, <2>2, <2>3, NotShared
<1>5. Owned'
  <2>1. \A id : Here(id)' = Here(id)
    BY <1>1, PlacesStay
  <2>. QED
    BY <1>1, <1>2, <1>3, <1>4, <2>1 DEF Owned
<1>6. Fresh'
  <2>1. scan \notin memory
    BY <1>4
  <2>. QED
    BY <1>1, <2>1 DEF Order, Fresh
<1>7. ASSUME NEW p \in Positions, NEW n \in BarNumbers, InPlace(p, n)'
      PROVE  InPlace(p, n) /\ bar'[p][n] = bar[p][n]
  <2>1. ~(n < 0)
    BY DEF BarNumbers
  <2>2. p \in memory /\ Kind(p, n) \in MemKinds
    BY <1>1, <1>7, <2>1 DEF InPlace, Kind
  <2>. QED
    BY <1>1, <2>2 DEF InPlace
<1>. QED
  BY <1>1, <1>5, <1>6, <1>7, OrderStays DEF Order

\* In the body of the scan at most the BAR in hand is written, and the loop goes on
\* to the register behind it.
LEMMA BodyFrame ==
  ASSUME IInv, Order, InDevice, InDevice', i \in BarNumbers,
         UNCHANGED <<machine, memory, scan, ret, driver>>,
         \A p \in Positions, n \in BarNumbers : p # scan \/ n # i => bar'[p][n] = bar[p][n],
         \/ i' = i /\ Sizing'
         \/ i' = i + 1 /\ ~Sizing'
         \/ i' = i + 2 /\ ~Sizing' /\ i + 1 \in BarNumbers /\ Kind(scan, i + 1) = "none"
  PROVE  /\ Owned' /\ Fresh' /\ OnlyHand
         /\ i' = i => \A p \in Positions, n \in BarNumbers :
                        InPlace(p, n)' => InPlace(p, n) /\ bar'[p][n] = bar[p][n]
<1>1. pc # "call" /\ pc' # "call"
  BY DEF InDevice, Sizing
<1>2. Owned'
  BY <1>1, OwnedStays DEF Order
<1>3. i \in Nat /\ BarNumbers \subseteq Nat
  BY Counters DEF BarNumbers
<1>4. ASSUME NEW n \in BarNumbers
      PROVE  /\ (pc' = "bar" /\ i' <= n) \/ (Sizing' /\ i' < n) => i < n
             /\ n < i' /\ Kind(scan, n) \in MemKinds => n < i \/ (n = i /\ i' # i)
             /\ n < i \/ i < n => n # i
  <2>1. n \in Nat
    BY <1>3
  <2>2. CASE i' = i /\ Sizing'
    <3>1. pc' # "bar"
      BY <2>2 DEF Sizing
    <3>2. n < i \/ i < n => n # i
      BY <1>3, <2>1
    <3>. QED
      BY <2>2, <3>1, <3>2, Zenon
  <2>3. CASE i' = i + 1 /\ ~Sizing'
    <3>1. /\ i + 1 <= n => i < n
          /\ n < i + 1 => n < i \/ n = i
          /\ n < i \/ i < n => n # i
          /\ i + 1 # i
      BY <1>3, <2>1
    <3>. QED
      BY <2>3, <3>1, Zenon
  <2>4. CASE i' = i + 2 /\ ~Sizing' /\ i + 1 \in BarNumbers /\ Kind(scan, i + 1) = "none"
    <3>1. /\ i + 2 <= n => i < n
          /\ n < i + 2 => n < i \/ n = i \/ n = i + 1
          /\ n < i \/ i < n => n # i
          /\ i + 2 # i
      BY <1>3, <2>1
    <3>2. Kind(scan, n) \in MemKinds => n # i + 1
      BY <2>4 DEF MemKinds
    <3>. QED
      BY <2>4, <3>1, <3>2, Zenon
  <2>. QED
    BY <2>2, <2>3, <2>4
<1>5. scan \in memory /\ scan' = scan /\ memory' = memory /\ (pc = "bar" \/ Sizing)
  BY InDeviceIs DEF InDevice
<1>6. Fresh'
  <2>1. SUFFICES ASSUME NEW p \in Positions, NEW n \in BarNumbers,
                        \/ p \notin memory
                        \/ p = scan /\ ((pc' = "bar" /\ i' <= n) \/ (Sizing' /\ i' < n))
                 PROVE  bar'[p][n] = 0
    BY <1>5, Zenon DEF Fresh
  <2>2. p \notin memory \/ (p = scan /\ i < n)
    BY <1>4, <2>1, Zenon
  <2>3. bar'[p][n] = bar[p][n]
    BY <1>4, <1>5, <2>2, Zenon
  <2>4. i < n => i <= n
    BY <1>3
  <2>5. bar[p][n] = 0
    BY <1>5, <2>2, <2>4, Zenon DEF Order, Fresh
  <2>. QED
    BY <2>3, <2>5
<1>7. ASSUME NEW p \in Positions, NEW n \in BarNumbers, InPlace(p, n)'
      PROVE  \/ p = scan /\ n = i /\ i' # i
             \/ InPlace(p, n) /\ bar'[p][n] = bar[p][n]
  <2>1. p \in memory /\ Kind(p, n) \in MemKinds /\ (p = scan => n < i')
    BY <1>5, <1>7, Zenon DEF InPlace, Kind
  <2>2. p = scan => (n < i /\ n # i) \/ (n = i /\ i' # i)
    BY <1>4, <2>1, Zenon
  <2>. QED
    BY <2>1, <2>2, Zenon DEF InPlace
<1>. QED
  BY <1>2, <1>6, <1>7, Zenon DEF OnlyHand

\* A register is passed over.
LEMMA PassOrder ==
  ASSUME IInv, Order, pc \in {"bar", "place"}, pc' = "bar", i \in BarNumbers, i' = i + 1,
         Kind(scan, i) \notin MemKinds,
         UNCHANGED <<busVars, scan, ret, capVars>>
  PROVE  Order'
<1>1. InDevice /\ InDevice' /\ ~Sizing' /\ pc' # "place high"
  BY DEF InDevice, Sizing
<1>2. UNCHANGED <<machine, memory, bar, s_off, scan, ret, driver>>
  BY DEF busVars, capVars
<1>3. Owned' /\ Fresh' /\ OnlyHand
  BY <1>1, <1>2, BodyFrame
<1>4. ASSUME NEW p \in Positions, NEW n \in BarNumbers, InPlace(p, n)'
      PROVE  InPlace(p, n) /\ bar'[p][n] = bar[p][n]
  <2>1. Kind(p, n) \in MemKinds
    BY <1>2, <1>4 DEF InPlace, Kind
  <2>. QED
    BY <1>3, <1>4, <2>1 DEF OnlyHand
<1>. QED
  BY <1>1, <1>2, <1>3, <1>4, OrderStays DEF Order

\* All bits of the register in hand are written, or of half of it.
LEMMA SizeOrder ==
  ASSUME IInv, Order, SizeLow \/ SizeHigh, UNCHANGED capVars
  PROVE  Order'
<1> DEFINE z == Size(scan, i)
           low == Masked((bar[scan][i] \div Word) * Word + (Word - 1), z)
           high == Masked((Word - 1) * Word + (bar[scan][i] % Word), z)
<1>1. /\ InDevice /\ InDevice' /\ Sizing' /\ pc' # "place high"
      /\ i \in BarNumbers /\ i' = i
      /\ UNCHANGED <<machine, memory, s_off, scan, ret, driver>>
      /\ bar' = [bar EXCEPT ![scan][i] = low] \/ bar' = [bar EXCEPT ![scan][i] = high]
  <2>1. CASE SizeLow
    BY <2>1 DEF SizeLow, WriteLow, Store, InDevice, Sizing, capVars
  <2>2. CASE SizeHigh
    BY <2>2 DEF SizeHigh, At, WriteHigh, Store, InDevice, Sizing, capVars, IInv, Finding
  <2>. QED
    BY <2>1, <2>2
<1> HIDE DEF low, high
<1>2. \A p \in Positions, n \in BarNumbers : p # scan \/ n # i => bar'[p][n] = bar[p][n]
  <2>1. PICK x : bar' = [bar EXCEPT ![scan][i] = x]
    BY <1>1
  <2>. QED
    BY <2>1, Counters
<1>3. /\ Owned' /\ Fresh'
      /\ \A p \in Positions, n \in BarNumbers :
           InPlace(p, n)' => InPlace(p, n) /\ bar'[p][n] = bar[p][n]
  BY <1>1, <1>2, BodyFrame
<1>. QED
  BY <1>1, <1>3, OrderStays DEF Order

\* The lower half of an address is written: of a BAR of 32 bits this is all.
LEMMA PlaceLowOrder ==
  ASSUME IInv, Order, PlaceLow, UNCHANGED capVars
  PROVE  Order'
<1> DEFINE z == Size(scan, i)
           v == PCIE0_MMIO + s_off
           x == Masked((bar[scan][i] \div Word) * Word + v, z)
<1>1. /\ pc = "place" /\ Needed # 0
      /\ pc' = IF Is64 THEN "place high" ELSE "bar"
      /\ i' = IF Is64 THEN i ELSE i + 1
      /\ mem_addr' = v /\ s_off' = s_off + PAGE_ALIGN(Needed)
      /\ WriteLow(v % Word)
      /\ UNCHANGED <<machine, memory, pci_id, scan, ret, driver>>
  BY DEF PlaceLow, pci_alloc_mmio, capVars
<1>2. InDevice /\ InDevice' /\ Sizing
  BY <1>1 DEF InDevice, Sizing
<1>3. /\ Kind(scan, i) \in MemKinds /\ IsSize(z) /\ Needed = z
      /\ scan \in Positions /\ Present(scan) /\ i \in BarNumbers
  BY <1>1, <1>2, NeededSize, InDeviceIs DEF IInv, Finding
<1>4. s_off' \in Nat /\ s_off < WindowSize
  <2>1. s_off <= Share * (6 * (driver - 1) + i)
    BY <1>1 DEF IInv, Window, BarsPlaced
  <2>. QED
    BY <1>1, <1>2, <1>3, <2>1, RoomLeft
<1>5. v \in 0..Word - 1 /\ v \in Nat
  BY <1>4, Counters, AddressAssumption
<1>6. /\ s_off \in Nat /\ s_off <= s_off' /\ PCIE0_MMIO \in Nat /\ z \in Nat \ {0}
      /\ v + z <= PCIE0_MMIO + s_off'
  <2>1. z \in Nat \ {0}
    BY <1>3, AddressAssumption DEF IsSize
  <2>2. PAGE_ALIGN(z) \in Nat /\ z <= PAGE_ALIGN(z)
    BY <2>1, Rounded
  <2> HIDE DEF z
  <2>3. s_off \in Nat /\ PCIE0_MMIO \in Nat /\ s_off' = s_off + PAGE_ALIGN(z)
    BY <1>1, <1>3, Counters, AddressAssumption
  <2>. QED
    BY <2>1, <2>2, <2>3
<1>7. \A p \in Positions, n \in BarNumbers : InPlace(p, n) => End(p, n) <= v
  BY DEF Order, Stacked
<1> HIDE DEF v
<1>8. bar' = [bar EXCEPT ![scan][i] = x]
  <2>1. v % Word = v
    BY <1>5, LowHalf
  <2>. QED
    BY <1>1, <2>1 DEF WriteLow, Store
<1> HIDE DEF x
<1>9. /\ bar'[scan][i] = x
      /\ \A p \in Positions, n \in BarNumbers : p # scan \/ n # i => bar'[p][n] = bar[p][n]
  BY <1>3, <1>8, Counters
<1>10. /\ Owned' /\ Fresh' /\ OnlyHand
       /\ i' = i => \A p \in Positions, n \in BarNumbers :
                      InPlace(p, n)' => InPlace(p, n) /\ bar'[p][n] = bar[p][n]
  <2>1. (i' = i /\ Sizing') \/ (i' = i + 1 /\ ~Sizing')
    BY <1>1 DEF Sizing
  <2>. QED
    BY <1>1, <1>2, <1>3, <1>9, <2>1, BodyFrame
<1>11. CASE ~Is64
  <2>1. x = Masked(v, z)
    <3>1. bar[scan][i] = Word - z
      BY <1>1, <1>3, <1>11 DEF IInv, Registers, Is64, MemKinds
    <3>. QED
      BY <1>3, <1>5, <3>1, PlacedLow, Zenon DEF x
  <2>2. HandPlaced(v)
    <3>1. pc' # "place high"
      BY <1>1, <1>11
    <3>. QED
      BY <1>4, <1>6, <1>7, <1>9, <2>1, <3>1, Zenon DEF HandPlaced
  <2>3. Stacked' /\ Sorted'
    BY <1>1, <1>2, <1>3, <1>5, <1>10, <2>2, Placement
  <2>. QED
    BY <1>10, <2>3 DEF Order
<1>12. CASE Is64
  <2>1. /\ \A p, n : Size(p, n)' = Size(p, n)
        /\ \A p, n, q, m : Before(p, n, q, m)' = Before(p, n, q, m)
    BY <1>1, PlacesStay
  <2>2. ASSUME NEW p \in Positions, NEW n \in BarNumbers, InPlace(p, n)'
        PROVE  /\ InPlace(p, n) /\ bar'[p][n] = bar[p][n] /\ End(p, n)' = End(p, n)
               /\ \E k \in Nat : bar'[p][n] = Size(p, n)' * k
               /\ End(p, n)' <= v /\ End(p, n)' <= PCIE0_MMIO + s_off'
    <3>1. InPlace(p, n) /\ bar'[p][n] = bar[p][n]
      BY <1>1, <1>10, <1>12, <2>2
    <3>2. End(p, n)' = End(p, n)
      BY <2>1, <3>1 DEF End
    <3>3. \E k \in Nat : bar[p][n] = Size(p, n) * k
      BY <3>1 DEF Order, Stacked
    <3>4. End(p, n) <= v /\ End(p, n) \in Nat
      BY <1>7, <3>1, InPlaceIs
    <3>5. End(p, n) <= PCIE0_MMIO + s_off'
      <4>1. \A a, b, c, d, e \in Nat : a <= b /\ b + c <= d + e => a <= d + e
        OBVIOUS
      <4>2. z \in Nat /\ PCIE0_MMIO \in Nat /\ s_off' \in Nat
        BY <1>4, <1>6
      <4>. QED
        BY <1>5, <1>6, <3>4, <4>1, <4>2, Zenon
    <3>. QED
      BY <2>1, <3>1, <3>2, <3>3, <3>4, <3>5, Zenon
  <2>3. Stacked'
    <3>1. pc' = "place high" => mem_addr' + Size(scan, i)' <= PCIE0_MMIO + s_off'
      <4>1. Size(scan, i)' = z /\ mem_addr' = v
        BY <1>1, <1>12 DEF Size
      <4>. QED
        BY <1>6, <4>1, Zenon
    <3>2. mem_addr' = v
      BY <1>1
    <3>. QED
      BY <2>2, <3>1, <3>2, Zenon DEF Stacked
  <2>4. Sorted'
    <3>1. SUFFICES ASSUME NEW p \in Positions, NEW q \in Positions, NEW n \in BarNumbers,
                          NEW m \in BarNumbers,
                          InPlace(p, n)', InPlace(q, m)', Before(p, n, q, m)'
                   PROVE  /\ End(p, n)' <= End(q, m)'
                          /\ Size(p, n)' % Size(q, m)' = 0 => End(p, n)' <= bar'[q][m]
      BY DEF Sorted
    <3>2. InPlace(p, n) /\ InPlace(q, m) /\ Before(p, n, q, m)
      BY <2>1, <2>2, <3>1
    <3>3. End(p, n) <= End(q, m) /\ (Size(p, n) % Size(q, m) = 0 => End(p, n) <= bar[q][m])
      BY <3>2 DEF Order, Sorted
    <3>. QED
      BY <2>1, <2>2, <3>1, <3>3
  <2>. QED
    BY <1>10, <2>3, <2>4 DEF Order
<1>. QED
  BY <1>11, <1>12

\* The upper half of an address is written.
LEMMA PlaceHighOrder ==
  ASSUME IInv, Order, PlaceHigh, UNCHANGED capVars
  PROVE  Order'
<1> DEFINE z == Size(scan, i)
           v == mem_addr
           x == Masked((v \div Word) * Word + (bar[scan][i] % Word), z)
<1>1. /\ pc = "place high" /\ pc' = "bar" /\ i' = i + 2
      /\ bar' = [bar EXCEPT ![scan][i] = x]
      /\ UNCHANGED <<machine, memory, s_off, pci_id, scan, mem_addr, ret, driver>>
  BY DEF PlaceHigh, WriteHigh, Store, At, capVars
<1>2. InDevice /\ InDevice' /\ ~Sizing' /\ pc' # "place high"
  BY <1>1 DEF InDevice, Sizing
<1>3. /\ scan \in Positions /\ Present(scan) /\ machine \in Machines /\ i \in BarNumbers
      /\ Kind(scan, i) = "mem64" /\ v \in PCIE0_MMIO..PCIE0_MMIO + WindowSize - 1
      /\ bar[scan][i] = (Word - 1) * Word + Masked(v, z)
  BY <1>1, <1>2, InDeviceIs, Counters DEF IInv, Finding, Registers, Is64, Sizing
<1>4. IsSize(z) /\ i + 1 \in BarNumbers /\ Kind(scan, i + 1) = "none" /\ Kind(scan, i) \in MemKinds
  BY <1>3, Bars DEF MemKinds
<1>5. v \in 0..Word - 1 /\ v \in Nat
  BY Counters
<1>6. x = Masked(v, z)
  BY <1>3, <1>4, <1>5, PlacedHigh, Zenon
<1>7. s_off \in Nat /\ s_off <= s_off /\ v + z <= PCIE0_MMIO + s_off
  <2>1. v + z <= PCIE0_MMIO + s_off
    BY <1>1 DEF Order, Stacked
  <2>2. s_off \in Nat
    BY Counters
  <2>3. s_off <= s_off
    BY <2>2
  <2>. QED
    BY <2>1, <2>2, <2>3
<1>8. \A p \in Positions, n \in BarNumbers : InPlace(p, n) => End(p, n) <= v
  BY <1>1 DEF Order, Stacked
<1> HIDE DEF x
<1>9. /\ bar'[scan][i] = x
      /\ \A p \in Positions, n \in BarNumbers : p # scan \/ n # i => bar'[p][n] = bar[p][n]
  BY <1>1, <1>3, Counters
<1>10. Owned' /\ Fresh' /\ OnlyHand
  BY <1>1, <1>2, <1>3, <1>4, <1>9, BodyFrame
<1>11. HandPlaced(v)
  BY <1>1, <1>2, <1>6, <1>7, <1>8, <1>9, Zenon DEF HandPlaced
<1>12. Stacked' /\ Sorted'
  BY <1>1, <1>2, <1>3, <1>4, <1>5, <1>10, <1>11, Placement
<1>. QED
  BY <1>10, <1>12 DEF Order

\* The order of the BARs is kept by every step.
LEMMA OrderKeeps == IInv /\ Order /\ [Next]_vars => Order'
<1> SUFFICES ASSUME IInv, Order, [Next]_vars PROVE Order'
  OBVIOUS
<1>1. ASSUME ProbeStep, UNCHANGED capVars PROVE Order'
  <2>1. CASE Skip \/ EndScan
    <3>1. /\ pc = "scan" /\ pc' # "call" /\ ~InDevice /\ ~InDevice' /\ UNCHANGED busVars
          /\ UNCHANGED <<machine, memory, driver, ret>>
      BY <1>1, <2>1 DEF Skip, EndScan, At, InDevice, Sizing, capVars, busVars
    <3>2. Owned'
      BY <3>1, OwnedStays DEF Order
    <3>. QED
      BY <3>1, <3>2, OutsideKeeps
  <2>2. CASE Found
    BY <1>1, <2>2, FoundOrder
  <2>3. CASE SkipIo
    <3>1. Kind(scan, i) \notin MemKinds
      BY <2>3 DEF SkipIo, MemKinds
    <3>. QED
      BY <1>1, <2>3, <3>1, PassOrder DEF SkipIo, At
  <2>4. CASE NoSuchBar
    <3>1. pc = "place" /\ pc' = "bar" /\ Needed = 0 /\ i \in BarNumbers
      BY <2>4 DEF NoSuchBar, At, IInv, Finding, Sizing
    <3>2. Kind(scan, i) \notin MemKinds
      BY <3>1, NeededSize DEF IsSize
    <3>3. i' = i + 1
      BY <2>4, <3>2 DEF NoSuchBar, Is64, MemKinds
    <3>. QED
      BY <1>1, <2>4, <3>1, <3>2, <3>3, PassOrder DEF NoSuchBar
  <2>5. CASE SizeLow \/ SizeHigh
    BY <1>1, <2>5, SizeOrder
  <2>6. CASE PlaceLow
    BY <1>1, <2>6, PlaceLowOrder
  <2>7. CASE PlaceHigh
    BY <1>1, <2>7, PlaceHighOrder
  <2>8. CASE EndBars
    <3>1. /\ pc = "bar" /\ pc' = "scan" /\ InDevice /\ ~InDevice' /\ ~Sizing'
          /\ pc' # "place high" /\ i \notin BarNumbers
          /\ UNCHANGED <<machine, memory, bar, s_off, driver, ret>>
      BY <1>1, <2>8 DEF EndBars, At, InDevice, Sizing, capVars, busVars
    <3>2. Owned'
      BY <3>1, OwnedStays DEF Order
    <3>3. Fresh'
      BY <3>1 DEF Order, Fresh
    <3>4. \A n \in BarNumbers : n < i
      BY <3>1, Counters DEF BarNumbers
    <3>5. \A p \in Positions, n \in BarNumbers :
            InPlace(p, n)' => InPlace(p, n) /\ bar'[p][n] = bar[p][n]
      BY <3>1, <3>4 DEF InPlace, Kind
    <3>. QED
      BY <3>1, <3>2, <3>3, <3>5, OrderStays DEF Order
  <2>. QED
    BY <1>1, <2>1, <2>2, <2>3, <2>4, <2>5, <2>6, <2>7, <2>8 DEF ProbeStep
<1>2. CASE Probe
  <2>1. /\ pc = "call" /\ pc' = "scan" /\ ~InDevice /\ ~InDevice' /\ UNCHANGED busVars
        /\ UNCHANGED <<machine, memory, driver>>
    BY <1>2 DEF Probe, At, CallProbe, InDevice, Sizing, capVars, busVars
  <2>2. Owned'
    <3>1. \A id : Here(id)' = Here(id)
      BY <2>1, PlacesStay
    <3>. QED
      BY <2>1, <3>1 DEF Order, Owned
  <2>. QED
    BY <2>1, <2>2, OutsideKeeps
<1>3. CASE NotFound \/ StartWalk \/ ReadCap
  <2>1. /\ pc # "call" /\ pc' # "call" /\ ~InDevice /\ ~InDevice' /\ UNCHANGED busVars
        /\ UNCHANGED <<machine, memory, driver, ret>>
    BY <1>3 DEF NotFound, StartWalk, ReadCap, At, InDevice, Sizing, capVars, busVars
  <2>2. Owned'
    BY <2>1, OwnedStays DEF Order
  <2>. QED
    BY <2>1, <2>2, OutsideKeeps
<1>4. CASE EndWalk
  <2>1. /\ pc = "walk" /\ ~InDevice /\ ~InDevice' /\ UNCHANGED busVars
        /\ UNCHANGED <<machine, memory, ret>>
        /\ \/ driver' = driver + 1
           \/ driver' = driver /\ pc' # "call"
    BY <1>4 DEF EndWalk, At, InDevice, Sizing, busVars
  <2>2. Owned'
    <3>1. \A id : Here(id)' = Here(id)
      BY <2>1, PlacesStay
    <3>2. \A n \in 1..Len(Drivers) : n < driver \/ n = driver => n < driver + 1
      BY Counters, DriverAssumption
    <3>. QED
      BY <2>1, <3>1, <3>2, Zenon DEF Order, Owned
  <2>. QED
    BY <2>1, <2>2, OutsideKeeps
<1>5. CASE UNCHANGED vars
  <2>1. /\ \A p, n : Kind(p, n)' = Kind(p, n) /\ Size(p, n)' = Size(p, n)
        /\ \A id : Here(id)' = Here(id)
        /\ \A p, n, q, m : Before(p, n, q, m)' = Before(p, n, q, m)
    BY <1>5, PlacesStay DEF vars, busVars
  <2>2. UNCHANGED <<machine, memory, bar, s_off, pc, scan, i, mem_addr, ret, driver>>
    BY <1>5 DEF vars, busVars, probeVars, capVars
  <2>3. \A p, n : InPlace(p, n)' = InPlace(p, n) /\ End(p, n)' = End(p, n)
    BY <2>1, <2>2 DEF InPlace, InDevice, Sizing, End
  <2>4. Owned' /\ Fresh'
    BY <2>1, <2>2 DEF Order, Owned, Fresh, Sizing
  <2>5. Stacked'
    <3>1. Size(scan, i)' = Size(scan, i)
      BY <2>2 DEF Size
    <3>. QED
      BY <2>1, <2>2, <2>3, <3>1 DEF Order, Stacked
  <2>6. Sorted'
    BY <2>1, <2>2, <2>3 DEF Order, Sorted
  <2>. QED
    BY <2>4, <2>5, <2>6 DEF Order
<1>. QED
  BY <1>1, <1>2, <1>3, <1>4, <1>5 DEF Next

\* Nothing decodes memory in the beginning.
LEMMA OrderInit == Init => Order
<1> SUFFICES ASSUME Init PROVE Order
  OBVIOUS
<1>1. /\ memory = {} /\ pc = "call"
      /\ bar = [p \in Positions |-> [n \in BarNumbers |-> 0]]
  BY DEF Init, ProbeInit
<1>2. Owned /\ Fresh
  BY <1>1 DEF Owned, Fresh
<1>3. \A p, n : ~InPlace(p, n)
  BY <1>1 DEF InPlace
<1>4. Stacked /\ Sorted
  BY <1>1, <1>3 DEF Stacked, Sorted
<1>. QED
  BY <1>2, <1>4 DEF Order

\* The order is an invariant too.
THEOREM OrderInvariant == Spec => [](IInv /\ Order)
  BY InitHolds, NextKeeps, OrderInit, OrderKeeps, PTL DEF Spec

\* What lies in the window is in its place: a register that is being sized, or has
\* not been written yet, lies outside.
LEMMA VisibleIsPlaced ==
  ASSUME SizesFit, IInv, Order, NEW p \in Positions, NEW n \in BarNumbers, Visible(p, n)
  PROVE  InPlace(p, n)
<1>1. p \in memory /\ Kind(p, n) \in MemKinds /\ Present(p) /\ machine \in Machines
  BY Counters DEF Visible, IsMemory, MemKinds
<1> DEFINE z == Size(p, n)
<1>2. IsSize(z) /\ z \in Nat \ {0} /\ z < Word /\ Word \in Nat
  <2>1. IsSize(z)
    BY <1>1, Bars
  <2>. QED
    BY <2>1, AddressAssumption DEF IsSize
<1>3. z <= PCIE0_MMIO /\ PCIE0_MMIO + WindowSize + z <= Word
  <2>1. PICK k \in 1..Len(Drivers) : p \in Here(Drivers[k])
    BY <1>1 DEF Order, Owned
  <2>2. machine[p] # NONE /\ machine[p].id = Drivers[k] /\ k <= k
    BY <2>1, DriverAssumption DEF Here, Present
  <2>. QED
    BY <1>1, <2>2 DEF SizesFit, Kind, Size, MemKinds
<1>4. /\ bar[p][n] \in Nat /\ bar[p][n] < PCIE0_MMIO + WindowSize
      /\ bar[p][n] + z - 1 >= PCIE0_MMIO
  BY Counters DEF Visible, First, Last
<1>5. PCIE0_MMIO \in Nat /\ WindowSize \in Nat
  BY AddressAssumption
<1>6. bar[p][n] # 0 /\ ~(Word - z <= bar[p][n])
  <2> HIDE DEF z
  <2>. QED
    BY <1>2, <1>3, <1>4, <1>5
<1>7. SUFFICES ASSUME InDevice, p = scan, ~(n < i) PROVE FALSE
  BY <1>1 DEF InPlace
<1>8. i \in Nat /\ n \in Nat
  BY Counters DEF BarNumbers
<1>9. Sizing /\ n = i
  <2>1. i <= n /\ (i < n \/ n = i)
    BY <1>7, <1>8
  <2>. QED
    BY <1>6, <1>7, <2>1 DEF Order, Fresh, InDevice
<1>10. bar[p][n] = Word - z \/ (\E a \in Nat : bar[p][n] = (Word - 1) * Word + a)
  <2>1. CASE pc = "size high" \/ (pc = "place" /\ Kind(scan, i) = "mem32")
    BY <1>7, <1>9, <2>1 DEF IInv, Registers
  <2>2. CASE pc = "place" /\ Kind(scan, i) = "mem64"
    <3>1. bar[p][n] = Word * Word - z
      BY <1>7, <1>9, <2>2 DEF IInv, Registers, Is64
    <3>2. Word * Word - z = (Word - 1) * Word + (Word - z)
      BY <1>2, SizedHigh, Zenon
    <3>3. Word - z \in Nat
      BY <1>2
    <3>. QED
      BY <3>1, <3>2, <3>3
  <2>3. CASE pc = "place high"
    <3>1. bar[p][n] = (Word - 1) * Word + Masked(mem_addr, z)
      BY <1>7, <1>9, <2>3 DEF IInv, Registers
    <3>2. mem_addr \in Nat
      BY Counters, AddressAssumption
    <3>3. Masked(mem_addr, z) \in Nat
      BY <1>2, <3>2, MaskedBounds
    <3>. QED
      BY <3>1, <3>3
  <2>. QED
    BY <1>1, <1>7, <1>9, <2>1, <2>2, <2>3 DEF Sizing, MemKinds
<1>11. ASSUME NEW a \in Nat, bar[p][n] = (Word - 1) * Word + a
       PROVE  Word - z <= bar[p][n]
  <2> DEFINE w == (Word - 1) * Word
  <2>1. w \in Nat /\ Word <= w
    <3>1. Word >= 2
      BY <1>2
    <3>. QED
      BY <1>2, <3>1, SMTT(30)
  <2> HIDE DEF z, w
  <2>2. bar[p][n] = w + a
    BY <1>11 DEF w
  <2>. QED
    BY <1>2, <2>1, <2>2
<1>12. Word - z <= Word - z
  <2> HIDE DEF z
  <2>. QED
    BY <1>2
<1>. QED
  BY <1>6, <1>10, <1>11, <1>12

\* Two devices in the order of their drivers.
LEMMA Disjoint ==
  ASSUME SizesFit, IInv, Order,
         NEW p \in Positions, NEW n \in BarNumbers, NEW q \in Positions, NEW m \in BarNumbers,
         NEW j \in 1..Len(Drivers), NEW k \in 1..Len(Drivers), j < k,
         p \in Here(Drivers[j]), q \in Here(Drivers[k]),
         InPlace(p, n), InPlace(q, m)
  PROVE  bar[p][n] + Size(p, n) <= bar[q][m]
<1>1. machine \in Machines /\ driver \in 1..Len(Drivers) /\ j # k
  BY Counters, DriverAssumption
<1>2. InDevice => p # scan
  <2>1. SUFFICES ASSUME InDevice, p = scan PROVE FALSE
    OBVIOUS
  <2>2. ~Before(p, i, q, m) \/ i \notin BarNumbers
    BY <2>1, HandIsLast
  <2>3. j = driver
    <3>1. scan \in Here(Drivers[driver])
      BY <2>1, InDeviceIs
    <3>. QED
      BY <1>1, <2>1, <3>1, NotShared
  <2>4. PICK d \in 1..Len(Drivers) : q \in Here(Drivers[d]) /\ d <= driver
    BY Counters, DriverAssumption DEF Order, Owned, InPlace
  <2>5. d = k
    BY <1>1, <2>4, NotShared
  <2>. QED
    BY <2>3, <2>4, <2>5, DriverAssumption
<1>3. PICK z \in BarNumbers :
        n <= z /\ Kind(p, z) \in MemKinds /\ Size(p, z) % Size(q, m) = 0
  <2>1. /\ machine[p] # NONE /\ machine[p].id = Drivers[j]
        /\ machine[q] # NONE /\ machine[q].id = Drivers[k] /\ j <= k
    BY DriverAssumption DEF Here, Present
  <2>. QED
    BY <1>1, <2>1 DEF SizesFit, InPlace, Kind, Size, MemKinds
<1>4. InPlace(p, z)
  BY <1>2, <1>3 DEF InPlace
<1>5. Before(p, z, q, m)
  BY DEF Before
<1>6. End(p, z) <= bar[q][m]
  BY <1>3, <1>4, <1>5 DEF Order, Sorted
<1>7. End(p, n) <= End(p, z)
  <2>1. n = z \/ n < z
    BY <1>3 DEF BarNumbers
  <2>2. CASE n < z
    BY <1>4, <2>2 DEF Order, Sorted, Before
  <2>3. CASE n = z
    <3>1. End(p, z) \in Nat
      BY <1>4, InPlaceIs
    <3>. QED
      BY <2>3, <3>1
  <2>. QED
    BY <2>1, <2>2, <2>3
<1>8. End(p, n) \in Nat /\ End(p, z) \in Nat /\ bar[q][m] \in Nat
  BY <1>4, InPlaceIs
<1>9. End(p, n) <= bar[q][m]
  BY <1>6, <1>7, <1>8
<1>. QED
  BY <1>9 DEF End

\* Two devices in any order.
LEMMA Apart ==
  ASSUME SizesFit, IInv, Order,
         NEW p \in Positions, NEW n \in BarNumbers, NEW q \in Positions, NEW m \in BarNumbers,
         p # q, Overlap(p, n, q, m)
  PROVE  FALSE
<1>1. InPlace(p, n) /\ InPlace(q, m)
  BY VisibleIsPlaced DEF Overlap
<1>2. /\ bar[p][n] <= bar[q][m] + Size(q, m) - 1
      /\ bar[q][m] <= bar[p][n] + Size(p, n) - 1
  BY DEF Overlap, First, Last
<1>3. PICK j \in 1..Len(Drivers) : p \in Here(Drivers[j])
  BY <1>1 DEF Order, Owned, InPlace
<1>4. PICK k \in 1..Len(Drivers) : q \in Here(Drivers[k])
  BY <1>1 DEF Order, Owned, InPlace
<1>5. j # k
  BY <1>3, <1>4, Counters, Devices
<1>6. j < k \/ k < j
  BY <1>5, DriverAssumption
<1>7. /\ bar[p][n] \in Nat /\ bar[q][m] \in Nat
      /\ Size(p, n) \in Nat /\ Size(q, m) \in Nat
  BY <1>1, InPlaceIs
<1>8. bar[p][n] + Size(p, n) <= bar[q][m] \/ bar[q][m] + Size(q, m) <= bar[p][n]
  BY <1>1, <1>3, <1>4, <1>6, Disjoint
<1>. QED
  BY <1>2, <1>7, <1>8

\* Two BARs of one device.
LEMMA ApartWithin ==
  ASSUME SizesFit, SizesDescend, IInv, Order,
         NEW p \in Positions, NEW n \in BarNumbers, NEW m \in BarNumbers, n < m,
         Overlap(p, n, p, m) \/ Overlap(p, m, p, n)
  PROVE  FALSE
<1>1. InPlace(p, n) /\ InPlace(p, m)
  BY VisibleIsPlaced DEF Overlap
<1>2. bar[p][m] <= bar[p][n] + Size(p, n) - 1
  BY DEF Overlap, First, Last
<1>3. Size(p, n) % Size(p, m) = 0
  <2>1. machine \in Machines /\ machine[p] # NONE
    BY <1>1, Counters, InPlaceIs DEF Present
  <2>2. PICK j \in 1..Len(Drivers) : p \in Here(Drivers[j])
    BY <1>1 DEF Order, Owned, InPlace
  <2>. QED
    BY <1>1, <2>1, <2>2 DEF SizesDescend, InPlace, Kind, Size, Here, MemKinds
<1>4. End(p, n) <= bar[p][m]
  BY <1>1, <1>3 DEF Order, Sorted, Before
<1>5. bar[p][n] \in Nat /\ bar[p][m] \in Nat /\ Size(p, n) \in Nat
  BY <1>1, InPlaceIs
<1>6. bar[p][n] + Size(p, n) <= bar[p][m]
  BY <1>4 DEF End
<1>. QED
  BY <1>2, <1>5, <1>6

\* pci_alloc_mmio keeps the devices apart from each other at every step of the
\* probes, if the sizes of their BARs come in an order that fits: it rounds the
\* offset to a page, not to the size it hands out.
THEOREM DisjointCorrect == SizesFit => (Spec => []DevicesDisjoint)
<1> SUFFICES ASSUME SizesFit PROVE Spec => []DevicesDisjoint
  OBVIOUS
<1>1. IInv /\ Order => DevicesDisjoint
  BY Apart DEF DevicesDisjoint
<1>. QED
  BY <1>1, OrderInvariant, PTL

\* It keeps all BARs apart, those of one device too, only if within a device too
\* none is larger than one before it: then "Alloc MMIO space" holds as it reads.
THEOREM AllDisjointCorrect == SizesFit /\ SizesDescend => (Spec => []BarsDisjoint)
<1> SUFFICES ASSUME SizesFit, SizesDescend PROVE Spec => []BarsDisjoint
  OBVIOUS
<1>1. IInv /\ Order => BarsDisjoint
  <2>1. SUFFICES ASSUME IInv, Order, NEW p \in Positions, NEW q \in Positions,
                        NEW n \in BarNumbers, NEW m \in BarNumbers,
                        <<p, n>> # <<q, m>>, Overlap(p, n, q, m)
                 PROVE  FALSE
    BY DEF BarsDisjoint
  <2>2. p = q
    BY <2>1, Apart
  <2>3. n < m \/ m < n
    BY <2>1, <2>2 DEF BarNumbers
  <2>. QED
    BY <2>1, <2>2, <2>3, ApartWithin
<1>. QED
  BY <1>1, OrderInvariant, PTL
=============================================================================
