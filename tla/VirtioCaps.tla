----------------------------- MODULE VirtioCaps -----------------------------
(***************************************************************************)
(* Where the two drivers find their devices: pci_device_probe for the rng  *)
(* and then for the disk, each followed by virtio_pci_read_caps, which     *)
(* turns the vendor capabilities of the device into the addresses of its   *)
(* four configuration areas.  The drivers keep these addresses for good.   *)
(***************************************************************************)
EXTENDS PciProbe, Sequences, FiniteSets

CONSTANT
  Drivers   \* the ids the drivers probe for, in the order of their tests

ASSUME DriverAssumption ==
  /\ Len(Drivers) \in Nat \ {0} /\ DOMAIN Drivers = 1..Len(Drivers)
  /\ \A n, k \in 1..Len(Drivers) : n # k => Drivers[n] # Drivers[k]

VARIABLES
  driver,   \* whose initialisation is running
  cap,      \* its position in the list of capabilities
  hw        \* driver -> area -> address, NONE for NULL

capVars == <<driver, cap, hw>>
vars == <<busVars, probeVars, capVars>>

\* The areas a driver looks for; a capability may also name another one.
Areas == {"common", "notify", "device", "isr"}

Caps(p) == machine[p].caps

\* A device that fits its driver: the window has room for its BARs, and the last
\* capability of each area lies inside a memory BAR that a 64-bit read can read.
Fits(f) ==
  /\ \A n \in BarNumbers :
       f.bars[n].kind \in {"mem32", "mem64"} =>
         6 * Len(Drivers) * PAGE_ALIGN(f.bars[n].size) <= WindowSize
  /\ Len(f.caps) \in Nat /\ DOMAIN f.caps = 1..Len(f.caps)
  /\ \A k \in 1..Len(f.caps) :
       LET c == f.caps[k]
       IN  c.vndr /\ c.area \in Areas =>
             /\ c.bar \in BarNumbers /\ c.offset \in Nat
             /\ \/ \E j \in k + 1..Len(f.caps) : f.caps[j].vndr /\ f.caps[j].area = c.area
                \/ /\ c.offset < f.bars[c.bar].size
                   /\ \/ f.bars[c.bar].kind = "mem64"
                      \/ /\ f.bars[c.bar].kind = "mem32"
                         /\ c.bar < 5 => f.bars[c.bar + 1].kind = "none"

\* The host bridge is at position 0, and there is at most one device for a driver.
ASSUME DeviceAssumption ==
  \A m \in Machines : \A n \in 1..Len(Drivers) :
    LET devices == {p \in Positions : m[p] # NONE /\ m[p].id = Drivers[n]}
    IN  /\ 0 \notin devices
        /\ \A p, q \in devices : p = q
        /\ \A p \in devices : Fits(m[p])

\* What one 64-bit read at BAR n returns, the flag bits masked.  Above a
\* 32-bit BAR it finds the next one.
ReadBar64(p, n) ==
  IF Kind(p, n) = "mem64" \/ n = 5 THEN bar[p][n] ELSE bar[p][n + 1] * Word + bar[p][n]

get_cfg_addr(p, c) == ReadBar64(p, c.bar) + c.offset

Probe ==
  /\ At("call", "scan")
  /\ CallProbe(Drivers[driver])
  /\ UNCHANGED capVars

\* Without the rng its test stores through the null descriptor table, without
\* the disk its test returns: nothing on the bus is set up any more.
NotFound ==
  /\ At("probed", "end")
  /\ ret = 0
  /\ UNCHANGED <<busVars, pci_id, scan, i, mem_addr, ret, capVars>>

StartWalk ==
  /\ At("probed", "walk")
  /\ ret # 0
  /\ cap' = 1
  /\ UNCHANGED <<busVars, pci_id, scan, i, mem_addr, ret, driver, hw>>

\* Mutant: the first capability of a type is kept.
ReadCap_first ==
  LET c == Caps(ret)[cap]
  IN  /\ At("walk", "walk")
      /\ cap <= Len(Caps(ret))
      /\ hw' = IF c.vndr /\ c.area \in Areas /\ hw[driver][c.area] = NONE
                 THEN [hw EXCEPT ![driver][c.area] = get_cfg_addr(ret, c)]
                 ELSE hw
      /\ cap' = cap + 1
      /\ UNCHANGED <<busVars, pci_id, scan, i, mem_addr, ret, driver>>

\* Mutant: the walk does not go on behind a capability it skips.
ReadCap_stuck ==
  LET c == Caps(ret)[cap]
  IN  /\ At("walk", "walk")
      /\ cap <= Len(Caps(ret))
      /\ hw' = IF c.vndr /\ c.area \in Areas
                 THEN [hw EXCEPT ![driver][c.area] = get_cfg_addr(ret, c)]
                 ELSE hw
      /\ cap' = IF c.vndr THEN cap + 1 ELSE cap
      /\ UNCHANGED <<busVars, pci_id, scan, i, mem_addr, ret, driver>>

\* One round of the loop: the last capability of a type is kept.
ReadCap ==
  LET c == Caps(ret)[cap]
  IN  /\ At("walk", "walk")
      /\ cap <= Len(Caps(ret))
      /\ hw' = IF c.vndr /\ c.area \in Areas
                 THEN [hw EXCEPT ![driver][c.area] = get_cfg_addr(ret, c)]
                 ELSE hw
      /\ cap' = cap + 1
      /\ UNCHANGED <<busVars, pci_id, scan, i, mem_addr, ret, driver>>

\* The result is not looked at: the driver goes on with what it has.
EndWalk ==
  /\ cap > Len(Caps(ret))
  /\ At("walk", IF driver < Len(Drivers) THEN "call" ELSE "end")
  /\ driver' = IF driver < Len(Drivers) THEN driver + 1 ELSE driver
  /\ UNCHANGED <<busVars, pci_id, scan, i, mem_addr, ret, cap, hw>>

Init ==
  /\ ProbeInit
  /\ pc = "call"
  /\ pci_id = Drivers[1]
  /\ driver = 1 /\ cap = 1
  /\ hw = [n \in 1..Len(Drivers) |-> [a \in Areas |-> NONE]]

Next ==
  \/ ProbeStep /\ UNCHANGED capVars
  \/ Probe \/ NotFound \/ StartWalk \/ ReadCap \/ EndWalk

Spec == Init /\ [][Next]_vars /\ WF_vars(Next)

-----------------------------------------------------------------------------
(***************************************************************************)
(* Properties.                                                             *)
(***************************************************************************)

\* Types; the window is never exhausted.
TypeOK ==
  /\ ProbeTypeOK
  /\ pc \in {"call", "scan", "bar", "size high", "place", "place high", "probed", "walk", "end"}
  /\ driver \in 1..Len(Drivers)
  /\ cap \in Nat
  /\ \A n \in 1..Len(Drivers), a \in Areas : hw[n][a] \in Nat \cup {NONE}

\* The addresses a memory BAR answers at, as first and last.
IsMemory(p, n) == Present(p) /\ p \in memory /\ Kind(p, n) \in {"mem32", "mem64"}
First(p, n) == bar[p][n]
Last(p, n)  == bar[p][n] + Size(p, n) - 1

\* Only what lies in the window of the host bridge can be seen by the hart.
Visible(p, n) ==
  /\ IsMemory(p, n)
  /\ First(p, n) < PCIE0_MMIO + WindowSize /\ Last(p, n) >= PCIE0_MMIO

Overlap(p, n, q, m) ==
  /\ Visible(p, n) /\ Visible(q, m)
  /\ First(p, n) <= Last(q, m) /\ First(q, m) <= Last(p, n)

\* No two devices answer at the same address, not even while the BARs of one
\* are being sized and the other is at work.
DevicesDisjoint ==
  \A p, q \in Positions : p # q =>
    \A n, m \in BarNumbers : ~Overlap(p, n, q, m)

Configured(n) == n < driver \/ pc = "end"

HomeBars(n, addr) ==
  {pm \in Positions \X BarNumbers :
     /\ Present(pm[1]) /\ machine[pm[1]].id = Drivers[n]
     /\ Visible(pm[1], pm[2])
     /\ addr \in First(pm[1], pm[2])..Last(pm[1], pm[2])}

\* Every address a driver has kept is one its own device answers at, at the
\* offset a capability gives for that area in that BAR: also later, while
\* another device is probed.
AreasReachable ==
  \A n \in 1..Len(Drivers) : Configured(n) =>
    \A a \in Areas : hw[n][a] # NONE =>
      \E pm \in HomeBars(n, hw[n][a]) :
        \E k \in DOMAIN Caps(pm[1]) :
          LET c == Caps(pm[1])[k]
          IN  c.vndr /\ c.area = a /\ c.bar = pm[2] /\ hw[n][a] = First(pm[1], pm[2]) + c.offset

\* A device on a bus that is scanned is found.
Here(id) == {p \in Scanned : Present(p) /\ machine[p].id = id}

ProbeFinds ==
  /\ TypeOK
  /\ pc = "probed" => (ret # 0 <=> Here(pci_id) # {}) /\ (ret # 0 => ret \in Here(pci_id))

\* "Alloc MMIO space for device": the BARs of a machine that is set up do not
\* share addresses.
BarsDisjoint ==
  pc = "end" =>
    \A p, q \in Positions, n, m \in BarNumbers :
      <<p, n>> # <<q, m>> => ~Overlap(p, n, q, m)

\* What the allocation relies on: the sizes the probes come to are smaller than what
\* lies below the window and what lies above it, and of an earlier device each BAR,
\* or one behind it, is a multiple of every BAR of a later device.
SizesFit ==
  \A m \in Machines, p, q \in Positions, j, k \in 1..Len(Drivers), x, y \in BarNumbers :
    /\ j <= k
    /\ m[p] # NONE /\ m[p].id = Drivers[j] /\ m[p].bars[x].kind \in {"mem32", "mem64"}
    /\ m[q] # NONE /\ m[q].id = Drivers[k] /\ m[q].bars[y].kind \in {"mem32", "mem64"}
    => /\ m[p].bars[x].size <= PCIE0_MMIO
       /\ PCIE0_MMIO + WindowSize + m[p].bars[x].size <= Word
       /\ j < k => \E z \in BarNumbers :
                     /\ x <= z /\ m[p].bars[z].kind \in {"mem32", "mem64"}
                     /\ m[p].bars[z].size % m[q].bars[y].size = 0

\* Within a device no BAR is larger than one before it; the disk of the Makefile,
\* with its MSI-X table in front of its areas, is not like that.
SizesDescend ==
  \A m \in Machines, p \in Positions, n \in 1..Len(Drivers), x, y \in BarNumbers :
    /\ m[p] # NONE /\ m[p].id = Drivers[n] /\ x < y
    /\ m[p].bars[x].kind \in {"mem32", "mem64"} /\ m[p].bars[y].kind \in {"mem32", "mem64"}
    => m[p].bars[x].size % m[p].bars[y].size = 0

\* The loops of the probes and of the walks come to an end.
SetupEnds == <>(pc = "end")
=============================================================================
