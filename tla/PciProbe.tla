------------------------------ MODULE PciProbe ------------------------------
(***************************************************************************)
(* pci_device_probe and pci_alloc_mmio (driver/pcie/pci.c): the scan of    *)
(* the bus for one device, and the sizing and placing of its BARs, one     *)
(* register write at a time.  The writes matter one by one because the     *)
(* device decodes memory from the start of it: whatever a BAR holds on the *)
(* way is an address it answers at.                                        *)
(***************************************************************************)
EXTENDS Integers

CONSTANTS
  Machines,   \* the buses to look at: position -> function, or NONE
  BusCount,   \* 256
  DevCount,   \* 32 devices to a bus
  Word,       \* 2^32: what one BAR register can hold, and one more
  PAGE,       \* the allocation unit
  PCIE0_MMIO, \* the window of the host bridge: its start
  WindowSize, \* and its length
  NONE

ASSUME BusAssumption == BusCount \in Nat \ {0, 1} /\ DevCount \in Nat \ {0}
ASSUME AddressAssumption ==
  /\ Word \in Nat \ {0} /\ PAGE \in Nat \ {0} /\ PCIE0_MMIO \in Nat /\ WindowSize \in Nat
  /\ PCIE0_MMIO + WindowSize <= Word

VARIABLES
  machine,   \* what is on the bus
  memory,    \* command register: the positions that decode memory
  bar,       \* the BARs: position -> number -> address
  s_off,     \* pci_alloc_mmio: next free offset in the window
  pc,        \* control point of the probe
  pci_id,    \* the device looked for
  scan,      \* (bus, dev): the position looked at
  i,         \* the BAR looked at
  mem_addr,  \* the address allocated for it
  ret        \* where the device was found, 0 if nowhere

busVars   == <<machine, memory, bar, s_off>>
probeVars == <<pc, pci_id, scan, i, mem_addr, ret>>

Positions == 0..BusCount * DevCount - 1
BarNumbers == 0..5

\* The loops run over bus < 255.
Scanned == 0..(BusCount - 1) * DevCount - 1

Present(p) == machine[p] # NONE

\* Kind ("io", "mem32", "mem64", or "none" for a register that is not there)
\* and size of a BAR.  The upper half of a 64-bit BAR is "none".
Kind(p, n) == machine[p].bars[n].kind
Size(p, n) == machine[p].bars[n].size

\* BARs as PCI has them: the size of a memory BAR is a power of two, and behind a
\* 64-bit BAR there is its upper half.
ASSUME BarAssumption ==
  \A m \in Machines : \A p \in Positions : m[p] # NONE =>
    \A n \in BarNumbers :
      LET b == m[p].bars[n]
      IN  /\ b.kind \in {"io", "mem32", "mem64", "none"}
          /\ b.kind = "none" => b.size = 0
          /\ b.kind \in {"mem32", "mem64"} => b.size \in 1..Word - 1 /\ Word % b.size = 0
          /\ b.kind = "mem64" => n < 5 /\ m[p].bars[n + 1].kind = "none"

-----------------------------------------------------------------------------
(***************************************************************************)
(* BAR registers.  Bits below the size of the BAR read as 0.               *)
(***************************************************************************)

Masked(v, size) == IF size = 0 THEN 0 ELSE (v \div size) * size

Store(v) == bar' = [bar EXCEPT ![scan][i] = Masked(v, Size(scan, i))]

WriteLow(v)  == Store((bar[scan][i] \div Word) * Word + v)
WriteHigh(v) == Store(v * Word + (bar[scan][i] % Word))

Is64 == Kind(scan, i) = "mem64"

\* The size the BAR reports after all its bits were written: the complement
\* of what was read, plus one, in 64 or 32 bits.
Needed == LET width == IF Is64 THEN Word * Word ELSE Word
          IN  (width - bar[scan][i]) % width

PAGE_ALIGN(sz) == ((sz + PAGE - 1) \div PAGE) * PAGE

\* Mutant: the offset advances by a page, whatever the size.
pci_alloc_mmio_one_page(sz) ==
  /\ mem_addr' = PCIE0_MMIO + s_off
  /\ s_off' = s_off + PAGE

pci_alloc_mmio(sz) ==
  /\ mem_addr' = PCIE0_MMIO + s_off
  /\ s_off' = s_off + PAGE_ALIGN(sz)

-----------------------------------------------------------------------------
At(from, to) == pc = from /\ pc' = to

\* Mutant: every device of the vendor matches.
Matches_vendor(p) == Present(p) /\ machine[p].id[1] = pci_id[1]

Matches(p) == Present(p) /\ machine[p].id = pci_id

\* pci_device_probe(id)
CallProbe(id) ==
  /\ pci_id' = id
  /\ scan' = 0
  /\ ret' = 0
  /\ UNCHANGED <<busVars, i, mem_addr>>

Skip ==
  /\ At("scan", "scan")
  /\ scan \in Scanned
  /\ ~Matches(scan)
  /\ scan' = scan + 1
  /\ UNCHANGED <<busVars, pci_id, i, mem_addr, ret>>

\* The position is the result (the last match wins), and decoding is on.
Found ==
  /\ At("scan", "bar")
  /\ scan \in Scanned
  /\ Matches(scan)
  /\ ret' = scan
  /\ memory' = memory \cup {scan}
  /\ i' = 0
  /\ UNCHANGED <<machine, bar, s_off, pci_id, scan, mem_addr>>

EndScan ==
  /\ At("scan", "probed")
  /\ scan \notin Scanned
  /\ UNCHANGED <<busVars, pci_id, scan, i, mem_addr, ret>>

SkipIo ==
  /\ At("bar", "bar")
  /\ i \in BarNumbers
  /\ Kind(scan, i) = "io"
  /\ i' = i + 1
  /\ UNCHANGED <<busVars, pci_id, scan, mem_addr, ret>>

SizeLow ==
  /\ pc = "bar" /\ i \in BarNumbers
  /\ pc' = IF Is64 THEN "size high" ELSE "place"
  /\ Kind(scan, i) # "io"
  /\ WriteLow(Word - 1)
  /\ UNCHANGED <<machine, memory, s_off, pci_id, scan, i, mem_addr, ret>>

SizeHigh ==
  /\ At("size high", "place")
  /\ WriteHigh(Word - 1)
  /\ UNCHANGED <<machine, memory, s_off, pci_id, scan, i, mem_addr, ret>>

NoSuchBar ==
  /\ At("place", "bar")
  /\ Needed = 0
  /\ i' = IF Is64 THEN i + 2 ELSE i + 1
  /\ UNCHANGED <<busVars, pci_id, scan, mem_addr, ret>>

PlaceLow ==
  /\ pc = "place" /\ pc' = IF Is64 THEN "place high" ELSE "bar"
  /\ Needed # 0
  /\ pci_alloc_mmio(Needed)
  /\ WriteLow(mem_addr' % Word)
  /\ i' = IF Is64 THEN i ELSE i + 1
  /\ UNCHANGED <<machine, memory, pci_id, scan, ret>>

PlaceHigh ==
  /\ At("place high", "bar")
  /\ WriteHigh(mem_addr \div Word)
  /\ i' = i + 2
  /\ UNCHANGED <<machine, memory, s_off, pci_id, scan, mem_addr, ret>>

EndBars ==
  /\ At("bar", "scan")
  /\ i \notin BarNumbers
  /\ scan' = scan + 1
  /\ UNCHANGED <<busVars, pci_id, i, mem_addr, ret>>

ProbeStep ==
  \/ Skip \/ Found \/ EndScan
  \/ SkipIo \/ SizeLow \/ SizeHigh \/ NoSuchBar \/ PlaceLow \/ PlaceHigh \/ EndBars

-----------------------------------------------------------------------------
\* Firmware leaves the devices alone: nothing decodes, every BAR is 0.
ProbeInit ==
  /\ machine \in Machines
  /\ memory = {}
  /\ bar = [p \in Positions |-> [n \in BarNumbers |-> 0]]
  /\ s_off = 0
  /\ scan = 0 /\ i = 0 /\ mem_addr = 0 /\ ret = 0

ProbeTypeOK ==
  /\ machine \in Machines
  /\ memory \subseteq Scanned
  /\ bar \in [Positions -> [BarNumbers -> 0..Word * Word - 1]]
  /\ s_off \in 0..WindowSize
  /\ mem_addr \in 0..Word - 1
  /\ scan \in Scanned \cup {(BusCount - 1) * DevCount}
  /\ i \in 0..7
  /\ ret \in Scanned
=============================================================================
