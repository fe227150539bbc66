---------------------------- MODULE MCVirtioCaps ----------------------------
(***************************************************************************)
(* The machine of the Makefile, scaled: a page is 4, a word 2^10, the      *)
(* window starts at 256.  Position 0 is the host bridge; the rng and the   *)
(* disk are anywhere behind it, or missing.  As QEMU builds it, either     *)
(* device has its four areas in a 64-bit BAR of four pages (BAR 4), may    *)
(* have its MSI-X table in a page of its own (BAR 1) and a second          *)
(* notification area in an I/O BAR (BAR 2).  QEMU lists the capabilities   *)
(* last one first.                                                         *)
(***************************************************************************)
EXTENDS VirtioCaps

Rng    == <<"1af4", "1044">>
Disk   == <<"1af4", "1042">>
Bridge == <<"1b36", "0008">>

MCDrivers == <<Rng, Disk>>

NoBar == [kind |-> "none", size |-> 0]

BarsOf(msix, pio) ==
  [n \in BarNumbers |->
     CASE n = 1 /\ msix -> [kind |-> "mem32", size |-> 4]
       [] n = 2 /\ pio  -> [kind |-> "io", size |-> 1]
       [] n = 4         -> [kind |-> "mem64", size |-> 16]
       [] OTHER         -> NoBar]

Cap(area, n, offset) == [vndr |-> TRUE, area |-> area, bar |-> n, offset |-> offset]

CapsOf(msix, pio) ==
  (IF msix THEN <<[Cap("msix", 1, 0) EXCEPT !.vndr = FALSE]>> ELSE << >>)
  \o <<Cap("pci", 0, 0)>>
  \o (IF pio THEN <<Cap("notify", 2, 0)>> ELSE << >>)
  \o <<Cap("notify", 4, 12), Cap("device", 4, 8), Cap("isr", 4, 4), Cap("common", 4, 0)>>

Functions(id) ==
  {[id |-> id, bars |-> BarsOf(msix, pio), caps |-> CapsOf(msix, pio)] : msix, pio \in BOOLEAN}

HostBridge == [id |-> Bridge, bars |-> [n \in BarNumbers |-> NoBar], caps |-> << >>]

MCMachines ==
  {[p \in Positions |->
      CASE p = 0  -> HostBridge
        [] p = at[1] -> rng
        [] p = at[2] -> disk
        [] OTHER  -> NONE] :
     at \in {x \in (1..DevCount) \X (1..DevCount) : x[1] # x[2]},
     rng \in Functions(Rng), disk \in Functions(Disk)}

\* The sizes QEMU gives these BARs fit.
ASSUME SizeAssumption == SizesFit
=============================================================================
