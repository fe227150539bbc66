------------------------------- MODULE Plic -------------------------------
(***************************************************************************)
(* The platform-level interrupt controller as platform/plic.c programs and *)
(* uses it (context 1: hart 0 in S-mode), together with the part of the    *)
(* hardware the driver relies on: a gateway per level-triggered source,    *)
(* which forwards one request at a time and takes the next one only after  *)
(* the completion of the last.                                             *)
(***************************************************************************)
EXTENDS Integers

UART0_IRQ     == 10     \* 0x0a
PCIE_IRQ_PINB == 33     \* 0x21, virtio-blk is device 1 of the bus
PCIE_IRQ_PINC == 34     \* 0x22, virtio-rng is device 2 of the bus
NO_IRQ        == 0      \* what a claim returns when nothing is pending

Irqs == {UART0_IRQ, PCIE_IRQ_PINB, PCIE_IRQ_PINC}

VARIABLES
  priority,   \* PLIC_PRIORITY + 4 * irq
  threshold,  \* PLIC_THRESHOLD(1)
  enable,     \* PLIC_ENABLE(1): the set of <<word, bit>> that are 1
  pending,    \* sources whose gateway has forwarded a request
  claimed     \* sources claimed and not yet completed: their gateway is shut

plicRegs == <<priority, threshold, enable>>
plicVars == <<priority, threshold, enable, pending, claimed>>

\* One bit per source, 32 sources to a register.
EnableBit(irq) == <<irq \div 32, irq - 32 * (irq \div 32)>>
IsEnabled(irq) == <<irq \div 32, irq % 32>> \in enable

(* The firmware leaves every source masked by an all-stopping threshold.   *)
PlicReset ==
  /\ priority = [i \in Irqs |-> 0]
  /\ threshold = 7
  /\ enable = {}
  /\ pending = {}
  /\ claimed = {}

PlicTypeOK ==
  /\ priority \in [Irqs -> 0..7]
  /\ threshold \in 0..7
  /\ enable \subseteq (0..1) \X (0..31)
  /\ pending \subseteq Irqs
  /\ claimed \subseteq Irqs

(***************************************************************************)
(* The driver's operations.                                                *)
(***************************************************************************)

\* Mutant: the priority of the UART stays 0, which means never interrupt.
plic_init_no_priority ==
  /\ UNCHANGED priority
  /\ threshold' = 0
  /\ enable' = {e \in enable : e[1] # 0} \cup {EnableBit(UART0_IRQ)}

\* The store to PLIC_ENABLE(1) replaces the whole first word.
plic_init ==
  /\ priority' = [priority EXCEPT ![UART0_IRQ] = 1]
  /\ threshold' = 0
  /\ enable' = {e \in enable : e[1] # 0} \cup {EnableBit(UART0_IRQ)}

plic_enable(irq) ==
  /\ priority' = [priority EXCEPT ![irq] = 1]
  /\ enable' = enable \cup {EnableBit(irq)}
  /\ UNCHANGED threshold

Claimable == {i \in pending : IsEnabled(i) /\ priority[i] > 0}

\* The highest priority wins, and among equals the lowest number.
WinsClaim(i) ==
  /\ i \in Claimable
  /\ \A j \in Claimable :
       priority[j] < priority[i] \/ (priority[j] = priority[i] /\ i <= j)

\* Reading PLIC_CLAIM(1) returned irq.
plic_claim(irq) ==
  \/ /\ irq = NO_IRQ
     /\ Claimable = {}
     /\ UNCHANGED <<pending, claimed>>
  \/ /\ WinsClaim(irq)
     /\ pending' = pending \ {irq}
     /\ claimed' = claimed \cup {irq}

\* Mutant: the store to PLIC_CLAIM(1) is lost.
plic_complete_lost(irq) == UNCHANGED claimed

\* Writing irq to PLIC_CLAIM(1) opens that source's gateway again.
plic_complete(irq) == claimed' = claimed \ {irq}

(***************************************************************************)
(* The hardware.  level(i) is the state of source i's interrupt line.      *)
(***************************************************************************)

\* The external interrupt line of the hart (sip.SEIP).
ExternalInterrupt == \E i \in Claimable : priority[i] > threshold

\* A gateway forwards an asserted level unless its source is being served.
GatewayForward(i, level) ==
  /\ level
  /\ i \notin pending \cup claimed
  /\ pending' = pending \cup {i}
=============================================================================
