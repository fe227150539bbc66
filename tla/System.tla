------------------------------- MODULE System -------------------------------
(***************************************************************************)
(* The program as a whole, from UartInit to shutdown: main's three tests,  *)
(* on machines that lack a device or have one that cannot be used, with    *)
(* the UART, the interrupt controller and the trap handler around them.    *)
(* A device is what the other modules have shown it to be: an              *)
(* initialisation that returns 0 or not (VirtioInit), an rng read that     *)
(* returns (VirtioRng), and a disk with one synchronous operation that may *)
(* fail without telling (SyncDisk).  A line that is printed is one byte.   *)
(***************************************************************************)
EXTENDS Uart, Plic, BlkRange

CONSTANTS
  RNG_CNT,   \* rounds of the rng test: 16
  TEST_CNT,  \* rounds of the block test: 16
  Machines,  \* [rng, blk, size, contents]: the devices the program may find
  Sizes,     \* sectors the disk may have after a change
  MaxEnv     \* bound: bytes of input and changes of the disk's size

ASSUME TestAssumption == RNG_CNT \in Nat /\ TEST_CNT \in Nat \ {0}
ASSUME SizeAssumption == Sizes \subseteq Nat /\ MaxEnv \in Nat

DATA_LEN == 2 * SECTOR
Half     == DATA_LEN \div 2

\* 16 KiB against 4 GiB.
ASSUME SpaceAssumption == TEST_CNT * DATA_LEN < Word

TestSectors == 0..2 * TEST_CNT - 1
Contents    == {"pattern", "zeros", "other"}

\* "no caps" has no capability list that leads to its registers.
Kinds == {"absent", "no caps", "refusing", "ok"}

ASSUME MachineAssumption ==
  Machines \subseteq [rng : Kinds, blk : Kinds, size : Nat, contents : Contents]

VARIABLES
  rng, blk,   \* what kind of device the machine has
  size,       \* the disk: its sectors now,
  smallest, largest, \* the least and the most it has shown (history),
  disk,       \* the contents of those the tests use
  erred,      \* and whether it has failed a request
  pc, n,      \* main: its next step, the round of its loop
  b,          \* the request in struct blk_buf, b.to where its caller goes on
  buf,        \* read_buf: contents of its two halves
  passed,     \* main: "passed!" has been printed
  capacity,   \* gs_virtio_blk.capacity
  flag,       \* b->flag
  live,       \* the disk has seen DRIVER_OK, its queue is laid out
  avail, used, \* a request the disk can take, a completion not yet drained
  isr,        \* its ISR status, and so its line
  busy,       \* the rng works on a request
  sie, hpc, irq, \* trap handler, as in VirtioBlk
  env         \* arrivals of the environment still allowed

machineVars == <<rng, blk, size, smallest, largest, disk, erred>>
queueVars   == <<flag, live, avail, used, isr>>
mainVars    == <<pc, n, b, buf, passed, capacity>>
trapVars    == <<hpc, irq>>
vars == <<machineVars, queueVars, busy, mainVars, trapVars, sie, env, uartVars, plicVars>>

-----------------------------------------------------------------------------
(***************************************************************************)
(* main, between two steps of which the handler may run.                   *)
(***************************************************************************)

\* A step of main begins when what it has printed is with the transmitter.
At(from) == hpc = "none" /\ Idle("main") /\ pc = from

Go(to) == pc' = to

\* printf
Say ==
  /\ Putc("main", [src |-> "main", n |-> said["main"] + 1])
  /\ said' = [said EXCEPT !["main"] = @ + 1]
  /\ UNCHANGED <<uartRegs, tx, rx, polled, heard>>

Silent == UNCHANGED uartVars

\* What most steps of main leave alone.
Elsewhere == UNCHANGED <<machineVars, busy, trapVars, env>>

\* One store of UartInit.
ConsoleInit ==
  /\ At("console")
  /\ Store(UartInit[n][1], UartInit[n][2])
  /\ IF n < Len(UartInit) THEN n' = n + 1 /\ Go("console") ELSE n' = 0 /\ Go("traps")
  /\ UNCHANGED <<b, buf, passed, capacity, queueVars, sie, putting, polled, heard, plicVars>>
  /\ Elsewhere

\* Mutant: interrupts stay disabled on the hart.
EnableTraps_not ==
  /\ At("traps") /\ Go("plic")
  /\ UNCHANGED <<n, b, buf, passed, capacity, queueVars, sie, plicVars>>
  /\ Silent /\ Elsewhere

\* interrupts_init: sie.SEIE and sstatus.SIE, then the controller.
EnableTraps ==
  /\ At("traps") /\ Go("plic")
  /\ sie' = TRUE
  /\ UNCHANGED <<n, b, buf, passed, capacity, queueVars, plicVars>>
  /\ Silent /\ Elsewhere

InitPlic ==
  /\ At("plic") /\ Go("hello")
  /\ plic_init
  /\ UNCHANGED <<n, b, buf, passed, capacity, queueVars, sie, pending, claimed>>
  /\ Silent /\ Elsewhere

Hello ==
  /\ At("hello") /\ Go("rng init")
  /\ Say
  /\ UNCHANGED <<n, b, buf, passed, capacity, queueVars, sie, plicVars>>
  /\ Elsewhere

\* The result is printed and not looked at.  Without capabilities the first
\* register access, that of virtio_pci_print_common_cfg, goes through NULL.
RngInit ==
  /\ At("rng init")
  /\ Go(IF rng = "no caps" THEN "fault" ELSE "rng read")
  /\ Say
  /\ UNCHANGED <<n, b, buf, passed, capacity, queueVars, sie, plicVars>>
  /\ Elsewhere

\* virtio_pci_rng_read: without a queue its first look at one is through NULL.
RngRead ==
  /\ At("rng read") /\ n < RNG_CNT
  /\ Go(IF rng = "ok" THEN "rng poll" ELSE "fault")
  /\ busy' = (rng = "ok")
  /\ Say
  /\ UNCHANGED <<n, b, buf, passed, capacity, queueVars, machineVars, sie, trapVars, env, plicVars>>

RngPoll ==
  /\ At("rng poll") /\ Go("rng read")
  /\ ~busy
  /\ n' = n + 1
  /\ Say
  /\ UNCHANGED <<b, buf, passed, capacity, queueVars, sie, plicVars>>
  /\ Elsewhere

RngDone ==
  /\ At("rng read") /\ n = RNG_CNT
  /\ Go("blk init")
  /\ Say
  /\ UNCHANGED <<n, b, buf, passed, capacity, queueVars, sie, plicVars>>
  /\ Elsewhere

-----------------------------------------------------------------------------
(***************************************************************************)
(* The block test.                                                         *)
(***************************************************************************)

\* virtio_pci_blk_init up to DRIVER_OK; a result other than 0 ends the test.
BlkInit ==
  /\ At("blk init")
  /\ Go(CASE blk = "ok"      -> "blk cfg"
          [] blk = "no caps" -> "fault"
          [] OTHER           -> "test 2")
  /\ live' = (blk = "ok")
  /\ Say
  /\ UNCHANGED <<n, b, buf, passed, capacity, flag, avail, used, isr, sie, plicVars>>
  /\ Elsewhere

virtio_pci_blk_cfg ==
  /\ At("blk cfg") /\ Go("blk irq")
  /\ capacity' = StoredCapacity(size)
  /\ Say
  /\ UNCHANGED <<n, b, buf, passed, queueVars, sie, plicVars>>
  /\ Elsewhere

EnableBlkIrq ==
  /\ At("blk irq") /\ Go("write")
  /\ plic_enable(PCIE_IRQ_PINB)
  /\ n' = 0
  /\ buf' = <<"pattern", "pattern">>
  /\ Say
  /\ UNCHANGED <<b, passed, capacity, queueVars, sie, pending, claimed>>
  /\ Elsewhere

Request(addr, len, write, to) == [addr |-> addr, len |-> len, write |-> write, to |-> to]

WriteRound ==
  /\ At("write") /\ n < TEST_CNT
  /\ b' = Request(n * DATA_LEN, DATA_LEN, TRUE, "read")
  /\ Go("rw")
  /\ UNCHANGED <<n, buf, passed, capacity, queueVars, sie, plicVars>>
  /\ Silent /\ Elsewhere

\* Mutant: the buffer is not cleared before it is read into.
ReadRound_stale ==
  /\ At("read")
  /\ b' = Request(n * DATA_LEN, DATA_LEN, FALSE, "check")
  /\ Go("rw")
  /\ UNCHANGED <<n, buf, passed, capacity, queueVars, sie, plicVars>>
  /\ Silent /\ Elsewhere

ReadRound ==
  /\ At("read")
  /\ buf' = <<"zeros", "zeros">>
  /\ b' = Request(n * DATA_LEN, DATA_LEN, FALSE, "check")
  /\ Go("rw")
  /\ UNCHANGED <<n, passed, capacity, queueVars, sie, plicVars>>
  /\ Silent /\ Elsewhere

\* The next round writes what this one has read.
CheckSame ==
  /\ At("check") /\ Go("write")
  /\ buf = <<"pattern", "pattern">>
  /\ n' = n + 1
  /\ UNCHANGED <<b, buf, passed, capacity, queueVars, sie, plicVars>>
  /\ Silent /\ Elsewhere

CheckFailed ==
  /\ At("check") /\ Go("test 2")
  /\ buf # <<"pattern", "pattern">>
  /\ Say
  /\ UNCHANGED <<n, b, buf, passed, capacity, queueVars, sie, plicVars>>
  /\ Elsewhere

Passed ==
  /\ At("write") /\ n = TEST_CNT
  /\ Go("test 2")
  /\ passed' = TRUE
  /\ Say
  /\ UNCHANGED <<n, b, buf, capacity, queueVars, sie, plicVars>>
  /\ Elsewhere

\* Runs whatever became of the first test, and does not initialise again.
virtio_pci_blk_test2 ==
  /\ At("test 2")
  /\ buf' = [buf EXCEPT ![1] = "zeros"]
  /\ b' = Request(0, Half, FALSE, "print")
  /\ Go("rw")
  /\ UNCHANGED <<n, passed, capacity, queueVars, sie, plicVars>>
  /\ Silent /\ Elsewhere

PrintSector ==
  /\ At("print") /\ Go("shutdown")
  /\ Say
  /\ UNCHANGED <<n, b, buf, passed, capacity, queueVars, sie, plicVars>>
  /\ Elsewhere

\* The store to the test finisher ends the machine.
shutdown ==
  /\ At("shutdown") /\ Go("off")
  /\ UNCHANGED <<n, b, buf, passed, capacity, queueVars, sie, plicVars>>
  /\ Silent /\ Elsewhere

-----------------------------------------------------------------------------
(***************************************************************************)
(* virtio_pci_blk_rw.                                                      *)
(***************************************************************************)

RwReject ==
  /\ At("rw") /\ Go(b.to)
  /\ ~InRange(b.addr, b.len, capacity)
  /\ Say
  /\ UNCHANGED <<n, b, buf, passed, capacity, queueVars, sie, plicVars>>
  /\ Elsewhere

\* The request is published before the line is printed, and the disk may take
\* it without being notified.  Without a queue the descriptors are at NULL.
RwPublish ==
  /\ At("rw") /\ Go(IF live THEN "notify" ELSE "fault")
  /\ InRange(b.addr, b.len, capacity)
  /\ flag' = IF live THEN 1 ELSE flag
  /\ avail' = live
  /\ Say
  /\ UNCHANGED <<n, b, buf, passed, capacity, live, used, isr, sie, plicVars>>
  /\ Elsewhere

\* From here on, where it waits, the disk is bound to serve the request.
RwNotify ==
  /\ At("notify") /\ Go("wait")
  /\ UNCHANGED <<n, b, buf, passed, capacity, queueVars, sie, plicVars>>
  /\ Silent /\ Elsewhere

\* Mutant: the flag is not waited for.
RwWait_not ==
  /\ At("wait") /\ Go(b.to)
  /\ UNCHANGED <<n, b, buf, passed, capacity, queueVars, sie, plicVars>>
  /\ Silent /\ Elsewhere

RwWait ==
  /\ At("wait") /\ Go(b.to)
  /\ flag = 0
  /\ UNCHANGED <<n, b, buf, passed, capacity, queueVars, sie, plicVars>>
  /\ Silent /\ Elsewhere

MainPutc ==
  /\ hpc = "none"
  /\ UartPutc("main")
  /\ UNCHANGED <<mainVars, queueVars, sie, plicVars>>
  /\ Elsewhere

MainStep ==
  \/ ConsoleInit \/ EnableTraps \/ InitPlic \/ Hello
  \/ RngInit \/ RngRead \/ RngPoll \/ RngDone
  \/ BlkInit \/ virtio_pci_blk_cfg \/ EnableBlkIrq
  \/ WriteRound \/ ReadRound \/ CheckSame \/ CheckFailed \/ Passed
  \/ virtio_pci_blk_test2 \/ PrintSector \/ shutdown
  \/ RwReject \/ RwPublish \/ RwNotify \/ RwWait
  \/ MainPutc

-----------------------------------------------------------------------------
(***************************************************************************)
(* The devices.                                                            *)
(***************************************************************************)

RngAnswer ==
  /\ busy
  /\ busy' = FALSE
  /\ UNCHANGED <<machineVars, queueVars, mainVars, trapVars, sie, env, uartVars, plicVars>>

First   == StartSector(b.addr)
Count   == b.len \div SECTOR
Touched == First..First + Count - 1

\* The disk moves these of the sectors it was asked for.
Move(moved) ==
  IF b.write
    THEN /\ disk' = [s \in TestSectors |-> IF s \in moved THEN buf[s - First + 1] ELSE disk[s]]
         /\ UNCHANGED buf
    ELSE /\ buf' = [k \in 1..2 |-> IF First + k - 1 \in moved THEN disk[First + k - 1] ELSE buf[k]]
         /\ UNCHANGED disk

\* A request past the end of the disk as it is now moves nothing.
DevServe ==
  /\ avail
  /\ IF First + Count <= size
       THEN \/ Move(Touched) /\ UNCHANGED erred
            \/ \E moved \in SUBSET Touched : Move(moved) /\ erred' = TRUE
       ELSE erred' = TRUE /\ UNCHANGED <<disk, buf>>
  /\ avail' = FALSE /\ used' = TRUE /\ isr' = 1
  /\ UNCHANGED <<rng, blk, size, smallest, largest, pc, n, b, passed, capacity, flag, live,
                 busy, trapVars, sie, env, uartVars, plicVars>>

\* A change of the configuration: the disk has another size from now on.
Resize ==
  /\ live /\ env > 0
  /\ env' = env - 1
  /\ size' \in Sizes \ {size}
  /\ smallest' = IF size' < smallest THEN size' ELSE smallest
  /\ largest' = IF size' > largest THEN size' ELSE largest
  /\ isr' = 1
  /\ UNCHANGED <<rng, blk, disk, erred, flag, live, avail, used, busy, mainVars,
                 trapVars, sie, uartVars, plicVars>>

RxByte ==
  /\ env > 0
  /\ env' = env - 1
  /\ Receive
  /\ UNCHANGED <<machineVars, queueVars, busy, mainVars, trapVars, sie, plicVars>>

TxByte ==
  /\ Shift
  /\ UNCHANGED <<machineVars, queueVars, busy, mainVars, trapVars, sie, env, plicVars>>

\* The line of the rng, which is never enabled, is left to VirtioBlk.
Lines == {UART0_IRQ, PCIE_IRQ_PINB}

Level(i) == CASE i = UART0_IRQ     -> UartLevel
              [] i = PCIE_IRQ_PINB -> isr = 1

Forward(i) ==
  /\ GatewayForward(i, Level(i))
  /\ UNCHANGED <<machineVars, queueVars, busy, mainVars, trapVars, sie, env, uartVars,
                 plicRegs, claimed>>

-----------------------------------------------------------------------------
(***************************************************************************)
(* The trap handler.  An exception of main is its path that never returns, *)
(* with interrupts off.                                                    *)
(***************************************************************************)

InTrap(from, to) ==
  /\ hpc = from /\ Idle("handler")
  /\ hpc' = to

Untouched == UNCHANGED <<machineVars, busy, mainVars, sie, env>>

Trap ==
  /\ sie /\ pc # "fault"
  /\ ExternalInterrupt
  /\ InTrap("none", "claim")
  /\ UNCHANGED <<queueVars, irq, uartVars, plicVars>>
  /\ Untouched

Routine(i) == CASE i = UART0_IRQ     -> "uart"
                [] i = PCIE_IRQ_PINB -> "isr"
                [] OTHER             -> "complete"

Claim ==
  \E i \in Irqs \cup {NO_IRQ} :
    /\ plic_claim(i)
    /\ irq' = i
    /\ InTrap("claim", Routine(i))
    /\ UNCHANGED <<queueVars, uartVars, plicRegs>>
    /\ Untouched

UartIsr ==
  /\ IF DR THEN InTrap("uart", "uart") /\ UartEcho
           ELSE InTrap("uart", "complete") /\ UNCHANGED uartVars
  /\ UNCHANGED <<queueVars, irq, plicVars>>
  /\ Untouched

ClearIsr ==
  /\ InTrap("isr", "drain")
  /\ isr' = 0
  /\ UNCHANGED <<flag, live, avail, used, irq, uartVars, plicVars>>
  /\ Untouched

\* The id and the status of every entry are printed, and not kept.
Drain ==
  /\ used
  /\ InTrap("drain", "drain")
  /\ used' = FALSE /\ flag' = 0
  /\ Putc("handler", [src |-> "isr", n |-> said["isr"] + 1])
  /\ said' = [said EXCEPT !["isr"] = @ + 1]
  /\ UNCHANGED <<live, avail, isr, irq, uartRegs, tx, rx, polled, heard, plicVars>>
  /\ Untouched

DrainEnd ==
  /\ ~used
  /\ InTrap("drain", "complete")
  /\ UNCHANGED <<queueVars, irq, uartVars, plicVars>>
  /\ Untouched

Complete ==
  /\ InTrap("complete", "none")
  /\ IF irq # NO_IRQ THEN plic_complete(irq) ELSE UNCHANGED claimed
  /\ UNCHANGED <<queueVars, irq, uartVars, plicRegs, pending>>
  /\ Untouched

HandlerPutc ==
  /\ hpc # "none"
  /\ UartPutc("handler")
  /\ UNCHANGED <<queueVars, trapVars, plicVars>>
  /\ Untouched

HandlerStep == Claim \/ UartIsr \/ ClearIsr \/ Drain \/ DrainEnd \/ Complete \/ HandlerPutc

-----------------------------------------------------------------------------
Init ==
  /\ \E m \in Machines :
       /\ rng = m.rng /\ blk = m.blk
       /\ size = m.size /\ smallest = m.size /\ largest = m.size
       /\ disk = [s \in TestSectors |-> m.contents]
  /\ erred = FALSE
  /\ pc = "console" /\ n = 1
  /\ b = Request(0, 0, FALSE, "off")
  /\ buf = <<"zeros", "zeros">>
  /\ passed = FALSE
  /\ capacity = 0 /\ flag = 0 /\ live = FALSE
  /\ avail = FALSE /\ used = FALSE /\ isr = 0
  /\ busy = FALSE
  /\ sie = FALSE /\ hpc = "none" /\ irq = NO_IRQ
  /\ env = MaxEnv
  /\ UartReset /\ PlicReset

Next ==
  /\ pc # "off"
  /\ \/ MainStep
     \/ RngAnswer \/ DevServe \/ Resize \/ RxByte \/ TxByte
     \/ \E i \in Lines : Forward(i)
     \/ Trap \/ HandlerStep

\* While the machine is on: the hart executes instructions, an asserted line
\* reaches it, the transmitter sends, and a device that was notified answers.
Fairness ==
  /\ WF_vars(pc # "off" /\ MainStep)
  /\ WF_vars(pc # "off" /\ HandlerStep)
  /\ WF_vars(pc # "off" /\ Trap)
  /\ WF_vars(pc # "off" /\ TxByte)
  /\ WF_vars(pc # "off" /\ RngAnswer)
  /\ WF_vars(pc = "wait" /\ DevServe)
  /\ \A i \in Lines : WF_vars(pc # "off" /\ Forward(i))

Spec == Init /\ [][Next]_vars /\ Fairness

-----------------------------------------------------------------------------
(***************************************************************************)
(* Properties.                                                             *)
(***************************************************************************)

\* Types.
TypeOK ==
  /\ UartTypeOK /\ PlicTypeOK
  /\ rng \in Kinds /\ blk \in Kinds
  /\ size \in Nat /\ smallest \in Nat /\ largest \in Nat
  /\ disk \in [TestSectors -> Contents] /\ buf \in Contents \X Contents
  /\ erred \in BOOLEAN /\ passed \in BOOLEAN /\ live \in BOOLEAN
  /\ avail \in BOOLEAN /\ used \in BOOLEAN
  /\ flag \in {0, 1} /\ isr \in {0, 1}
  /\ capacity \in U32
  /\ b.addr \in U32 /\ b.len \in U32 /\ b.write \in BOOLEAN

\* Whoever prints, and whatever interrupts it between the poll and the write
\* of UartPutc, every byte goes out once, whole and in the order of its
\* source; and every byte that came in is echoed likewise (ns16550.c:35-96).
NothingLost == TypeOK /\ \A s \in Sources : InOrder(s)

\* "passed!" says that the disk holds what was written, although no request
\* tells whether it failed (main.c:116-125).
PassedIsStored ==
  passed => \A s \in TestSectors : disk[s] = "pattern"

SizeKept == smallest = largest

\* A disk that fails no request and keeps its size passes the test exactly when
\* it is large enough by the low 32 bits of its sectors, whatever is typed
\* meanwhile: of a disk of 2^32 sectors or more, which is large enough, only
\* those bits count (virtio-pci-blk.c:132).
GoodDiskPasses ==
  pc = "off" /\ blk = "ok" /\ SizeKept /\ ~erred
    => (passed <=> 2 * TEST_CNT <= StoredCapacity(size))

\* The capacity the range check goes by is one the disk has had; it is the one
\* the disk has, if that was not changed and fits into 32 bits
\* (virtio-pci-blk.c:132).  Measured by it, every pair of a u32 address and a
\* u32 length is judged rightly, but that of a sum that wraps only what is left
\* of it is looked at (virtio-pci-blk.c:147-154).
RangeIsExact ==
  pc = "blk irq" =>
    /\ capacity <= largest
    /\ SizeKept /\ size < Word => capacity = size
    /\ \A addr \in U32, len \in U32 : Exact(addr, len, capacity)

\* The disk is only given requests that fit into a size it has had, and only
\* after its initialisation (virtio-pci-blk.c:132, 151; main.c:128).
RequestFits == avail => live /\ First + Count <= largest

\* main comes to its end exactly where the rng works and the disk is not
\* without its capabilities: a disk that is missing, refuses, is too small,
\* fails its requests or changes its size keeps no test from returning, and on
\* every other machine the program goes through NULL and stays in the trap
\* handler (virtio-pci-rng.c:133-139, virtio-pci.c, main.c:134-141).
Finishes ==
  /\ rng = "ok" /\ blk # "no caps" ~> pc = "off"
  /\ rng # "ok" \/ blk = "no caps" ~> [](pc = "fault")
=============================================================================
