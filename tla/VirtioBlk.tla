----------------------------- MODULE VirtioBlk -----------------------------
(***************************************************************************)
(* The request path of the virtio-pci block driver: virtio_pci_blk_rw on   *)
(* the main thread, the block device on the other side of the split        *)
(* virtqueue, and the trap handler that runs virtio_pci_blk_intr, all of   *)
(* them interleaved.  It starts when virtio_pci_blk_init has set the queue *)
(* up and the device is live, with the interrupt set-up still to be done.  *)
(*                                                                         *)
(* The main thread and the trap handler share one hart: the handler runs   *)
(* to completion between two steps of the main thread.  The device runs    *)
(* concurrently with both.  A fence separates every pair of the driver's   *)
(* stores the device can see, so it sees them in program order; the        *)
(* handler's loads of used->idx and of the entry are in program order too, *)
(* which no fence enforces (see VirtioRng).                                *)
(***************************************************************************)
EXTENDS RingIndex, Plic

CONSTANTS
  Capacity,  \* blk->capacity, in sectors
  Data,      \* contents of a sector or of a data buffer
  Bufs,      \* the caller's struct blk_buf objects
  NULL,      \* the null pointer
  MaxEnv     \* bound: UART bytes and configuration changes that arrive

ASSUME QueueAssumption == QSize >= 3   \* BLK_QSIZE is 128
ASSUME DiskAssumption == Capacity \in Nat \ {0} /\ Data # {} /\ Bufs # {}
ASSUME NullAssumption == NULL \notin Bufs
ASSUME EnvAssumption == MaxEnv \in Nat

Sectors == 0..Capacity - 1

VARIABLES
  pc,         \* main thread: the next step of virtio_pci_blk_rw
  cur,        \* main thread: the request in *b (and the sector it starts at)
  idx,        \* main thread: idx[0], idx[1], idx[2]
  avail_idx,  \* blk->avail_idx: descriptors handed out
  used_idx,   \* blk->used_idx: used entries the handler has consumed
  info,       \* blk->info: head descriptor -> the request that uses it
  ops,        \* blk->ops: request headers
  status,     \* blk->status: one status byte per head descriptor
  flag,       \* b->flag of every buffer: 1 while its request is under way
  desc,       \* descriptor table
  avail,      \* available ring: [idx, ring]
  used,       \* used ring: [idx, ring of head ids]
  mem,        \* contents of the caller's data buffers
  disk,       \* contents of the disk
  dev,        \* device: [stage, head] of the request it works on
  last_avail, \* device: available entries it has taken
  kicked,     \* device: a queue notification it has not yet attended to
  isr,        \* device: ISR status, and with it the INTx line of the device
  sie,        \* sstatus.SIE and sie.SEIE: set once interrupts_init has run
  hpc,        \* trap handler: its next step, "none" outside the handler
  irq,        \* trap handler: the claimed source
  rx,         \* bytes in the receive FIFO of the UART
  env         \* arrivals of the environment still allowed

mainVars   == <<pc, cur, idx, avail_idx>>
sharedVars == <<info, ops, status, flag, desc, avail>>
devVars    == <<dev, last_avail, kicked, used>>
dataVars   == <<mem, disk>>
trapVars   == <<hpc, irq>>
envVars    == <<rx, env>>
vars == <<mainVars, used_idx, sharedVars, devVars, dataVars, isr, sie,
          trapVars, envVars, plicVars>>

ST_PENDING == 255   \* written by the driver before it hands the chain over
ST_OK      == 0
ST_IOERR   == 1

\* The head id in the slot of the used ring that index i selects.
UsedId(i)  == used.ring[Slot(i)]
AvailId(i) == avail.ring[Slot(i)]

-----------------------------------------------------------------------------
(***************************************************************************)
(* The main thread.                                                        *)
(***************************************************************************)

OnMain(from, to) ==
  /\ hpc = "none"
  /\ pc = from
  /\ pc' = to

\* The hart may trap from here on, but every source is still masked.
EnableTraps ==
  /\ OnMain("boot", "plic")
  /\ sie' = TRUE
  /\ UNCHANGED <<cur, idx, avail_idx, used_idx, sharedVars, devVars, dataVars,
                 isr, trapVars, envVars, plicVars>>

InitPlic ==
  /\ OnMain("plic", "enable")
  /\ plic_init
  /\ UNCHANGED <<cur, idx, avail_idx, used_idx, sharedVars, devVars, dataVars,
                 isr, sie, trapVars, envVars, pending, claimed>>

\* Mutant: the pin of the next device on the bus.
EnableBlkIrq_wrong_pin ==
  /\ OnMain("enable", "idle")
  /\ plic_enable(PCIE_IRQ_PINC)
  /\ UNCHANGED <<cur, idx, avail_idx, used_idx, sharedVars, devVars, dataVars,
                 isr, sie, trapVars, envVars, pending, claimed>>

EnableBlkIrq ==
  /\ OnMain("enable", "idle")
  /\ plic_enable(PCIE_IRQ_PINB)
  /\ UNCHANGED <<cur, idx, avail_idx, used_idx, sharedVars, devVars, dataVars,
                 isr, sie, trapVars, envVars, pending, claimed>>

\* Mutant: the end of the disk is off by one.
InCapacity_off_by_one(sector) == sector <= Capacity

\* The check of the request against the capacity, for one-sector requests.
InCapacity(sector) == sector + 1 <= Capacity

\* The caller has put d into b's buffer and calls virtio_pci_blk_rw(b), which
\* takes the next three descriptors.
RwCall(b, write, sector, d) ==
  /\ OnMain("idle", "fill")
  /\ InCapacity(sector)
  /\ mem' = [mem EXCEPT ![b] = d]
  /\ cur' = [buf |-> b, write |-> write, sector |-> sector]
  /\ idx' = <<Slot(avail_idx), Slot(Inc(avail_idx)), Slot(Inc(Inc(avail_idx)))>>
  /\ avail_idx' = Inc(Inc(Inc(avail_idx)))
  /\ UNCHANGED <<used_idx, sharedVars, devVars, disk, isr, sie, trapVars, envVars, plicVars>>

\* virtio_blk_rw: invalid data length.
RwReject(b, sector, d) ==
  /\ OnMain("idle", "idle")
  /\ ~InCapacity(sector)
  /\ mem' = [mem EXCEPT ![b] = d]
  /\ UNCHANGED <<cur, idx, avail_idx, used_idx, sharedVars, devVars, disk, isr, sie,
                 trapVars, envVars, plicVars>>

\* The value virtio_vring_fill_desc stores into a descriptor: what addr points
\* to (the header or the status byte of a slot, or a data buffer), the flags
\* and the next descriptor of the chain.
Desc(kind, at, flags, next) == [kind |-> kind, at |-> at, flags |-> flags, next |-> next]

\* Mutant: the direction of the data descriptor is inverted.
DataFlags_inverted(write) == (IF write THEN {"WRITE"} ELSE {}) \cup {"NEXT"}

DataFlags(write) == (IF write THEN {} ELSE {"WRITE"}) \cup {"NEXT"}

\* The header, the three descriptors of the chain, and the status byte.
RwFill ==
  /\ OnMain("fill", "arm")
  /\ ops' = [ops EXCEPT ![idx[1]] =
               [type |-> IF cur.write THEN "OUT" ELSE "IN", sector |-> cur.sector]]
  /\ desc' = [desc EXCEPT
               ![idx[1]] = Desc("req", idx[1], {"NEXT"}, idx[2]),
               ![idx[2]] = Desc("data", cur.buf, DataFlags(cur.write), idx[3]),
               ![idx[3]] = Desc("status", idx[1], {"WRITE"}, 0)]
  /\ status' = [status EXCEPT ![idx[1]] = ST_PENDING]
  /\ UNCHANGED <<cur, idx, avail_idx, used_idx, info, flag, avail, devVars, dataVars,
                 isr, sie, trapVars, envVars, plicVars>>

\* Mutant: the request is not entered in the table the handler looks it up in.
RwArm_unregistered ==
  /\ OnMain("arm", "ring")
  /\ flag' = [flag EXCEPT ![cur.buf] = 1]
  /\ UNCHANGED <<cur, idx, avail_idx, used_idx, info, ops, status, desc, avail, devVars, dataVars,
                 isr, sie, trapVars, envVars, plicVars>>

RwArm ==
  /\ OnMain("arm", "ring")
  /\ flag' = [flag EXCEPT ![cur.buf] = 1]
  /\ info' = [info EXCEPT ![idx[1]] = cur.buf]
  /\ UNCHANGED <<cur, idx, avail_idx, used_idx, ops, status, desc, avail, devVars, dataVars,
                 isr, sie, trapVars, envVars, plicVars>>

\* virtio_vring_add_avail, up to its first fence.
AddAvailRing ==
  /\ OnMain("ring", "publish")
  /\ avail' = [avail EXCEPT !.ring[Slot(avail.idx)] = idx[1]]
  /\ UNCHANGED <<cur, idx, avail_idx, used_idx, info, ops, status, flag, desc, devVars,
                 dataVars, isr, sie, trapVars, envVars, plicVars>>

\* Mutant: the free-running index is wrapped at the size of the ring.
AddAvailIdx_wrapped ==
  /\ OnMain("publish", "notify")
  /\ avail' = [avail EXCEPT !.idx = (@ + 1) % QSize]
  /\ UNCHANGED <<cur, idx, avail_idx, used_idx, info, ops, status, flag, desc, devVars,
                 dataVars, isr, sie, trapVars, envVars, plicVars>>

\* The rest of virtio_vring_add_avail: the entry is visible to the device.
AddAvailIdx ==
  /\ OnMain("publish", "notify")
  /\ avail' = [avail EXCEPT !.idx = Inc(@)]
  /\ UNCHANGED <<cur, idx, avail_idx, used_idx, info, ops, status, flag, desc, devVars,
                 dataVars, isr, sie, trapVars, envVars, plicVars>>

\* Mutant: the notification is not sent.
RwNotify_unsent ==
  /\ OnMain("notify", "wait")
  /\ UNCHANGED <<cur, idx, avail_idx, used_idx, sharedVars, devVars, dataVars,
                 isr, sie, trapVars, envVars, plicVars>>

\* virtio_pci_set_queue_notify
RwNotify ==
  /\ OnMain("notify", "wait")
  /\ kicked' = TRUE
  /\ UNCHANGED <<cur, idx, avail_idx, used_idx, sharedVars, dev, last_avail, used, dataVars,
                 isr, sie, trapVars, envVars, plicVars>>

\* Mutant: the loop does not wait.
RwWait_not ==
  /\ OnMain("wait", "clear")
  /\ UNCHANGED <<cur, idx, avail_idx, used_idx, sharedVars, devVars, dataVars,
                 isr, sie, trapVars, envVars, plicVars>>

\* The polling loop ends when the handler has cleared the flag.
RwWait ==
  /\ OnMain("wait", "clear")
  /\ flag[cur.buf] # 1
  /\ UNCHANGED <<cur, idx, avail_idx, used_idx, sharedVars, devVars, dataVars,
                 isr, sie, trapVars, envVars, plicVars>>

RwReturn ==
  /\ OnMain("clear", "idle")
  /\ info' = [info EXCEPT ![idx[1]] = NULL]
  /\ UNCHANGED <<cur, idx, avail_idx, used_idx, ops, status, flag, desc, avail, devVars,
                 dataVars, isr, sie, trapVars, envVars, plicVars>>

\* What the main thread does of its own accord; its caller may stop calling.
MainStep ==
  \/ EnableTraps \/ InitPlic \/ EnableBlkIrq
  \/ RwFill \/ RwArm \/ AddAvailRing \/ AddAvailIdx \/ RwNotify \/ RwWait \/ RwReturn

Caller ==
  \E b \in Bufs, s \in 0..Capacity, d \in Data :
    \/ \E w \in BOOLEAN : RwCall(b, w, s, d)
    \/ RwReject(b, s, d)

-----------------------------------------------------------------------------
(***************************************************************************)
(* The block device.  It serves one request at a time and may look at the  *)
(* available ring whether or not it has been notified.                     *)
(***************************************************************************)

Chain(head) == LET second == desc[head].next
               IN  <<desc[head], desc[second], desc[desc[second].next]>>

\* A request the device can serve: header, data in the direction of the
\* request, one writable status byte.
WellFormed(c) ==
  /\ c[1].kind = "req" /\ c[1].flags = {"NEXT"}
  /\ c[2].kind = "data" /\ c[2].flags = IF ops[c[1].at].type = "OUT" THEN {"NEXT"} ELSE {"NEXT", "WRITE"}
  /\ c[3].kind = "status" /\ c[3].flags = {"WRITE"}

DevFetch ==
  /\ dev.stage = "idle"
  /\ last_avail # avail.idx
  /\ dev' = [stage |-> "fetched", head |-> AvailId(last_avail)]
  /\ last_avail' = Inc(last_avail)
  /\ UNCHANGED <<mainVars, used_idx, sharedVars, used, kicked, dataVars, isr, sie,
                 trapVars, envVars, plicVars>>

\* The transfer, complete or failed part way, and the status byte.
DevServe ==
  LET c   == Chain(dev.head)
      op  == ops[c[1].at]
      b   == c[2].at
  IN  /\ dev.stage = "fetched"
      /\ WellFormed(c)
      /\ dev' = [dev EXCEPT !.stage = "served"]
      /\ \E d \in Data, st \in {ST_OK, ST_IOERR} :
           /\ st = ST_OK => d = IF op.type = "OUT" THEN mem[b] ELSE disk[op.sector]
           /\ status' = [status EXCEPT ![c[3].at] = st]
           /\ IF op.type = "OUT"
                THEN disk' = [disk EXCEPT ![op.sector] = d] /\ UNCHANGED mem
                ELSE mem' = [mem EXCEPT ![b] = d] /\ UNCHANGED disk
      /\ UNCHANGED <<mainVars, used_idx, info, ops, flag, desc, avail, used, last_avail,
                     kicked, isr, sie, trapVars, envVars, plicVars>>

DevPush ==
  /\ dev.stage = "served"
  /\ dev' = [dev EXCEPT !.stage = "pushed"]
  /\ used' = [idx |-> Inc(used.idx), ring |-> [used.ring EXCEPT ![Slot(used.idx)] = dev.head]]
  /\ UNCHANGED <<mainVars, used_idx, sharedVars, last_avail, kicked, dataVars, isr, sie,
                 trapVars, envVars, plicVars>>

DevRaise ==
  /\ dev.stage = "pushed"
  /\ dev' = [dev EXCEPT !.stage = "idle"]
  /\ isr' = 1
  /\ UNCHANGED <<mainVars, used_idx, sharedVars, last_avail, kicked, used, dataVars, sie,
                 trapVars, envVars, plicVars>>

DevSleep ==
  /\ kicked
  /\ dev.stage = "idle"
  /\ last_avail = avail.idx
  /\ kicked' = FALSE
  /\ UNCHANGED <<mainVars, used_idx, sharedVars, dev, last_avail, used, dataVars, isr, sie,
                 trapVars, envVars, plicVars>>

\* With MSI-X off a configuration change shares the INTx of the queue.
ConfigChange ==
  /\ env > 0
  /\ env' = env - 1
  /\ isr' = 1
  /\ UNCHANGED <<mainVars, used_idx, sharedVars, devVars, dataVars, sie, trapVars, rx, plicVars>>

RxByte ==
  /\ env > 0
  /\ env' = env - 1
  /\ rx' = rx + 1
  /\ UNCHANGED <<mainVars, used_idx, sharedVars, devVars, dataVars, isr, sie, trapVars, plicVars>>

(* The rng driver polls and never reads the ISR status of its device, so   *)
(* the INTx of that device has been asserted since the first rng read.     *)
Level(i) == CASE i = UART0_IRQ     -> rx > 0
              [] i = PCIE_IRQ_PINB -> isr = 1
              [] i = PCIE_IRQ_PINC -> TRUE

Forward(i) ==
  /\ GatewayForward(i, Level(i))
  /\ UNCHANGED <<mainVars, used_idx, sharedVars, devVars, dataVars, isr, sie, trapVars,
                 envVars, plicRegs, claimed>>

-----------------------------------------------------------------------------
(***************************************************************************)
(* The trap handler: handle_external_trap and the interrupt routines it    *)
(* calls.  Interrupts stay off until it returns.                           *)
(***************************************************************************)

InTrap(from, to) ==
  /\ hpc = from
  /\ hpc' = to

Trap ==
  /\ sie
  /\ ExternalInterrupt
  /\ InTrap("none", "claim")
  /\ UNCHANGED <<mainVars, used_idx, sharedVars, devVars, dataVars, isr, sie, irq, envVars, plicVars>>

Routine(i) == CASE i = UART0_IRQ     -> "uart"
                [] i = PCIE_IRQ_PINB -> "isr"
                [] OTHER             -> "complete"

Claim ==
  \E i \in Irqs \cup {NO_IRQ} :
    /\ plic_claim(i)
    /\ irq' = i
    /\ InTrap("claim", Routine(i))
    /\ UNCHANGED <<mainVars, used_idx, sharedVars, devVars, dataVars, isr, sie, envVars, plicRegs>>

\* One round of the loop of UartIsr: a byte read and echoed, or no byte left.
UartIsr ==
  /\ IF rx > 0 THEN InTrap("uart", "uart") /\ rx' = rx - 1
               ELSE InTrap("uart", "complete") /\ UNCHANGED rx
  /\ UNCHANGED <<mainVars, used_idx, sharedVars, devVars, dataVars, isr, sie, irq, env, plicVars>>

\* Mutant: the ISR register is not read.
ClearIsr_unread ==
  /\ InTrap("isr", "drain")
  /\ UNCHANGED <<mainVars, used_idx, sharedVars, devVars, dataVars, isr, sie, irq, envVars, plicVars>>

\* virtio_pci_clear_isr: the read clears the register and drops INTx.
ClearIsr ==
  /\ InTrap("isr", "drain")
  /\ isr' = 0
  /\ UNCHANGED <<mainVars, used_idx, sharedVars, devVars, dataVars, sie, irq, envVars, plicVars>>

\* One round of the loop of virtio_pci_blk_intr.  The store through a null
\* pointer traps again, and the exception path of handle_trap never returns.
Drain ==
  LET b == info[UsedId(used_idx)]
  IN  /\ used_idx # used.idx
      /\ IF b = NULL
           THEN InTrap("drain", "fault") /\ UNCHANGED <<flag, used_idx>>
           ELSE /\ InTrap("drain", "drain")
                /\ flag' = [flag EXCEPT ![b] = 0]
                /\ used_idx' = Inc(used_idx)
      /\ UNCHANGED <<mainVars, info, ops, status, desc, avail, devVars, dataVars, isr, sie,
                     irq, envVars, plicVars>>

DrainEnd ==
  /\ used_idx = used.idx
  /\ InTrap("drain", "complete")
  /\ UNCHANGED <<mainVars, used_idx, sharedVars, devVars, dataVars, isr, sie, irq, envVars, plicVars>>

\* Mutant: the ISR register is read once more, after the ring.
Complete_and_clear ==
  /\ InTrap("complete", "none")
  /\ IF irq # NO_IRQ THEN plic_complete(irq) ELSE UNCHANGED claimed
  /\ isr' = 0
  /\ UNCHANGED <<mainVars, used_idx, sharedVars, devVars, dataVars, sie, irq, envVars,
                 plicRegs, pending>>

Complete ==
  /\ InTrap("complete", "none")
  /\ IF irq # NO_IRQ THEN plic_complete(irq) ELSE UNCHANGED claimed
  /\ UNCHANGED <<mainVars, used_idx, sharedVars, devVars, dataVars, isr, sie, irq, envVars,
                 plicRegs, pending>>

HandlerStep == Claim \/ UartIsr \/ ClearIsr \/ Drain \/ DrainEnd \/ Complete

-----------------------------------------------------------------------------
\* virtio_pci_blk_init has zeroed and published the rings; UartInit has run;
\* the disk and the caller's buffers hold anything.
Init ==
  /\ pc = "boot"
  /\ cur \in [buf : Bufs, write : BOOLEAN, sector : Sectors]
  /\ idx = <<0, 0, 0>>
  /\ avail_idx = 0 /\ used_idx = 0
  /\ info = [i \in Slots |-> NULL]
  /\ ops = [i \in Slots |-> [type |-> "IN", sector |-> 0]]
  /\ status = [i \in Slots |-> 0]
  /\ flag = [b \in Bufs |-> 0]
  /\ desc = [i \in Slots |-> Desc("none", 0, {}, 0)]
  /\ avail = [idx |-> 0, ring |-> [i \in Slots |-> 0]]
  /\ used = [idx |-> 0, ring |-> [i \in Slots |-> 0]]
  /\ mem \in [Bufs -> Data]
  /\ disk \in [Sectors -> Data]
  /\ dev = [stage |-> "idle", head |-> 0]
  /\ last_avail = 0
  /\ kicked = FALSE
  /\ isr = 0
  /\ sie = FALSE
  /\ hpc = "none" /\ irq = NO_IRQ
  /\ rx = 0 /\ env = MaxEnv
  /\ PlicReset

DeviceStep == DevFetch \/ DevServe \/ DevPush \/ DevRaise \/ DevSleep

Next ==
  \/ MainStep \/ Caller
  \/ DeviceStep \/ ConfigChange \/ RxByte
  \/ \E i \in Irqs : Forward(i)
  \/ Trap \/ HandlerStep

\* The hart executes instructions, a device that was notified serves what is
\* available, and an asserted line reaches the hart.  Nothing is assumed of
\* the caller, of the environment, or of a device that was not notified.
Fairness ==
  /\ WF_vars(MainStep)
  /\ WF_vars(Trap)
  /\ WF_vars(HandlerStep)
  /\ WF_vars(kicked /\ DevFetch)
  /\ WF_vars(DevServe \/ DevPush \/ DevRaise)
  /\ \A i \in Irqs : WF_vars(Forward(i))

Spec == Init /\ [][Next]_vars /\ Fairness

-----------------------------------------------------------------------------
(***************************************************************************)
(* Properties.                                                             *)
(***************************************************************************)

PCs  == {"boot", "plic", "enable", "idle", "fill", "arm", "ring", "publish",
         "notify", "wait", "clear"}
HPCs == {"none", "claim", "uart", "isr", "drain", "complete", "fault"}

Requests == [buf : Bufs, write : BOOLEAN, sector : Sectors]

\* Every variable keeps its type.
TypeOK ==
  /\ pc \in PCs
  /\ cur \in Requests
  /\ idx \in Slots \X Slots \X Slots
  /\ avail_idx \in Indices /\ used_idx \in Indices /\ last_avail \in Indices
  /\ info \in [Slots -> Bufs \cup {NULL}]
  /\ ops \in [Slots -> [type : {"IN", "OUT"}, sector : Sectors]]
  /\ status \in [Slots -> {ST_OK, ST_IOERR, ST_PENDING}]
  /\ flag \in [Bufs -> {0, 1}]
  /\ desc \in [Slots -> [kind : {"none", "req", "data", "status"}, at : Slots \cup Bufs,
                         flags : SUBSET {"NEXT", "WRITE"}, next : Slots]]
  /\ avail \in [idx : Indices, ring : [Slots -> Slots]]
  /\ used \in [idx : Indices, ring : [Slots -> Slots]]
  /\ mem \in [Bufs -> Data]
  /\ disk \in [Sectors -> Data]
  /\ dev \in [stage : {"idle", "fetched", "served", "pushed"}, head : Slots]
  /\ kicked \in BOOLEAN /\ sie \in BOOLEAN
  /\ isr \in {0, 1}
  /\ hpc \in HPCs /\ irq \in Irqs \cup {NO_IRQ}
  /\ rx \in Nat /\ env \in Nat
  /\ PlicTypeOK

\* Whatever the device has put into the used ring and the handler has not yet
\* drained is the completion of the request rw is waiting for, at most one of
\* it, and blk->info leads from its id to the caller's buffer: the handler
\* never stores through a stale or a null entry.
CompletionIsCurrent ==
  /\ hpc # "fault"
  /\ used_idx # used.idx =>
       /\ pc \in {"notify", "wait"}
       /\ used.idx = Inc(used_idx)
       /\ UsedId(used_idx) = idx[1]
       /\ info[idx[1]] = cur.buf
       /\ flag[cur.buf] = 1

Outstanding == dev.stage \in {"fetched", "served"} \/ last_avail # avail.idx

\* What the device can fetch, or has fetched, is the request in progress: a
\* chain of three descriptors that leads to its header, its buffer in the
\* direction of the transfer, and its status byte.
ChainIntact ==
  Outstanding =>
    LET head == IF last_avail # avail.idx THEN AvailId(last_avail) ELSE dev.head
        c    == Chain(head)
    IN  /\ head = idx[1]
        /\ WellFormed(c)
        /\ c[1].at = head /\ c[2].at = cur.buf /\ c[3].at = head
        /\ ops[head] = [type |-> IF cur.write THEN "OUT" ELSE "IN", sector |-> cur.sector]

\* The three ring indices and the device's own follow each other, at most one
\* request apart, through every wrap of their 16 bits; between requests they
\* agree, and avail_idx has moved three descriptors for each of them.
IndicesInStep ==
  /\ avail.idx \in {last_avail, Inc(last_avail)}
  /\ last_avail = IF dev.stage \in {"fetched", "served"} THEN Inc(used.idx) ELSE used.idx
  /\ used.idx \in {used_idx, Inc(used_idx)}
  /\ pc = "idle" => used_idx = avail.idx /\ avail_idx = (3 * avail.idx) % IdxMod

\* An entry in the used ring that is not yet drained is always announced: the
\* device is about to raise its line, the line is up, or the handler has
\* cleared it and is about to look at the ring.  (Clearing the ISR status
\* after the ring would lose the interrupt.)
NoLostWakeup ==
  used_idx # used.idx => dev.stage = "pushed" \/ isr = 1 \/ hpc = "drain"

\* A source is claimed exactly while the handler serves it: no path through
\* handle_external_trap leaves a gateway shut.
ClaimCompleted ==
  claimed = IF hpc \in {"none", "claim"} THEN {} ELSE {irq} \ {NO_IRQ}

\* The line of the rng device, which nobody clears, never reaches the handler:
\* it would trap for ever.
StuckLineIgnored == PCIE_IRQ_PINC \notin claimed

\* While the device owns a request the driver leaves its header, its
\* descriptors, its status byte, its ring slot and every data buffer alone.
OwnedByDevice ==
  [][Outstanding /\ dev' = dev =>
       /\ UNCHANGED <<ops, desc, status, mem>>
       /\ avail'.ring = avail.ring]_vars

\* virtio_pci_blk_rw returns.
RequestReturns == pc = "fill" ~> pc = "idle"

\* An interrupt of the block device is acknowledged.
InterruptServed == isr = 1 ~> isr = 0

\* Input is read and echoed, whatever the main thread waits for.
InputEchoed == rx > 0 ~> rx = 0

\* rw is one synchronous operation on the disk.
Phase ==
  CASE pc \in {"boot", "plic", "enable", "idle"} -> "idle"
    [] pc \in {"fill", "arm", "ring", "publish"} -> "busy"
    [] pc \in {"notify", "wait", "clear"} ->
         CASE status[idx[1]] = ST_OK    -> "done"
           [] status[idx[1]] = ST_IOERR -> "failed"
           [] OTHER                     -> "busy"

Abstract == INSTANCE SyncDisk WITH phase <- Phase, req <- cur

\* The interleaved driver, device and handler implement SyncDisk.
ImplementsSyncDisk == Abstract!Spec

-----------------------------------------------------------------------------
(***************************************************************************)
(* The inductive invariant behind the safety properties: where a request   *)
(* is, told by the indices, and what the steps so far have written.        *)
(***************************************************************************)

Available ==   \* published, not yet fetched
  /\ dev.stage \in {"idle", "pushed"}
  /\ avail.idx = Inc(last_avail) /\ used.idx = last_avail /\ used_idx = last_avail
  /\ AvailId(last_avail) = idx[1]
  /\ flag[cur.buf] = 1

InService ==   \* fetched, not yet in the used ring
  /\ dev.stage \in {"fetched", "served"}
  /\ last_avail = avail.idx /\ avail.idx = Inc(used.idx) /\ used_idx = used.idx
  /\ dev.head = idx[1]
  /\ flag[cur.buf] = 1

Returned ==    \* in the used ring, not yet drained
  /\ dev.stage \in {"idle", "pushed"}
  /\ last_avail = avail.idx /\ used.idx = avail.idx /\ avail.idx = Inc(used_idx)
  /\ UsedId(used_idx) = idx[1]
  /\ flag[cur.buf] = 1

Drained ==     \* nothing under way
  /\ dev.stage \in {"idle", "pushed"}
  /\ last_avail = avail.idx /\ used.idx = avail.idx /\ used_idx = avail.idx

InFlight == pc \in {"notify", "wait"}

Flow ==
  /\ IF InFlight THEN Available \/ InService \/ Returned \/ Drained ELSE Drained
  /\ pc = "publish" => AvailId(avail.idx) = idx[1]
  /\ pc \in {"ring", "publish"} \/ InFlight => info[idx[1]] = cur.buf
  /\ pc \in {"ring", "publish"} => flag[cur.buf] = 1
  /\ avail_idx = IF pc \in {"fill", "arm", "ring", "publish"}
                   THEN (3 * Inc(avail.idx)) % IdxMod
                   ELSE (3 * avail.idx) % IdxMod

\* RwFill's writes to the header and the three descriptors are intact.
Filled ==
  /\ pc # "boot" /\ pc # "plic" /\ pc # "enable" /\ pc # "idle" =>
       idx[1] # idx[2] /\ idx[1] # idx[3] /\ idx[2] # idx[3]
  /\ pc \in {"arm", "ring", "publish"} \/ InFlight =>
       /\ ops[idx[1]] = [type |-> IF cur.write THEN "OUT" ELSE "IN", sector |-> cur.sector]
       /\ desc[idx[1]] = Desc("req", idx[1], {"NEXT"}, idx[2])
       /\ desc[idx[2]] = Desc("data", cur.buf, DataFlags(cur.write), idx[3])
       /\ desc[idx[3]] = Desc("status", idx[1], {"WRITE"}, 0)

\* The status byte of the request is pending until the device has served it,
\* and settled from then on.
StatusByte ==
  /\ pc \in {"arm", "ring", "publish"} => status[idx[1]] = ST_PENDING
  /\ InFlight => (status[idx[1]] = ST_PENDING <=> dev.stage = "fetched" \/ last_avail # avail.idx)
  /\ pc = "clear" => status[idx[1]] # ST_PENDING

\* The handler is where the claimed source sends it, only the two sources the
\* driver enabled can be claimed, and the null pointer is never followed.
HandlerState ==
  /\ hpc # "fault"
  /\ hpc = "uart" => irq = UART0_IRQ
  /\ hpc \in {"isr", "drain"} => irq = PCIE_IRQ_PINB
  /\ irq # PCIE_IRQ_PINC
  /\ enable \subseteq {EnableBit(UART0_IRQ), EnableBit(PCIE_IRQ_PINB)}

IInv == TypeOK /\ Flow /\ Filled /\ StatusByte /\ HandlerState /\ NoLostWakeup /\ ClaimCompleted
=============================================================================
