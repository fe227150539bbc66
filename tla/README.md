# A TLA+ model of virtio-pci-simple_driver_demo

The repository is a bare-metal RISC-V program for QEMU's `virt` machine. It
enumerates the PCIe bus, places the BARs of a virtio-blk and a virtio-rng
device, initialises both through the virtio 1.0 PCI transport, and then reads
random numbers (polling) and reads and writes disk sectors (line interrupt
through the PLIC). This directory models it, checks the models with TLC and
proves what matters most with TLAPS. `PROJECT.json` maps every definition that
stands for code to its lines, and lists runs, mutants, theorems and hazards.
Source paths below are relative to `src/src/`.

## 1. Inventory

| component | state | operations | talks to |
|---|---|---|---|
| block driver, requests (`driver/virtio/virtio-pci-blk.c:143-229`) | `gs_virtio_blk`: `info`, `ops`, `status`, `used_idx`, `avail_idx`; the caller's `blk_buf.flag` | `virtio_pci_blk_rw` (main thread), `virtio_pci_blk_intr` (trap handler) | queue memory shared with the device; notify and ISR registers |
| block driver, initialisation (`:23-141`) | device status, features, `capacity`, `qsize` | `virtio_pci_blk_init`, `virtio_pci_blk_cfg` | probe, capabilities, common configuration, PLIC |
| split virtqueue (`virtio-ring.c`) | descriptor table, available and used ring | `virtio_vring_size`, `_init`, `_fill_desc`, `_add_avail` | called by both drivers, read by the device |
| virtio-pci transport (`virtio-pci.c`) | addresses of the four configuration areas | capability walk, register accessors, notify, ISR read | PCI configuration space, BAR memory |
| PCI (`driver/pcie/pci.c`) | allocation offset; the devices' BARs and command register | `pci_device_probe`, `pci_alloc_mmio` | ECAM |
| rng driver (`virtio-pci-rng.c`) | `gs_virtio_rng` | `virtio_pci_rng_init`, `_read` (polled) | as the block driver, without interrupts |
| trap handling (`cpu/start.S`, `cpu/trap-handler.c`) | hart's interrupt enables, the claimed source | `trap_entry`, `handle_trap`, `handle_external_trap` | PLIC, UART and block driver |
| PLIC (`platform/plic.c`) | priorities, enables, threshold; gateways | `plic_init`, `_enable`, `_claim`, `_complete` | trap handler, drivers |
| UART (`driver/ns16550.c`) | receive and transmit FIFO, interrupt enable | `UartInit`, `UartPutc`, `UartGetc`, `UartIsr` | printf, trap handler |
| printf (`library/printf/printf.c`) | the format, the arguments, the output gadget | `format_string_loop`, `print_integer`, the entry points | every component that prints; the UART |
| platform and test program (`platform/riscv-virt.c`, `main.c`) | the tests' buffers | `plt_virt_init`, the three tests, `shutdown` | everything above |

Not part of the running program: the APLIC and IMSIC drivers (not in the
Makefile's `SRCS`), the virtio-mmio transport and its two drivers (commented out
from end to end), the floating-point half of printf (configured away), build and
debugger files.

What is hard about it:

* *Three actors.* The main thread fills a request and spins on `b->flag`; the
  device reads the queue whenever it likes; the trap handler runs between any
  two instructions of the main thread, for the disk, for the UART, or for
  nothing. The flag can only be cleared by the handler, so any lost interrupt
  or undrained entry hangs the program.
* *Level-triggered interrupts.* ISR status, line, gateway, claim and completion
  are five places where an interrupt may be forgotten or repeated. One line
  (that of the polled rng device) stays asserted for ever.
* *Indices.* Five counters wrap at 2^16, three descriptors at a time, over a
  queue of 128.
* *Ignored failures.* I/O errors, failed capability walks and failed
  initialisations are printed and forgotten.
* *Address arithmetic.* Layout of the queue and of the BARs; the range check of
  a request in 32 bits.
* *A console for two.* The main thread and the handler print through one
  transmitter, each polling before it writes.
* *A parser with untyped arguments.* printf walks a format and a list of
  arguments side by side and cuts what it prints to two different buffers.

## 2. Modules

| module | what it is | proofs in |
|---|---|---|
| `RingIndex` | the index arithmetic of a split queue | `RingIndexProofs` |
| `Plic` | the interrupt controller: the four operations of `plic.c`, the gateways | |
| `VirtioBlk` | main thread, device, trap handler, interrupt lines; EXTENDS the two above | `VirtioBlkProofs` |
| `SyncDisk` | what `virtio_pci_blk_rw` promises: one synchronous disk operation | |
| `Vring` | `virtio_vring_size` and `virtio_vring_init` | `VringProofs` |
| `PciProbe` | `pci_device_probe` and `pci_alloc_mmio`, one register write at a time | |
| `VirtioCaps` | both probes in turn, each with its `virtio_pci_read_caps`; EXTENDS `PciProbe` | `VirtioCapsProofs` |
| `VirtioInit` | the handshake of `virtio_pci_rng_init` and `virtio_pci_blk_init` behind the probe | `VirtioInitProofs` |
| `VirtioRng` | `virtio_pci_rng_read`: the polled queue; EXTENDS `RingIndex` | `VirtioRngProofs` |
| `Uart` | `ns16550.c`: register stores, `UartPutc` in two halves, FIFOs, divisor latch | `SystemProofs` |
| `BlkRange` | the range check of `virtio_pci_blk_rw` and the capacity it uses | `SystemProofs` |
| `System` | the whole program, from `UartInit` to `shutdown`, on any machine; EXTENDS `Uart`, `Plic`, `BlkRange` | `SystemProofs` |
| `PrintInteger` | `print_integer` and its finalisation: what is in the buffer, in order | `PrintfProofs` |
| `Printf` | `format_string_loop`, one conversion part per step, with the output gadgets; EXTENDS `PrintInteger` | `PrintfProofs` |
| `MC*` | constants for TLC | |

In the order the program runs them: `VirtioCaps` finds a device and its
registers, `VirtioInit` talks to these registers until the device is live,
`Vring` lays out the queue memory the initialisation hands over, and
`VirtioRng` and `VirtioBlk` use the queue. Each starts where the one before it
has succeeded. `System` puts them in the order of `main`, with each
device reduced to what its module has shown of it, and adds what only shows
there: machines that lack a device, failures nobody looks at, and the console.

### VirtioBlk and the code

State: `avail_idx`, `used_idx`, `info`, `ops`, `status` are the fields of
`gs_virtio_blk`; `flag` is `b->flag` of each caller's buffer; `idx` and `cur`
are the locals of `virtio_pci_blk_rw`; `desc`, `avail`, `used` are the queue
memory; `mem` and `disk` the data; `isr` the ISR status and with it the level
of the device's INTx; `sie` the hart's enables; `pc`, `hpc` the control points
of main thread and handler; `dev`, `last_avail`, `kicked` the device.

Main thread, one action per stretch of code no other actor can see into:

    EnableTraps InitPlic EnableBlkIrq   interrupts_init, the end of _blk_init
    RwCall / RwReject                   arguments, range check, three indices
    RwFill                              header, three descriptors, status byte
    RwArm                               b->flag = 1, info[idx[0]] = b
    AddAvailRing, AddAvailIdx           the two halves of virtio_vring_add_avail
    RwNotify                            virtio_pci_set_queue_notify
    RwWait, RwReturn                    the polling loop, info[idx[0]] = NULL

RwFill is one step although it is a dozen stores: the device looks at none of
them before the available index moves, and the handler at none of them at all
(`info` and `flag`, which it does look at, are stored in RwArm, `status` is
only printed). Handler: `Trap` (trap_entry, reached between two steps of the
main thread), `Claim`, `UartIsr` or `ClearIsr` and `Drain`/`DrainEnd`,
`Complete`; interrupts stay off until it has returned. A null entry in `info`
leads to the control point "fault": the store traps inside the handler and
`handle_trap` loops for ever (`trap-handler.c:31`).

The device is external: it takes one request at a time, notified or not,
transfers the data or fails part way, writes status byte, used entry and ISR
status in this order, and may change its configuration at any time. It only
serves what it can parse (`WellFormed`). A gateway may forward an asserted
line at any time, and again only after the completion of the last request.

Choices worth knowing:

* The model starts with the queue set up and the device live, and still
  interleaves the three remaining steps (hart enables, `plic_init`,
  `plic_enable`) with everything else. In the code `interrupts_init` runs long
  before the queue exists; nothing the handler can do in between touches the
  queue, since the disk's source is masked until the last of the three steps.
* A fence (`dsb`) or a call into another file stands between any two of the
  driver's device-visible steps; the model therefore keeps them in program
  order. The `dsb` of this code has no memory clobber, but the stores it
  separates are volatile, and the plain ones (`flag`, `info`, `status`) have a
  call to a function the compiler cannot see into on either side.
* The fences order stores. The handler's loads of `used->idx` and of the ring
  entry (`virtio-pci-blk.c:213-214`) have none between them; `VirtioBlk` keeps
  them in program order. What may happen otherwise is shown by `VirtioRng`,
  whose polling loop has the same pair of loads.
* Requests are one sector long; the u32 arithmetic of the range check is in
  `BlkRange`.
* Every index counts modulo `IdxMod`, so runs go on for ever: the number of
  requests is not bounded. The only bounded quantity is `MaxEnv`, the number
  of UART bytes and configuration changes that arrive.
* The line of the rng device is asserted from the start. In the code it rises
  with the first rng read, before the disk is initialised.

### Plic

`enable` is the set of (word, bit) pairs that are 1, because `plic_init`
replaces a word and `plic_enable` sets one bit. All three sources of the
machine that can rise are present. `plic_claim` includes the hardware's answer:
highest priority, then lowest number, or 0.

### Vring

The arguments are constants' elements, the result is `struct vring` and the
return value. `LayOut` fills the structure in before the end check, as the code
does, so it is also set after -2. Queue sizes are those a u16 register can
hold; no u32 sum overflows for them.

### PciProbe and VirtioCaps

`machine` is the bus (position to function, with its BARs and capabilities),
`memory` the command registers' decode bits, `bar` the BAR registers, `s_off`
the allocator's offset. `scan`, `i`, `mem_addr`, `ret` are the probe's locals,
`cap` the position in the capability list, `hw` the addresses the two drivers
keep. `Skip`, `Found`, `EndScan` are the scan; `SizeLow`, `SizeHigh`,
`NoSuchBar`, `PlaceLow`, `PlaceHigh`, `EndBars` the body of the BAR loop;
`ReadCap` is one round of the capability walk and keeps the last capability of
a type. Each BAR write is a step of its own, because decoding is on from the
start (`pci.c:84`): the device answers at whatever the BAR holds on the way.

Addresses are scaled: a page is 4, a BAR register holds 2^10 values. What the
code does with the numbers (rounding to pages, complement in 32 or 64 bits,
low bits that read as 0) does not depend on the scale. There are two buses of
which the second is never scanned, since the loop ends at `bus < 255`. Of what
answers, only the host bridge's window is visible to the hart. A probe that
finds nothing ends the model: the rng test then reads through a null
descriptor table, the block test returns.

### VirtioInit

One action per register accessor, for either driver (`who`); `device` is what
the device is like: the features it offers, the maximum size of queue 0,
whether it accepts a subset, whether it `lags`: its queue, in use before the
reset, still reads as enabled after it, for longer than the driver takes to look.
It starts fresh, and then does not lag, or as firmware that has booted from it
left it. `ret` is what the initialisation returned, 1 while it runs. Only the
main thread touches these registers, so an accessor is one step.

### VirtioRng

`Call`, `FillDesc`, `AddAvailRing`, `AddAvailIdx`, `Notify`, `Poll`, `Return`
are `virtio_pci_rng_read` in order. `LoadEarly` is the load of the entry's
length overtaking the load of `used->idx`; RISC-V's memory model allows it, for
two loads that only a branch connects are not ordered, and so does the C of
`virtio-pci-rng.c:147`, where the second load is a plain one. `reorder`
switches it. The device answers with any length up to the buffer's.

### Uart, BlkRange and System

`Uart` holds the registers `UartInit` programs (`Store` is one store, with the
divisor latch that hides the interrupt enable register and the transmitter) and
the two FIFOs. `PutcPoll` and `PutcStore` are the two halves of `UartPutc`:
the handler may run between them and call `UartPutc` as often as it likes.
Bytes are told apart by their source and a number, so that a lost, doubled,
overtaken or garbled byte shows (`InOrder`). Input that finds the receive FIFO
full is lost before the driver can see it and is not counted.

`BlkRange` is the arithmetic of `virtio-pci-blk.c:132` and `147-154` on integers
of `Word` values: the sum of two u32 wraps, the capacity keeps the low half of
64 bits, sectors are rounded down. `Exact` says what that comes to, the wrap
included: a request of whole sectors is let through exactly when it ends inside
the disk, or, its sum having wrapped, at most `Word` bytes behind the disk's end.
None of the program's own requests wraps (`SpaceAssumption`).

`System`: `pc` is main's next step, `n` the round of its loop; `b` is the
request in `struct blk_buf`, and `b.to` where its caller goes on; `buf` is
`read_buf` in two halves, of which only the contents count ("pattern", "zeros",
"other"). A printed line is one byte: what matters is that main waits for the
transmitter and can be interrupted there. `rng` and `blk` are what kind of
device there is: absent, without a usable capability list, refusing the
handshake, or working. The rng's read and the disk's request are the
abstractions `VirtioRng` and `SyncDisk` stand for, plus a disk that fails a
request part way or without trace (`erred`), and one that changes its size
(`Resize`; `smallest` and `largest` are history: the extremes it has shown, so
that `SizeKept` says it has always shown the same). An access through a null
pointer is the control point "fault": the exception path of `handle_trap` prints and loops with interrupts off. Without
an rng, or with one that refuses, the program ends there, for
`virtio_pci_rng_test` does not look at what its initialisation returns
(`main.c:62`). The trap handler is that of `VirtioBlk`, with its prints. The
line of the rng, which stays asserted, is left to `VirtioBlk`.

### PrintInteger and Printf

The configuration is the one the Makefile builds (`printf_config.h`): no
floating point, no `%n`, long long and write-back of the length on. Characters
are one-character strings, a format is a sequence of them; `Inputs` are built
from items (text and conversions) that say at once how a format is written and
which arguments go with it, and the reference (`Standard`, `Rendering`) is
written over items, not over the format. `PrintInteger` keeps the reversed
buffer and its fixed size (numbers are counted off with `Power`, a recursive
function, where the code divides); `Put` is the write that every one of its five loops
performs under its own bound. `Printf` has one action per part of a
conversion: one round of `parse_flags` per flag, `Width`, `Precision` with one
round of `atou_` per digit, `Length`, then the specifier (`Integer`, `Character`,
`String`, `Pointer`, `OtherSpecifier`). `taken` are the types of the arguments
fetched, in order. `va_arg` yields the next argument where the caller passed one
of the type asked for; where it did not, the C standard leaves the behaviour
undefined and the model takes any value of `Garbage`. No input of `MCPrintf` gets
there (`ArgumentsInStep`); the proofs cover it.

An item's flags are a sequence, in any order and with repetitions. `ProperInputs`
is what the caller has to see to, in the words of the standard (7.21.6.1): each
conversion is a defined one and has its arguments, of its types; the tail stops
where the loop looks for the end. It is an assumption of the theorems about what
is printed and which arguments are taken, not of the model, and TLC evaluates it
on the inputs of `MCPrintf`. Two cases the library is free to choose are left out
of it: "%p" of a null pointer, and a null string with the flag 0.

Left out on purpose, because the code leaves the standard or the string there:

* a negative precision as an argument is taken as 0, not as omitted
  (`printf.c:1088`; `PlainPrecision` excepts it from `PrintsFormat`);
* numbers that do not fit 32 characters with their padding are cut
  (`printf.c:549`; `PrintsFormat` is about those that fit, `BufferHolds`
  about all), and "%#.0b" of 0 gets the prefix of a number that is not zero
  (`printf.c:530-543`; `Printable`);
* a format that ends inside a conversion: `parse_flags`, the digits of a width
  and `I16` move on without a look for the end, and the default case prints the
  terminator and steps past it (`printf.c:1345`). What it reads there is not
  part of the string; the model stops at the first character behind it;
* `%X`, which differs from `%x` in the case of its letters (`printf.c:1158`);
* a width, a precision or a position in the output of 2^32 or more: the code's are
  u32, the model's are numbers.

## 3. Runs

| run | question | instance |
|---|---|---|
| `blk_safety` | do the three actors ever step on each other? | queue of 4, indices mod 4, one environment event |
| `blk_refinement` | is `rw` a synchronous disk operation? | queue of 3, indices mod 6, two sectors, two buffers, two data |
| `blk_liveness` | does every request return, every interrupt get acknowledged, every input byte get echoed? | queue of 3, indices mod 3, two environment events |
| `vring` | do the areas fit, for every alignment and size? | 6 buffers, 64 lengths, 24 queue sizes |
| `pci_setup` | does each driver end up with registers of its own device, and no other? | rng and disk in any two slots, on the bus that is never scanned too, each with and without an MSI-X BAR and an I/O BAR |
| `pci_bars` | do BARs share addresses? (they do) | as above |
| `init` | is a device started only when completely set up, and every suitable one started? | both drivers; offers, queue sizes around 8 and 128, fresh or left running, with or without lag and refusal |
| `init_layout` | is the packed ring refused? (it is not) | as above |
| `rng` | do indices and slots stay in step, does every call return, and is what it returns the device's answer? | queue of 4, indices mod 8, harts with loads in and out of order |
| `rng_reorder` | is it the answer on a hart that reorders loads? (it is not) | as `rng` |
| `system` | does the program come to its end, test what it claims to test, and print everything? | ten machines, FIFOs of 2, sectors of 4 bytes, u32 of 5 bits, one rng and two disk rounds, one byte of input or change of size |
| `printf` | is the output what the C standard says, for each kind of destination? | 18397 calls: 8-bit long, buffer of 6 characters, arrays of 0 to 24; see `MCPrintf` |

Safety properties of `VirtioBlk`: `CompletionIsCurrent` (the handler drains
nothing but the completion `rw` waits for and never stores through a null
pointer), `ChainIntact` and `OwnedByDevice` (the device sees exactly the chain
of the current request, and no driver step touches what it owns),
`IndicesInStep` (all five counters through every wrap), `NoLostWakeup` (an
undrained entry always has an interrupt on its way), `ClaimCompleted` (no
gateway is left shut), `StuckLineIgnored` (the line that never falls is never
claimed). `ImplementsSyncDisk` is the refinement, liveness included: `disk` and
`mem` are themselves, the phase is read off `pc` and the status byte of the
current head.

`VirtioCaps`: `DevicesDisjoint` (never do two devices answer at one address,
also not while one is being probed), `AreasReachable` (every address a driver
has kept belongs to its own device, at the offset a capability gave, also
during later probes), `ProbeFinds`, `SetupEnds`. `VirtioInit`: `StartedIsSetUp`
(DRIVER_OK only with features agreed, queue sized, placed and enabled, MSI-X
off), `FailureIsInert` (the five error returns leave a device that touches no
memory), `AgreedFeatures`, `ResultFitsDevice` (the function returns, and its result
tells what the device is like: it refuses, still shows its queue in use after the
reset, has no queue or too short a one, or can be used, and only then is it
started). `VirtioRng`: `RingInStep` (what the device can fetch is the descriptor of
the running call, in the slot of its number,
`virtio-pci-rng.c:124`, and all counters agree), `OrderedReturnsAnswer`,
`ReadReturns`.

`System`: `NothingLost` (every byte printed or echoed goes out once, whole and
in order, whoever interrupts whom), `PassedIsStored` ("passed!" only if the
disk holds the pattern), `GoodDiskPasses` (a disk that fails nothing and keeps its
size passes exactly when the low 32 bits of its sectors are enough: a disk of 2^32
sectors is large enough and fails), `RangeIsExact` (the capacity in use is that of
the disk, if it fits and was not changed, and `Exact` holds of it for every
pair of an address and a length), `RequestFits` (the disk is only asked for what it
has had, and only once it is live), `Finishes` (main reaches `shutdown` on every
machine whose rng works and whose disk has capabilities, whatever fails, and on
every other one the program runs into the null pointer and stays in the trap
handler). `Printf`: `PrintsFormat`,
`ArgumentsInStep`, `OutputContract` (what `printf.h` promises of lengths,
terminators and arrays), `BufferHolds`, `Terminates`. A module's type invariant is a conjunct of one of its properties
where it has no line of its own. `IInv` in `blk_safety`, `rng` and `init` is the
inductive invariant of the proofs.

Three runs are expected to find a violation, and do:

* `pci_bars`: `pci_alloc_mmio` rounds sizes to pages but aligns no address
  (`pci.c:239-246`). A 16 KiB BAR placed behind a 4 KiB one loses its low address
  bits and covers its neighbour. The two drivers are unharmed
  (`AreasReachable`): what is covered is the MSI-X table of the same device,
  which they do not use, and BARs of two devices never meet.
* `init_layout`: the features the block driver clears are all below bit 32
  (`virtio-pci-blk.c:51-58`), so RING_PACKED is accepted where it is offered,
  and the device would look for a packed ring in memory laid out as a split one.
* `rng_reorder`: with the entry loaded before the index, a call returns the
  length of an earlier turn of the ring, or 0.

Why the bounds are enough. One request is in flight at a time, so the indices
of two requests that follow each other decide everything; with an index
modulus equal to the queue size every ring position, wrap included, is visited,
and the proofs hold for every queue size of at least 3 that divides the
modulus. With 4 descriptors, three at a time, chains start at every slot and
straddle the end of the table; with 3 every chain reuses the slots of the one
before. One environment event is enough to bring the handler in at any step of
a request with nothing to drain; the liveness run has two, so that an arrival
meets the service of another. The refinement run needs no environment: its
properties are about data, and two data, buffers and sectors tell a wrong
direction, a wrong buffer and a wrong sector apart; a call with sector 2 is one
past the end.

`Vring`'s lengths are multiples of the page plus -1, 0, 1 and 4088, which puts
the end check on either side of its boundary; queue sizes include 511, 1023 and
2047, for which the element counted too many makes the check refuse a buffer of
exactly `virtio_vring_size` bytes (sizes the virtio specification does not
allow; `SizeSuffices` says that it happens for no others). `avail` is placed behind
`buf`, not behind the aligned `desc`, and for a buffer in the middle of a page the
last descriptors and the available ring can overlap (`virtio-ring.c:35-37`), as far
as both beginning at the same address: buffer 2048 and 128 descriptors are among
the inputs. `DescClearOfAvail` says of every buffer whether they do. Both
drivers pass page-aligned arrays (`virtio-pci-blk.c:16`, `virtio-pci-rng.c:13`), for
which they never do; that the three areas lie one behind the other is what
`AreasInside` says of these, and of every other buffer that all but the first two do.

`VirtioCaps` has one 16 KiB and one 4 KiB BAR per device as QEMU builds them; a
third size would repeat one of the cases (fits its alignment, or does not).
`VirtioInit` has queue sizes 0, one below, equal to and above what each driver
asks for, and offers with and without each bit that a property names.
`System`'s disk rounds are two, so that one follows another and the last differs
from the first; the machines' sizes lie below, at and above what the test needs,
and at and above `Word`; `SpaceAssumption` keeps the test's addresses in u32,
as 16 KiB are. A FIFO of 2 is filled by a byte of main and one of the handler.
`MaxEnv` is 1: one arrival brings the handler in at any step. `Printf`'s
single conversions take every set of flags with widths and precisions below, at
and above the size of the buffer, in every base; its integers have few bits and
its buffer is scaled with them, so that numbers that just fit and just do not
both occur. Pairs and triples of conversions go to arrays shorter than, as long
as and longer than what is printed.
`VirtioRng`'s indices go twice round the ring before they wrap, so a wrap of
the ring and one of the index are told apart; its two lengths differ from the 0
an unwritten entry holds.

Fairness, and why the code justifies it: weak fairness of the main thread's own
steps and of the handler's (a hart executes instructions), of `Trap` (an
enabled, pending interrupt is taken), of each gateway's forwarding (hardware),
and of the device's steps once it was notified. Nothing is assumed of a device
that was not notified, which is why a lost notification hangs the request; of
the caller, who may stop calling; or of the environment. Weak fairness of
`Trap` suffices although the handler disables it: each entry is followed by an
exit, and the main thread advances between two traps because the number of
arrivals is finite (`MaxEnv`). Input that never ends would starve the main
thread in the real program too. `VirtioCaps` and `VirtioInit` are sequential
and have weak fairness of their next step. `VirtioRng` has the driver's steps,
a notified device's fetch, and the completion of what it fetched. `Printf` is
sequential. `System` has main, the handler and `Trap`, the transmitter, the
gateways, and a device that has been notified, each while the machine is on:
after the store to the test finisher nothing runs. Main's progress needs only
weak fairness because arrivals are finite, as in `VirtioBlk`.

## 4. Proofs

The constants are bounded only by the named assumptions of the modules, which
TLC evaluates in the runs. Those that say something: a queue has at least three
descriptors and a size that divides the modulus of the indices (the driver
takes three per request; 128 divides 2^16); FIFOs hold at least two bytes (those
of an NS16550 hold 16); a sector divides 2^32 (`RangeAssumption`); the addresses of
the disk test do not wrap (`SpaceAssumption`); the machines of `VirtioCaps` have BARs as PCI has them and
devices that fit their drivers (below). Everything else, the number of requests, arrivals, rounds,
buffers, sectors and machines, is arbitrary.

`RingIndexProofs`: consecutive indices select consecutive slots through the
wrap (`SlotInc`), an index and its successor differ (`IncDiffers`), three
indices in a row select three slots (`ThreeSlots`), and handing out three
descriptors per request keeps `avail_idx` at three times the request count
modulo the width (`ThreePerRequest`).

`VirtioBlkProofs`: `TypeCorrect`, `Invariant`, and from it
`CompletionCorrect`, `ChainCorrect`, `IndicesCorrect`, `WakeupCorrect`,
`ClaimsCorrect`, `StuckLineCorrect` and `OwnershipCorrect`. None of the safety
properties is inductive alone: `CompletionIsCurrent` says what a used entry is,
but whether the device will only push such entries depends on what it fetched,
and that on what the main thread published. `IInv` therefore says where the
request is at every moment, told by the indices (`Available`, `InService`,
`Returned`, `Drained` in `Flow`), that what `RwFill` wrote is intact while it
matters (`Filled`), and that the handler is where the claimed source sends it
and only enabled sources can be claimed (`HandlerState`). Every action is one
step of the proof, and `blk_safety` checks `IInv` as an invariant.

`RefinementCorrect` is the safety half of `ImplementsSyncDisk`: the initial
states of `VirtioBlk` map to those of `SyncDisk`, and every step of driver,
device, handler or environment maps to a step of the abstract disk or to a
stutter. It needs one more conjunct, `StatusByte`: the abstract phase is read
off the status byte of the current head, so the proof has to know that this
byte is pending exactly until the device has written it, and is not written
again before `rw` returns.

`VirtioRngProofs`: `RingCorrect` and `AnswerCorrect`. `Flow` tells by the
indices alone where the one request is, as for the disk, and where its answer
is (in the device, or in the used entry the driver will read). `InOrder` is the
hypothesis of `OrderedReturnsAnswer` made inductive: on a hart that keeps loads in
order nothing has ever been loaded early. `rng_reorder` shows that without it the
property is false.

`VirtioInitProofs`: `StartedCorrect`, `FailureCorrect`, `FeaturesCorrect` and
`ResultCorrect`, for every offer, set of feature bits, queue size, and state the firmware left the
device in. `StartedIsSetUp` speaks of the last write; `IInv` says what each
earlier point of the function has achieved and that nothing behind it undoes it:
`Handshake` for the status bits on both sides, `Negotiation` for the features
written so far (one word at a time), `QueueState` for the queue, `Outcome` for the
returns. `ResultCorrect` is the safety half of `ResultFitsDevice`; `Foresight` is
what it adds to `IInv`: behind each check of the function the device is one that
passes it, before it nothing has made the device look like another (`Understanding`
for the features, whose agreement depends on what was written in two words).

`VringProofs`: `AreasCorrect` and `DescCorrect`, from rounding lemmas
(`AlignUp`, `AlignMonotone`) and an invariant that says what a return leaves in
the structure. For buffers off a page boundary, `TableClear` compares the bytes
skipped in front of the table with what it has on its last page. `SizeCorrect` and
`EventFieldsCorrect` are about what is left of a page behind a ring: one element
more reaches into the next page for queue sizes of 511 modulo 512 only, and an event
field for none the virtio specification allows (`PowerResidues`).

`PrintfProofs`: `BufferHoldsAlways`, for every value, base, flag set,
width, precision and size of the buffer of `print_integer`. Then the loop
around it, for every format and every list of arguments, those that do not fit
each other included: `BufferCorrect` (what the parser hands to `print_integer`
is always within the bounds that theorem asks for: `Parsed`, for instance a
width from a negative argument has lost its sign) and `OutputCorrect`.
`OutputContract` says what the array looks like at the end; `Output` says what it
looks like before: the characters given so far, up to the size, and untouched
behind. `PutcharKeeps` is the step of both gadgets, `TerminationHolds` the
last write, over the last character or behind it.

`ArgumentsCorrect` is `ArgumentsInStep` and `FormatCorrect` is `PrintsFormat`, for
calls with any number of items, any arguments, widths of the types and size of
the number's buffer; the hypothesis is `ProperInputs`. The argument has three parts.

* *Where the parser is.* A format is a fold over its items (`FlattenSeq`), and so
  are the arguments; `UptoStep` and `UptoPlace` say what such a fold is one item
  further, and where in it an item is found. `Standing(k)` says that the parser is
  in front of the k-th item, within it or behind all, and in each phase (`Within`)
  which characters it has behind it, what they have made of `spec`, and how many
  arguments it has taken: the digits of a width so far, for instance, make the
  number so far (`Partial`). Each action is a lemma (`FlagsStep` ...
  `LetterStep`), which needs to know what the next character can be: no flag
  behind the flags, no digit behind a width, the longest modifier that is there is
  the one that was written (`ModifierFound`). A tail that is cut off is the front
  of some conversion (`TailIs`), so the same lemmas take the parser through it to
  the end. `Parser` adds the types and that the arguments taken are the first of
  those given; it is inductive next to the `IInv` of `OutputCorrect`.
* *What a number prints.* `IntegerStandard`: `print_integer` builds the number from
  the last digit on, into a buffer, and puts the zeros of the precision before it
  knows of a prefix, for which it may take some back. `Body(c, z)` is sign, mark, z
  zeros and digits; each stage of the code is shown to end with such a body
  reversed (`DigitsReversed`, `ZerosOfPrecision`, `ZerosOfWidth`, `PaddedIs`,
  `WithPrefixIs`, `FinishedIs`), and the standard's number is one with as many
  zeros (`StandardBodyIs`). This holds for the numbers that fit (`Printable`).
* *What the format prints.* At its letter, what has been read of a conversion is
  what the standard takes it to mean (`SpecMeans`, `CallIsStandard`), so that each
  conversion prints its item (`LetterPrints`). `Faithful` puts it together: with
  the parser standing at k, what has been given is `Rendering` of the k - 1 items
  before. It also says that all of it are characters, never the terminator, and
  that without a hypothesis on numbers or precisions.

`VirtioCapsProofs`: `TypeCorrect`, `ProbeCorrect` and `AreasCorrect`, for any bus,
number of drivers, page size, word and window. `ProbeFinds` needs `Finding`: what
the scan has left behind it. `AreasReachable` relates an address computed during
one walk to what the registers hold then and ever after, so `IInv` says of every
register what it holds while its BAR is being sized and placed, a half at a time
(`Registers`), that whatever decodes memory is inside the window as far as the
probe has come (`Settled`), that no BAR takes more than its share of the window
(`Window`, without which an address could wrap in the 32-bit write), and that an
address kept is that of the last capability of its area (`Kept`). The sizing
protocol itself is arithmetic: `SizedLow`, `SizedHigh`, `NeededIs`, `PlacedLow`,
`PlacedHigh` say what is left of all ones, and of an address, in a register whose
low bits read as 0, written whole or in halves. `IInv` lives in the proof module;
on the machines of `pci_setup` it holds too. The assumptions are about the machine,
since the code checks none of it, and TLC evaluates them on the machines of the
runs: a memory BAR's size divides the word and a 64-bit BAR has its upper half
behind it (`BarAssumption`); position 0, which the code uses for "not found", is
no driver's device, no driver has two, their BARs take at most their share of the
window, and the last capability of each area lies inside a memory BAR that the
64-bit read of `get_cfg_addr` reads right (`DeviceAssumption`). Where in
the window a BAR ends up, and whether it is aligned, is not assumed.

`DisjointCorrect` is `DevicesDisjoint`. `pci_alloc_mmio` rounds to pages, a register
to the size of its BAR: an address that is not a multiple of the size loses its low
bits and the BAR slides down, over what the window handed out before. How far is
the argument: rounding down to a multiple of the size cannot cross a multiple of
the size, so a BAR can only slide over something that does not end at such a
multiple. `Order` says it of the whole run, next to `IInv`: what belongs to a driver
lies above all that an earlier driver has been given (`Stacked`), the ends of what
one device has been given only rise (`Sorted`), what no probe has touched does not
decode (`Fresh`), and a BAR between its two writes answers nowhere that matters
(`Owned`). The hypothesis is `SizesFit`: BARs small enough for the window, and for
each BAR of an earlier driver's device, it or one behind it is a multiple of every
BAR of a later one. TLC evaluates it on the machines of the runs (`MCVirtioCaps`):
the disk's largest BAR is four pages, behind an rng whose last is four pages too.
`AllDisjointCorrect` is `BarsDisjoint`, which `pci_bars` refutes: true as soon as no
BAR is larger than one before it in the same device (`SizesDescend`), so a table of
one page in front of areas of four is all that goes wrong there.

`SystemProofs`, the console: what the queues do to the order of bytes
(`InOrder`, element by element), and that every step of `UartPutc`, `UartIsr`, the
shift register and the receiver keeps it while the registers are set up; then
the program around it: `ConsoleCorrect` is `NothingLost`. Its
invariant `Line` says that main and the handler each hold at most one byte
between the poll and the store, the handler only while it runs; that after
main's poll the transmitter holds at most the one byte of a handler that has
run since, for which a FIFO of two is needed; and that nothing is printed
before the divisor latch is closed (`Booting`). The order of the two sources
may change, which is why bytes are numbered by source.

`SystemProofs` also has `RangeAlwaysExact`, `RequestsFit` and `PassedCorrect`, for
every width of a u32, sector size, number of rounds, machine and number of
arrivals. The first is arithmetic (`CheckIsExact`, from `DivBelow`: a quotient is
at most c exactly below the next multiple; `WholeLeft`: what a wrapping sum of whole
sectors leaves is whole sectors, since a sector divides 2^32), and `Measured`: the
capacity is what the disk shows, as long as that is not changed. The others need `IInv`: what `rw` has
been called with at each of its three calls (`Called`), that a request is with
the disk or in the used ring only while `rw` waits for it (`Flow`), and which
part of the disk the rounds so far have checked (`Checked`). `PassedIsStored` is
not inductive because of the line in between: a read brings the pattern only if
the disk has it there, and only because the buffer was cleared before; `Checked`
says so half a buffer at a time, for requests that were served in part.
`SpaceAssumption` is used to show that no address of the test wraps.
`GoodDiskCorrect` says which disks pass. For those that do, `Sound` says what a disk
that works has come to in each round (`Progress`): the buffer holds the pattern when
it is written, the disk from then on, and the buffer again once it has been read
back. That no others do is `Admitted`: a round whose read was not let through leaves
the buffer cleared, so every round passed lies within the capacity.

Only model-checked:

* the liveness properties, and with them the fairness half of
  `ImplementsSyncDisk`: beyond the prover.

Every safety property of a passing run is a theorem. The prover takes no induction
theorem with a predicate for a parameter; where a recursive function or a fold has
to be followed (powers, formats, copies), the proofs use `NatSetInduction`, which
is about a set of numbers and comes from the well-foundedness of `<`.

## 5. What could follow

1. A C library's view of printf: `ProperInputs` for formats that end behind flags,
   a width or `I16`, once `printf.c:1345` looks for the terminator there.
2. The fairness half of `ImplementsSyncDisk`, with a prover that takes ENABLED.

## 6. Not modelled

* The APLIC and IMSIC drivers: not in the Makefile's `SRCS`, and all calls are
  commented out. The MMIO transport and its two drivers: comments from the
  first line to the last.
* printf's floating-point conversions, exponents and `%n`: configured away.
* `pci_set_msix` (commented out), `pci_alloc_mmio_prefetch` and
  `pci_alloc_irq_number` (never reached), the setters of `virtio-pci.c` nobody
  calls, `virtio_pci_blk_cfg_isr` and the rng's two handlers (only print, never
  called), `UartOut` (never called).
* What `trap_entry` saves and restores: a fault there is one of instruction
  semantics, not of order. The timer interrupt, which is never enabled.
* Capability lists that loop; those that lack an area are in `System` only as
  a device whose first register access faults.
* The build: `Makefile`, linker script, debugger files.
