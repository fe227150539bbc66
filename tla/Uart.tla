-------------------------------- MODULE Uart --------------------------------
(***************************************************************************)
(* driver/ns16550.c and the part of the 16550 it programs: the divisor     *)
(* latch that hides two of the registers, the two FIFOs, and UartPutc,     *)
(* which polls the transmitter and then writes to it.  The main thread and *)
(* the trap handler both call UartPutc, and the handler may run between    *)
(* the poll and the write of the main thread.                              *)
(***************************************************************************)
EXTENDS Integers, Sequences

CONSTANT FifoDepth   \* places in either FIFO once it is enabled: 16

ASSUME FifoAssumption == FifoDepth \in Nat /\ FifoDepth >= 2

Callers == {"main", "handler"}
Sources == {"main", "isr", "echo"}   \* who wants a byte on the line

\* Bytes are told apart by their source and a number of their own there.
Bytes == [src : Sources, n : Nat]

VARIABLES
  dlab,     \* LCR bit 7: offsets 0 and 1 are the divisor latch
  divisor,  \* <<DLL, DLM>>
  fifo,     \* FCR bit 0: the FIFOs are enabled
  rdi,      \* IER bit 0: received data interrupts
  tx, rx,   \* what the transmitter and the receiver hold
  putting,  \* caller -> the byte its UartPutc was given, as a sequence
  polled,   \* caller -> has its UartPutc seen the transmitter empty?
  said,     \* source -> bytes it has had for the line so far
  heard     \* source -> the last of its bytes that went out, 0 for noise

uartRegs == <<dlab, divisor, fifo, rdi>>
uartVars == <<uartRegs, tx, rx, putting, polled, said, heard>>

THR == 0 \* also DLL
IER == 1 \* also DLM
FCR == 2
LCR == 3

LCR_8N1  == 3
LCR_DLAB == 128
IER_RDI  == 1
FCR_ALL  == 7   \* UART_FCR_FIFO_EN | UART_FCR_RXSR | UART_FCR_TXSR

Depth == IF fifo THEN FifoDepth ELSE 1
THRE  == tx = << >>
DR    == rx # << >>
UartLevel == rdi /\ DR

\* A byte written to THR: lost if the transmitter is full, or if the divisor
\* latch is open and takes it.
Transmit(c) ==
  /\ tx' = IF ~dlab /\ Len(tx) < Depth THEN Append(tx, c) ELSE tx
  /\ divisor' = IF dlab THEN <<c.n, divisor[2]>> ELSE divisor
  /\ UNCHANGED <<dlab, fifo, rdi, rx, said>>

\* A store of v to the register at that offset.
Store(offset, v) ==
  \/ /\ offset = THR /\ dlab
     /\ divisor' = <<v, divisor[2]>>
     /\ UNCHANGED <<dlab, fifo, rdi, tx, rx, said>>
  \/ /\ offset = IER /\ dlab
     /\ divisor' = <<divisor[1], v>>
     /\ UNCHANGED <<dlab, fifo, rdi, tx, rx, said>>
  \/ /\ offset = IER /\ ~dlab
     /\ rdi' = (v % 2 = IER_RDI)
     /\ UNCHANGED <<dlab, divisor, fifo, tx, rx, said>>
  \/ /\ offset = FCR
     /\ fifo' = (v % 2 = 1)
     /\ rx' = IF (v \div 2) % 2 = 1 THEN << >> ELSE rx
     /\ tx' = IF (v \div 4) % 2 = 1 THEN << >> ELSE tx
     /\ said' = [said EXCEPT !["echo"] = Len(rx')]
     /\ UNCHANGED <<dlab, divisor, rdi>>
  \/ /\ offset = LCR
     /\ dlab' = (v >= LCR_DLAB)
     /\ UNCHANGED <<divisor, fifo, rdi, tx, rx, said>>

\* The stores of UartInit, in order.
UartInit ==
  << <<IER, 0>>, <<LCR, LCR_DLAB>>, <<THR, 1>>, <<IER, 0>>, <<LCR, LCR_8N1>>,
     <<FCR, FCR_ALL>>, <<IER, IER_RDI>> >>

\* UartPutc, between whose two halves the handler may run.
Putc(who, c) == putting' = [putting EXCEPT ![who] = <<c>>]

Idle(who) == putting[who] = << >>

\* Mutant: the transmitter is not waited for.
PutcPoll_not(who) ==
  /\ ~Idle(who) /\ ~polled[who]
  /\ polled' = [polled EXCEPT ![who] = TRUE]
  /\ UNCHANGED <<uartRegs, tx, rx, putting, said, heard>>

\* The loop ends when LSR shows the transmitter empty.
PutcPoll(who) ==
  /\ ~Idle(who) /\ ~polled[who]
  /\ THRE
  /\ polled' = [polled EXCEPT ![who] = TRUE]
  /\ UNCHANGED <<uartRegs, tx, rx, putting, said, heard>>

PutcStore(who) ==
  /\ polled[who]
  /\ Transmit(putting[who][1])
  /\ putting' = [putting EXCEPT ![who] = << >>]
  /\ polled' = [polled EXCEPT ![who] = FALSE]
  /\ UNCHANGED heard

UartPutc(who) == PutcPoll(who) \/ PutcStore(who)

\* One round of the loop of UartIsr with a byte to read: UartGetc takes it
\* and UartPutc is called to echo it.
UartEcho ==
  /\ DR
  /\ rx' = Tail(rx)
  /\ Putc("handler", rx[1])
  /\ UNCHANGED <<uartRegs, tx, polled, said, heard>>

-----------------------------------------------------------------------------
(***************************************************************************)
(* The line.                                                               *)
(***************************************************************************)

\* A byte sent with another divisor than that of 115200 baud is noise.
Shift ==
  /\ tx # << >>
  /\ tx' = Tail(tx)
  /\ heard' = [heard EXCEPT ![tx[1].src] = IF divisor = <<1, 0>> THEN tx[1].n ELSE 0]
  /\ UNCHANGED <<uartRegs, rx, putting, polled, said>>

\* Input that finds the receiver full is lost before the driver can see it.
Receive ==
  /\ Len(rx) < Depth
  /\ rx' = Append(rx, [src |-> "echo", n |-> said["echo"] + 1])
  /\ said' = [said EXCEPT !["echo"] = @ + 1]
  /\ UNCHANGED <<uartRegs, tx, putting, polled, heard>>

\* As the firmware leaves it.
UartReset ==
  /\ dlab = FALSE /\ fifo = FALSE /\ rdi = FALSE
  /\ divisor = <<2, 1>>
  /\ tx = << >> /\ rx = << >>
  /\ putting = [w \in Callers |-> << >>]
  /\ polled = [w \in Callers |-> FALSE]
  /\ said = [s \in Sources |-> 0]
  /\ heard = [s \in Sources |-> 0]

UartTypeOK ==
  /\ dlab \in BOOLEAN /\ fifo \in BOOLEAN /\ rdi \in BOOLEAN
  /\ divisor \in Nat \X Nat
  /\ tx \in Seq(Bytes) /\ rx \in Seq(Bytes)
  /\ Len(tx) <= Depth /\ Len(rx) <= Depth
  /\ putting \in [Callers -> Seq(Bytes)]
  /\ polled \in [Callers -> BOOLEAN]
  /\ said \in [Sources -> Nat] /\ heard \in [Sources -> Nat]

\* Everything on its way to the line.
OnTheWay == tx \o putting["main"] \o putting["handler"] \o rx

\* Of the bytes of a source, those up to gone are gone and those up to all are
\* in q, each once and in their order.
Numbered(q, source, gone, all) ==
  LET of == {k \in DOMAIN q : q[k].src = source}
  IN  /\ gone <= all
      /\ {q[k].n : k \in of} = gone + 1 .. all
      /\ \A i, j \in of : i < j => q[i].n < q[j].n

\* Nothing is lost, doubled, garbled or overtaken between its source and the
\* line: what a source has had for it has gone out or is on its way.
InOrder(source) == Numbered(OnTheWay, source, heard[source], said[source])
=============================================================================
