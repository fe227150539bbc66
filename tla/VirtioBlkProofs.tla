-------------------------- MODULE VirtioBlkProofs --------------------------
(***************************************************************************)
(* The safety properties of VirtioBlk, for every queue size that divides   *)
(* the modulus of the indices, every disk, and any number of buffers,      *)
(* requests, configuration changes and bytes of input.                     *)
(***************************************************************************)
EXTENDS VirtioBlk, RingIndexProofs

-----------------------------------------------------------------------------
(* Types.                                                                  *)

\* The types hold once the queue is set up.
LEMMA InitType == Init => TypeOK
  <1> SUFFICES ASSUME Init PROVE TypeOK
    OBVIOUS
  <1>1. 0 \in Slots /\ 0 \in Indices /\ 0 \in Sectors
    BY RingAssumption, DiskAssumption DEF Slots, Indices, Sectors
  <1>2. PlicTypeOK
    BY DEF Init, PlicReset, PlicTypeOK
  <1>3. desc \in [Slots -> [kind : {"none", "req", "data", "status"}, at : Slots \cup Bufs,
                            flags : SUBSET {"NEXT", "WRITE"}, next : Slots]]
    BY <1>1 DEF Init, Desc
  <1> QED
    BY <1>1, <1>2, <1>3, EnvAssumption
    DEF Init, TypeOK, PCs, HPCs, Requests, ST_OK, ST_IOERR, ST_PENDING, NO_IRQ

\* The main thread keeps them.
LEMMA MainType == ASSUME TypeOK, MainStep PROVE TypeOK'
  <1> USE DEF TypeOK, OnMain, PCs, mainVars, sharedVars, devVars, dataVars, trapVars, envVars, plicVars
  <1>1. CASE EnableTraps
    BY <1>1 DEF EnableTraps, PlicTypeOK
  <1>2. CASE InitPlic
    BY <1>2 DEF InitPlic, plic_init, PlicTypeOK, EnableBit, UART0_IRQ, Irqs
  <1>3. CASE EnableBlkIrq
    BY <1>3 DEF EnableBlkIrq, plic_enable, PlicTypeOK, EnableBit, PCIE_IRQ_PINB, Irqs
  <1>4. CASE RwFill
    <2>1. ops' \in [Slots -> [type : {"IN", "OUT"}, sector : Sectors]]
      BY <1>4 DEF RwFill, Requests
    <2>2. desc' \in [Slots -> [kind : {"none", "req", "data", "status"}, at : Slots \cup Bufs,
                               flags : SUBSET {"NEXT", "WRITE"}, next : Slots]]
      <3>1. 0 \in Slots
        BY RingAssumption DEF Slots
      <3> QED
        BY <1>4, <3>1 DEF RwFill, Requests, Desc, DataFlags
    <2>3. status' \in [Slots -> {ST_OK, ST_IOERR, ST_PENDING}]
      BY <1>4 DEF RwFill
    <2> QED
      BY <1>4, <2>1, <2>2, <2>3 DEF RwFill, PlicTypeOK
  <1>5. CASE RwArm
    BY <1>5 DEF RwArm, Requests, PlicTypeOK
  <1>6. CASE AddAvailRing
    BY <1>6, SlotType DEF AddAvailRing, PlicTypeOK
  <1>7. CASE AddAvailIdx
    BY <1>7, SlotType DEF AddAvailIdx, PlicTypeOK
  <1>8. CASE RwNotify
    BY <1>8 DEF RwNotify, PlicTypeOK
  <1>9. CASE RwWait
    BY <1>9 DEF RwWait, PlicTypeOK
  <1>10. CASE RwReturn
    BY <1>10 DEF RwReturn, PlicTypeOK
  <1> QED
    BY <1>1, <1>2, <1>3, <1>4, <1>5, <1>6, <1>7, <1>8, <1>9, <1>10 DEF MainStep

\* So does the caller of virtio_pci_blk_rw,
LEMMA CallerType == ASSUME TypeOK, Caller PROVE TypeOK'
  <1> USE DEF TypeOK, OnMain, PCs, mainVars, sharedVars, devVars, dataVars, trapVars, envVars, plicVars
  <1> PICK b \in Bufs, s \in 0..Capacity, d \in Data :
        \/ \E w \in BOOLEAN : RwCall(b, w, s, d)
        \/ RwReject(b, s, d)
    BY DEF Caller
  <1>1. ASSUME NEW w \in BOOLEAN, RwCall(b, w, s, d) PROVE TypeOK'
    <2>1. cur' \in Requests
      BY <1>1, DiskAssumption DEF RwCall, Requests, InCapacity, Sectors
    <2>2. idx' \in Slots \X Slots \X Slots /\ avail_idx' \in Indices
      BY <1>1, SlotType DEF RwCall
    <2> QED
      BY <1>1, <2>1, <2>2 DEF RwCall, PlicTypeOK
  <1>2. CASE RwReject(b, s, d)
    BY <1>2 DEF RwReject, PlicTypeOK
  <1> QED
    BY <1>1, <1>2

\* the device,
LEMMA DeviceType == ASSUME TypeOK, DeviceStep PROVE TypeOK'
  <1> USE DEF TypeOK, mainVars, sharedVars, devVars, dataVars, trapVars, envVars, plicVars
  <1>1. CASE DevFetch
    BY <1>1, SlotType DEF DevFetch, AvailId, PlicTypeOK
  <1>2. CASE DevServe
    <2>1. status' \in [Slots -> {ST_OK, ST_IOERR, ST_PENDING}]
      BY <1>2 DEF DevServe
    <2>2. mem' \in [Bufs -> Data] /\ disk' \in [Sectors -> Data]
      <3> DEFINE c  == Chain(dev.head)
                 op == ops[c[1].at]
      <3>1. PICK d \in Data :
              IF op.type = "OUT"
                THEN disk' = [disk EXCEPT ![op.sector] = d] /\ UNCHANGED mem
                ELSE mem' = [mem EXCEPT ![c[2].at] = d] /\ UNCHANGED disk
        BY <1>2, Zenon DEF DevServe
      <3> HIDE DEF c, op
      <3>2. CASE op.type = "OUT"
        BY <3>1, <3>2
      <3>3. CASE op.type # "OUT"
        BY <3>1, <3>3
      <3> QED
        BY <3>2, <3>3
    <2> QED
      BY <1>2, <2>1, <2>2 DEF DevServe, PlicTypeOK
  <1>3. CASE DevPush
    BY <1>3, SlotType DEF DevPush, PlicTypeOK
  <1>4. CASE DevRaise
    BY <1>4 DEF DevRaise, PlicTypeOK
  <1>5. CASE DevSleep
    BY <1>5 DEF DevSleep, PlicTypeOK
  <1> QED
    BY <1>1, <1>2, <1>3, <1>4, <1>5 DEF DeviceStep

\* the trap handler,
LEMMA HandlerType == ASSUME TypeOK, Trap \/ HandlerStep PROVE TypeOK'
  <1> USE DEF TypeOK, InTrap, HPCs, mainVars, sharedVars, devVars, dataVars, trapVars, envVars,
          plicVars, plicRegs
  <1>1. CASE Trap
    BY <1>1 DEF Trap, PlicTypeOK
  <1>2. CASE Claim
    BY <1>2 DEF Claim, plic_claim, WinsClaim, Claimable, Routine, PlicTypeOK
  <1>3. CASE UartIsr
    BY <1>3 DEF UartIsr, PlicTypeOK
  <1>4. CASE ClearIsr
    BY <1>4 DEF ClearIsr, PlicTypeOK
  <1>5. CASE Drain
    BY <1>5, SlotType DEF Drain, UsedId, PlicTypeOK
  <1>6. CASE DrainEnd
    BY <1>6 DEF DrainEnd, PlicTypeOK
  <1>7. CASE Complete
    BY <1>7 DEF Complete, plic_complete, PlicTypeOK
  <1> QED
    BY <1>1, <1>2, <1>3, <1>4, <1>5, <1>6, <1>7 DEF HandlerStep

\* and the interrupt lines and the environment.
LEMMA LinesType ==
  ASSUME TypeOK, ConfigChange \/ RxByte \/ \E i \in Irqs : Forward(i)
  PROVE  TypeOK'
  <1> USE DEF TypeOK, mainVars, sharedVars, devVars, dataVars, trapVars, envVars, plicVars,
          plicRegs, PlicTypeOK
  <1>1. CASE ConfigChange
    BY <1>1 DEF ConfigChange
  <1>2. CASE RxByte
    BY <1>2 DEF RxByte
  <1>3. ASSUME NEW i \in Irqs, Forward(i) PROVE TypeOK'
    BY <1>3 DEF Forward, GatewayForward
  <1> QED
    BY <1>1, <1>2, <1>3

\* Every step keeps the types.
LEMMA NextType == TypeOK /\ [Next]_vars => TypeOK'
  <1> SUFFICES ASSUME TypeOK, [Next]_vars PROVE TypeOK'
    OBVIOUS
  <1>1. CASE UNCHANGED vars
    BY <1>1 DEF vars, TypeOK, mainVars, sharedVars, devVars, dataVars, trapVars, envVars,
                plicVars, PlicTypeOK
  <1> QED
    BY <1>1, MainType, CallerType, DeviceType, HandlerType, LinesType DEF Next

\* Every variable keeps its type: the indices their 16 bits, the ids and the
\* next fields the range of the descriptor table.
THEOREM TypeCorrect == Spec => []TypeOK
  BY InitType, NextType, PTL DEF Spec

-----------------------------------------------------------------------------
(* The course of a request.                                                *)

\* An index takes more than one value.
LEMMA WideIndex == IdxMod > 1
  <1>1. PICK k \in Nat : IdxMod = k * QSize
    BY WholeQueues
  <1>2. k # 0
    BY <1>1, RingAssumption
  <1> QED
    BY <1>1, <1>2, RingAssumption, QueueAssumption

\* Two readings of an index never agree by accident.
LEMMA IncNotSame == \A i \in Indices : Inc(i) # i /\ Inc(i) \in Indices
  BY IncDiffers, WideIndex, SlotType

\* At first no request is under way.
LEMMA InitFlow == Init => Flow /\ Filled
  <1> SUFFICES ASSUME Init PROVE Flow /\ Filled
    OBVIOUS
  <1>1. 0 = (3 * 0) % IdxMod
    BY RingAssumption
  <1> QED
    BY <1>1 DEF Init, Flow, Filled, Drained, InFlight

\* What neither the request path nor the device touches keeps both.
LEMMA FlowFrame ==
  ASSUME Flow, Filled,
         UNCHANGED <<pc, cur, idx, avail_idx, used_idx, info, ops, flag, desc, avail, used, dev, last_avail>>
  PROVE  Flow' /\ Filled'
  BY DEF Flow, Filled, Available, InService, Returned, Drained, InFlight, AvailId, UsedId

\* Where the request is, after a step of the main thread.
LEMMA FlowMain == ASSUME TypeOK, Flow, MainStep PROVE Flow'
  <1> USE DEF Flow, OnMain, InFlight, Drained, AvailId, sharedVars, devVars
  <1>1. CASE EnableTraps
    BY <1>1 DEF EnableTraps
  <1>2. CASE InitPlic
    BY <1>2 DEF InitPlic
  <1>3. CASE EnableBlkIrq
    BY <1>3 DEF EnableBlkIrq
  <1>4. CASE RwFill
    BY <1>4 DEF RwFill
  <1>5. CASE RwArm
    BY <1>5 DEF RwArm, TypeOK, Requests
  <1>6. CASE AddAvailRing
    BY <1>6, SlotType DEF AddAvailRing, TypeOK
  <1>7. CASE AddAvailIdx
    BY <1>7 DEF AddAvailIdx, TypeOK, Available
  <1>8. CASE RwNotify
    BY <1>8 DEF RwNotify, Available, InService, Returned, UsedId
  <1>9. CASE RwWait
    BY <1>9 DEF RwWait, Available, InService, Returned
  <1>10. CASE RwReturn
    BY <1>10 DEF RwReturn
  <1> QED
    BY <1>1, <1>2, <1>3, <1>4, <1>5, <1>6, <1>7, <1>8, <1>9, <1>10 DEF MainStep

\* What RwFill wrote, after a step of the main thread.
LEMMA FilledMain == ASSUME TypeOK, Filled, MainStep PROVE Filled'
  <1> USE DEF Filled, OnMain, InFlight
  <1>1. CASE EnableTraps \/ InitPlic \/ EnableBlkIrq
    BY <1>1 DEF EnableTraps, InitPlic, EnableBlkIrq
  <1>2. CASE RwFill
    <2>1. /\ ops'[idx[1]] = [type |-> IF cur.write THEN "OUT" ELSE "IN", sector |-> cur.sector]
          /\ idx[1] # idx[2] /\ idx[1] # idx[3] /\ idx[2] # idx[3]
      BY <1>2 DEF RwFill, TypeOK
    <2>2. /\ desc'[idx[1]] = Desc("req", idx[1], {"NEXT"}, idx[2])
          /\ desc'[idx[2]] = Desc("data", cur.buf, DataFlags(cur.write), idx[3])
          /\ desc'[idx[3]] = Desc("status", idx[1], {"WRITE"}, 0)
      BY <1>2, <2>1 DEF RwFill, TypeOK
    <2> QED
      BY <1>2, <2>1, <2>2 DEF RwFill
  <1>3. CASE RwArm \/ AddAvailRing \/ AddAvailIdx \/ RwNotify \/ RwWait \/ RwReturn
    BY <1>3 DEF RwArm, AddAvailRing, AddAvailIdx, RwNotify, RwWait, RwReturn, sharedVars
  <1> QED
    BY <1>1, <1>2, <1>3 DEF MainStep

\* A call, or a rejected one, starts from a quiet queue.
LEMMA FlowCaller == ASSUME TypeOK, Flow, Filled, Caller PROVE Flow' /\ Filled'
  <1> PICK b \in Bufs, s \in 0..Capacity, d \in Data :
        \/ \E w \in BOOLEAN : RwCall(b, w, s, d)
        \/ RwReject(b, s, d)
    BY DEF Caller
  <1>1. ASSUME NEW w \in BOOLEAN, RwCall(b, w, s, d) PROVE Flow' /\ Filled'
    <2>1. idx'[1] # idx'[2] /\ idx'[1] # idx'[3] /\ idx'[2] # idx'[3]
      BY <1>1, ThreeSlots, QueueAssumption DEF RwCall, TypeOK
    <2>2. avail_idx' = (3 * Inc(avail.idx')) % IdxMod
      BY <1>1, ThreePerRequest DEF RwCall, OnMain, Flow, InFlight, TypeOK, sharedVars
    <2>3. Flow'
      BY <1>1, <2>2 DEF RwCall, OnMain, Flow, InFlight, Drained, sharedVars, devVars
    <2>4. Filled'
      BY <1>1, <2>1 DEF RwCall, OnMain, Filled, InFlight
    <2> QED
      BY <2>3, <2>4
  <1>2. CASE RwReject(b, s, d)
    BY <1>2, FlowFrame DEF RwReject, OnMain, sharedVars, devVars
  <1> QED
    BY <1>1, <1>2

\* Fetch, answer and publication move the request on.
LEMMA FlowDevice == ASSUME TypeOK, Flow, Filled, DeviceStep PROVE Flow' /\ Filled'
  <1> USE DEF mainVars, sharedVars, devVars
  <1>1. CASE DevFetch
    <2>1. Available /\ InFlight
      BY <1>1 DEF DevFetch, Flow, InService, Returned, Drained
    <2>2. InService'
      BY <1>1, <2>1 DEF DevFetch, Available, InService
    <2>3. Filled'
      BY <1>1 DEF DevFetch, Filled, InFlight
    <2> QED
      BY <1>1, <2>1, <2>2, <2>3 DEF DevFetch, Flow, InFlight
  <1>2. CASE DevServe
    <2>1. InService /\ InFlight
      BY <1>2 DEF DevServe, Flow, Available, Returned, Drained
    <2>2. InService'
      BY <1>2, <2>1 DEF DevServe, InService, TypeOK
    <2>3. Filled'
      BY <1>2 DEF DevServe, Filled, InFlight
    <2> QED
      BY <1>2, <2>1, <2>2, <2>3 DEF DevServe, Flow, InFlight
  <1>3. CASE DevPush
    <2>1. InService /\ InFlight
      BY <1>3 DEF DevPush, Flow, Available, Returned, Drained
    <2>2. Returned'
      BY <1>3, <2>1, SlotType DEF DevPush, InService, Returned, UsedId, TypeOK
    <2>3. Filled'
      BY <1>3 DEF DevPush, Filled, InFlight
    <2> QED
      BY <1>3, <2>1, <2>2, <2>3 DEF DevPush, Flow, InFlight
  <1>4. CASE DevRaise
    <2>1. Filled'
      BY <1>4 DEF DevRaise, Filled, InFlight
    <2> QED
      BY <1>4, <2>1 DEF DevRaise, Flow, InFlight, Available, InService, Returned, Drained,
                        AvailId, UsedId, TypeOK
  <1>5. CASE DevSleep
    BY <1>5, FlowFrame DEF DevSleep
  <1> QED
    BY <1>1, <1>2, <1>3, <1>4, <1>5 DEF DeviceStep

\* A completion that is drained is the one rw waits for: b is not null.
LEMMA FlowDrain ==
  ASSUME TypeOK, Flow, Filled, Drain
  PROVE  Flow' /\ Filled' /\ hpc' = "drain" /\ used_idx' = used.idx
  <1> USE DEF mainVars, devVars
  <1>1. Returned /\ InFlight
    BY DEF Drain, Flow, Available, InService, Drained
  <1>2. info[UsedId(used_idx)] = cur.buf /\ cur.buf # NULL
    BY <1>1, NullAssumption DEF Flow, Returned, TypeOK, Requests
  <1>3. /\ flag' = [flag EXCEPT ![cur.buf] = 0]
        /\ used_idx' = Inc(used_idx)
        /\ hpc' = "drain"
    BY <1>2 DEF Drain, InTrap
  <1>4. Drained'
    BY <1>1, <1>3 DEF Drain, Returned, Drained
  <1>5. Filled'
    BY DEF Drain, Filled, InFlight
  <1> QED
    BY <1>1, <1>3, <1>4, <1>5 DEF Drain, Flow, InFlight, Returned

\* Every step keeps track of the request.
LEMMA FlowNext == ASSUME TypeOK, Flow, Filled, [Next]_vars PROVE Flow' /\ Filled'
  <1> USE DEF mainVars, sharedVars, devVars, vars
  <1>1. CASE Trap \/ Claim \/ UartIsr \/ ClearIsr \/ DrainEnd \/ Complete
    BY <1>1, FlowFrame DEF Trap, Claim, UartIsr, ClearIsr, DrainEnd, Complete
  <1>2. CASE ConfigChange \/ RxByte
    BY <1>2, FlowFrame DEF ConfigChange, RxByte
  <1>3. ASSUME NEW i \in Irqs, Forward(i) PROVE Flow' /\ Filled'
    BY <1>3, FlowFrame DEF Forward
  <1>4. CASE UNCHANGED vars
    BY <1>4, FlowFrame
  <1> QED
    BY <1>1, <1>2, <1>3, <1>4, FlowMain, FilledMain, FlowCaller, FlowDevice, FlowDrain
    DEF Next, HandlerStep

-----------------------------------------------------------------------------
(* The interrupt.                                                          *)

\* A used entry is announced until the handler has drained it.
LEMMA WakeupNext ==
  ASSUME TypeOK, Flow, Filled, HandlerState, NoLostWakeup, [Next]_vars
  PROVE  NoLostWakeup'
  <1> USE DEF NoLostWakeup, mainVars, sharedVars, devVars, vars
  <1>1. CASE MainStep
    BY <1>1 DEF MainStep, OnMain, EnableTraps, InitPlic, EnableBlkIrq, RwFill, RwArm, AddAvailRing,
                AddAvailIdx, RwNotify, RwWait, RwReturn, trapVars
  <1>2. CASE Caller
    BY <1>2 DEF Caller, RwCall, RwReject, OnMain, trapVars
  <1>3. CASE DeviceStep
    BY <1>3 DEF DeviceStep, DevFetch, DevServe, DevPush, DevRaise, DevSleep, trapVars, TypeOK
  <1>4. CASE ConfigChange \/ RxByte \/ \E i \in Irqs : Forward(i)
    BY <1>4 DEF ConfigChange, RxByte, Forward, trapVars
  <1>5. CASE Trap \/ Claim \/ UartIsr \/ ClearIsr \/ DrainEnd \/ Complete
    BY <1>5 DEF Trap, Claim, UartIsr, ClearIsr, DrainEnd, Complete, InTrap
  <1>6. CASE Drain
    BY <1>6, FlowDrain DEF Drain
  <1>7. CASE UNCHANGED vars
    BY <1>7 DEF trapVars
  <1> QED
    BY <1>1, <1>2, <1>3, <1>4, <1>5, <1>6, <1>7 DEF Next, HandlerStep

\* Only the two enabled sources can win a claim.
LEMMA ClaimableSources ==
  ASSUME enable \subseteq {EnableBit(UART0_IRQ), EnableBit(PCIE_IRQ_PINB)}, NEW i \in Irqs, IsEnabled(i)
  PROVE  i \in {UART0_IRQ, PCIE_IRQ_PINB}
  BY DEF EnableBit, IsEnabled, Irqs, UART0_IRQ, PCIE_IRQ_PINB, PCIE_IRQ_PINC

\* Every step keeps handler and interrupt controller together.
LEMMA InterruptNext ==
  ASSUME TypeOK, Flow, Filled, HandlerState, ClaimCompleted, [Next]_vars
  PROVE  HandlerState' /\ ClaimCompleted'
  <1> USE DEF HandlerState, ClaimCompleted, vars, trapVars, plicVars, plicRegs
  <1>1. CASE MainStep
    BY <1>1 DEF MainStep, OnMain, EnableTraps, InitPlic, EnableBlkIrq, RwFill, RwArm, AddAvailRing,
                AddAvailIdx, RwNotify, RwWait, RwReturn, plic_init, plic_enable
  <1>2. CASE Caller
    BY <1>2 DEF Caller, RwCall, RwReject, OnMain
  <1>3. CASE DeviceStep
    BY <1>3 DEF DeviceStep, DevFetch, DevServe, DevPush, DevRaise, DevSleep
  <1>4. CASE ConfigChange \/ RxByte \/ \E i \in Irqs : Forward(i)
    BY <1>4 DEF ConfigChange, RxByte, Forward
  <1>5. CASE Trap
    BY <1>5 DEF Trap, InTrap
  <1>6. CASE Claim
    <2>1. PICK i \in Irqs \cup {NO_IRQ} :
            /\ plic_claim(i) /\ irq' = i /\ hpc = "claim" /\ hpc' = Routine(i) /\ UNCHANGED enable
      BY <1>6 DEF Claim, InTrap
    <2>2. CASE i = NO_IRQ
      <3>1. claimed' = {} /\ hpc' = "complete"
        BY <2>1, <2>2 DEF plic_claim, WinsClaim, Claimable, TypeOK, PlicTypeOK, Routine, NO_IRQ,
                          UART0_IRQ, PCIE_IRQ_PINB, PCIE_IRQ_PINC, Irqs
      <3> QED
        BY <2>1, <2>2, <3>1 DEF NO_IRQ, PCIE_IRQ_PINC
    <2>3. CASE i # NO_IRQ
      <3>1. claimed' = {i} /\ i \in Irqs /\ IsEnabled(i)
        BY <2>1, <2>3 DEF plic_claim, WinsClaim, Claimable
      <3>2. i = UART0_IRQ \/ i = PCIE_IRQ_PINB
        BY <3>1, ClaimableSources
      <3>3. hpc' = IF i = UART0_IRQ THEN "uart" ELSE "isr"
        BY <2>1, <3>2 DEF Routine, UART0_IRQ, PCIE_IRQ_PINB
      <3> QED
        BY <2>1, <2>3, <3>1, <3>2, <3>3 DEF UART0_IRQ, PCIE_IRQ_PINB, PCIE_IRQ_PINC
    <2> QED
      BY <2>2, <2>3
  <1>7. CASE UartIsr \/ ClearIsr \/ DrainEnd
    BY <1>7 DEF UartIsr, ClearIsr, DrainEnd, InTrap
  <1>8. CASE Drain
    BY <1>8, FlowDrain DEF Drain, InTrap
  <1>9. CASE Complete
    BY <1>9 DEF Complete, InTrap, plic_complete
  <1>10. CASE UNCHANGED vars
    BY <1>10
  <1> QED
    BY <1>1, <1>2, <1>3, <1>4, <1>5, <1>6, <1>7, <1>8, <1>9, <1>10 DEF Next, HandlerStep

-----------------------------------------------------------------------------
(* The status byte.                                                        *)

\* Steps that neither the device's fetch nor its transfer takes.
LEMMA StatusFrame ==
  ASSUME StatusByte, UNCHANGED <<pc, idx, status, avail, last_avail>>,
         dev.stage = "fetched" <=> dev'.stage = "fetched"
  PROVE  StatusByte'
  BY DEF StatusByte, InFlight

\* The main thread only writes the status byte before the request is published.
LEMMA StatusMain == ASSUME TypeOK, Flow, StatusByte, MainStep PROVE StatusByte'
  <1> USE DEF StatusByte, OnMain, InFlight, sharedVars, devVars
  <1>1. CASE EnableTraps \/ InitPlic \/ EnableBlkIrq
    BY <1>1 DEF EnableTraps, InitPlic, EnableBlkIrq
  <1>2. CASE RwFill
    BY <1>2 DEF RwFill, TypeOK
  <1>3. CASE RwArm \/ AddAvailRing
    BY <1>3 DEF RwArm, AddAvailRing
  <1>4. CASE AddAvailIdx
    <2>1. Drained /\ avail'.idx = Inc(avail.idx) /\ avail.idx \in Indices
      BY <1>4 DEF AddAvailIdx, Flow, TypeOK
    <2>2. last_avail' # avail'.idx
      BY <1>4, <2>1, IncNotSame DEF AddAvailIdx, Drained
    <2> QED
      BY <1>4, <2>2 DEF AddAvailIdx
  <1>5. CASE RwNotify
    BY <1>5 DEF RwNotify
  <1>6. CASE RwWait
    <2>1. Drained
      BY <1>6 DEF RwWait, Flow, Available, InService, Returned
    <2> QED
      BY <1>6, <2>1 DEF RwWait, Drained
  <1>7. CASE RwReturn
    BY <1>7 DEF RwReturn
  <1> QED
    BY <1>1, <1>2, <1>3, <1>4, <1>5, <1>6, <1>7 DEF MainStep

\* The device writes it before it returns the request.
LEMMA StatusDevice == ASSUME TypeOK, Flow, Filled, StatusByte, DeviceStep PROVE StatusByte'
  <1> USE DEF mainVars, sharedVars, devVars
  <1>1. CASE DevFetch
    <2>1. Available /\ InFlight
      BY <1>1 DEF DevFetch, Flow, InService, Returned, Drained
    <2> QED
      BY <1>1, <2>1 DEF DevFetch, StatusByte, InFlight
  <1>2. CASE DevServe
    <2>1. InService /\ InFlight
      BY <1>2 DEF DevServe, Flow, Available, Returned, Drained
    <2>2. Chain(dev.head)[3].at = idx[1]
      BY <2>1 DEF InService, Filled, Chain, Desc
    <2>3. /\ status'[idx[1]] \in {ST_OK, ST_IOERR}
          /\ dev'.stage = "served"
          /\ UNCHANGED <<pc, idx, avail, last_avail>>
      BY <1>2, <2>2 DEF DevServe, TypeOK
    <2>4. status'[idx[1]] # ST_PENDING
      BY <2>3 DEF ST_OK, ST_IOERR, ST_PENDING
    <2> QED
      BY <2>1, <2>3, <2>4 DEF StatusByte, InService, InFlight
  <1>3. CASE DevPush
    BY <1>3, StatusFrame DEF DevPush, TypeOK
  <1>4. CASE DevRaise
    BY <1>4, StatusFrame DEF DevRaise, TypeOK
  <1>5. CASE DevSleep
    BY <1>5, StatusFrame DEF DevSleep
  <1> QED
    BY <1>1, <1>2, <1>3, <1>4, <1>5 DEF DeviceStep

\* Every step keeps the status byte what the phase of the request says.
LEMMA StatusNext == ASSUME TypeOK, Flow, Filled, StatusByte, [Next]_vars PROVE StatusByte'
  <1> USE DEF mainVars, sharedVars, devVars, vars
  <1>1. CASE Caller
    BY <1>1 DEF Caller, RwCall, RwReject, OnMain, StatusByte, InFlight
  <1>2. CASE ConfigChange \/ RxByte \/ \E i \in Irqs : Forward(i)
    BY <1>2, StatusFrame DEF ConfigChange, RxByte, Forward
  <1>3. CASE Trap \/ HandlerStep
    BY <1>3, StatusFrame DEF Trap, HandlerStep, Claim, UartIsr, ClearIsr, Drain, DrainEnd, Complete
  <1>4. CASE UNCHANGED vars
    BY <1>4, StatusFrame
  <1> QED
    BY <1>1, <1>2, <1>3, <1>4, StatusMain, StatusDevice DEF Next

-----------------------------------------------------------------------------
(* The theorems.                                                           *)

\* The inductive invariant holds.
THEOREM Invariant == Spec => []IInv
  <1>1. Init => IInv
    BY InitType, InitFlow
    DEF Init, IInv, StatusByte, InFlight, HandlerState, NoLostWakeup, ClaimCompleted, PlicReset, NO_IRQ, PCIE_IRQ_PINC
  <1>2. IInv /\ [Next]_vars => IInv'
    BY NextType, FlowNext, StatusNext, WakeupNext, InterruptNext DEF IInv
  <1> QED
    BY <1>1, <1>2, PTL DEF Spec

\* The handler drains nothing but the completion rw waits for, and never
\* follows a null pointer.
THEOREM CompletionCorrect == Spec => []CompletionIsCurrent
  <1>1. IInv => CompletionIsCurrent
    <2> SUFFICES ASSUME IInv PROVE CompletionIsCurrent
      OBVIOUS
    <2>1. CASE used_idx # used.idx
      <3>1. Returned /\ InFlight
        BY <2>1 DEF IInv, Flow, Available, InService, Drained
      <3> QED
        BY <3>1 DEF CompletionIsCurrent, IInv, Flow, HandlerState, Returned, InFlight
    <2>2. CASE used_idx = used.idx
      BY <2>2 DEF CompletionIsCurrent, IInv, HandlerState
    <2> QED
      BY <2>1, <2>2
  <1> QED
    BY <1>1, Invariant, PTL

\* The device only ever sees the chain of the request in progress.
THEOREM ChainCorrect == Spec => []ChainIntact
  <1>1. IInv => ChainIntact
    <2> SUFFICES ASSUME IInv, Outstanding PROVE ChainIntact
      BY DEF ChainIntact
    <2>1. (Available \/ InService) /\ InFlight
      BY DEF IInv, Flow, Outstanding, Returned, Drained
    <2>2. (IF last_avail # avail.idx THEN AvailId(last_avail) ELSE dev.head) = idx[1]
      BY <2>1, IncNotSame DEF Available, InService, IInv, TypeOK
    <2>3. Chain(idx[1]) = << Desc("req", idx[1], {"NEXT"}, idx[2]),
                             Desc("data", cur.buf, DataFlags(cur.write), idx[3]),
                             Desc("status", idx[1], {"WRITE"}, 0) >>
      BY <2>1 DEF IInv, Filled, Chain, Desc
    <2>4. ops[idx[1]] = [type |-> IF cur.write THEN "OUT" ELSE "IN", sector |-> cur.sector]
      BY <2>1 DEF IInv, Filled
    <2>5. WellFormed(Chain(idx[1]))
      BY <2>3, <2>4 DEF WellFormed, Desc, DataFlags
    <2> DEFINE head == IF last_avail # avail.idx THEN AvailId(last_avail) ELSE dev.head
               c    == Chain(head)
    <2>6. c[1].at = idx[1] /\ c[2].at = cur.buf /\ c[3].at = idx[1]
      BY <2>2, <2>3 DEF Desc
    <2> HIDE DEF head
    <2> QED
      BY <2>2, <2>4, <2>5, <2>6 DEF ChainIntact, head
  <1> QED
    BY <1>1, Invariant, PTL

\* The indices of driver and device stay in step for ever.
THEOREM IndicesCorrect == Spec => []IndicesInStep
  <1>1. IInv => IndicesInStep
    BY DEF IInv, Flow, IndicesInStep, Available, InService, Returned, Drained, InFlight
  <1> QED
    BY <1>1, Invariant, PTL

\* No completion interrupt is lost.
THEOREM WakeupCorrect == Spec => []NoLostWakeup
  BY Invariant, PTL DEF IInv

\* Every claim is completed.
THEOREM ClaimsCorrect == Spec => []ClaimCompleted
  BY Invariant, PTL DEF IInv

\* The line that is never cleared is never claimed.
THEOREM StuckLineCorrect == Spec => []StuckLineIgnored
  <1>1. IInv => StuckLineIgnored
    BY DEF IInv, HandlerState, ClaimCompleted, StuckLineIgnored
  <1> QED
    BY <1>1, Invariant, PTL

\* No step of the driver, on the main thread or in the handler, writes what the
\* device owns.
THEOREM OwnershipCorrect == Spec => OwnedByDevice
  <1> DEFINE Kept == /\ UNCHANGED <<ops, desc, status, mem>>
                     /\ avail'.ring = avail.ring
  <1>1. IInv /\ [Next]_vars => [Outstanding /\ dev' = dev => Kept]_vars
    <2> SUFFICES ASSUME IInv, Next, Outstanding, dev' = dev PROVE Kept
      BY DEF vars
    <2> USE DEF mainVars, sharedVars, devVars, dataVars
    <2>1. InFlight
      BY DEF IInv, Flow, Outstanding, Drained
    <2>2. CASE MainStep
      BY <2>1, <2>2 DEF MainStep, OnMain, InFlight, EnableTraps, InitPlic, EnableBlkIrq, RwFill, RwArm,
                        AddAvailRing, AddAvailIdx, RwNotify, RwWait, RwReturn
    <2>3. ~Caller
      BY <2>1 DEF Caller, RwCall, RwReject, OnMain, InFlight
    <2>4. CASE DeviceStep
      BY <2>4 DEF DeviceStep, DevFetch, DevServe, DevPush, DevRaise, DevSleep, IInv, TypeOK
    <2>5. CASE ConfigChange \/ RxByte \/ \E i \in Irqs : Forward(i)
      BY <2>5 DEF ConfigChange, RxByte, Forward
    <2>6. CASE Trap \/ HandlerStep
      BY <2>6 DEF Trap, HandlerStep, Claim, UartIsr, ClearIsr, Drain, DrainEnd, Complete
    <2> QED
      BY <2>2, <2>3, <2>4, <2>5, <2>6 DEF Next
  <1> QED
    BY <1>1, Invariant, PTL DEF Spec, OwnedByDevice

-----------------------------------------------------------------------------
(* VirtioBlk implements SyncDisk, step by step.                            *)

\* The initial states of the driver are initial states of the disk.
LEMMA InitRefines == Init => Abstract!Init
  BY DEF Init, Abstract!Init, Phase, Sectors

\* Steps that leave the point of the call, its status byte and the data alone.
LEMMA PhaseFrame ==
  ASSUME UNCHANGED <<pc, idx, status, cur, mem, disk>>
  PROVE  UNCHANGED Abstract!vars
  BY DEF Abstract!vars, Phase

\* The main thread advances the call without a step of the disk, and replies.
LEMMA MainRefines ==
  ASSUME TypeOK, StatusByte, StatusByte', MainStep
  PROVE  Abstract!Reply \/ UNCHANGED Abstract!vars
  <1> USE DEF OnMain, dataVars, Abstract!vars, Phase, StatusByte, InFlight
  <1>1. CASE EnableTraps \/ InitPlic \/ EnableBlkIrq
    BY <1>1 DEF EnableTraps, InitPlic, EnableBlkIrq
  <1>2. CASE RwFill \/ RwArm \/ AddAvailRing
    BY <1>2 DEF RwFill, RwArm, AddAvailRing
  <1>3. CASE AddAvailIdx
    <2>1. status'[idx'[1]] = ST_PENDING
      BY <1>3 DEF AddAvailIdx
    <2> QED
      BY <1>3, <2>1 DEF AddAvailIdx, ST_PENDING, ST_OK, ST_IOERR
  <1>4. CASE RwNotify \/ RwWait
    BY <1>4 DEF RwNotify, RwWait, sharedVars
  <1>5. CASE RwReturn
    <2>1. status[idx[1]] \in {ST_OK, ST_IOERR}
      BY <1>5 DEF RwReturn, TypeOK
    <2>2. Phase \in {"done", "failed"} /\ Phase' = "idle"
      BY <1>5, <2>1 DEF RwReturn, ST_OK, ST_IOERR
    <2> QED
      BY <1>5, <2>2 DEF RwReturn, Abstract!Reply
  <1> QED
    BY <1>1, <1>2, <1>3, <1>4, <1>5 DEF MainStep

\* A call is an invocation, or it is rejected.
LEMMA CallerRefines == ASSUME TypeOK, Caller PROVE Abstract!Next
  <1> PICK b \in Bufs, s \in 0..Capacity, d \in Data :
        \/ \E w \in BOOLEAN : RwCall(b, w, s, d)
        \/ RwReject(b, s, d)
    BY DEF Caller
  <1>1. ASSUME NEW w \in BOOLEAN, RwCall(b, w, s, d) PROVE Abstract!Next
    <2>1. Abstract!Invoke(b, w, s, d)
      BY <1>1, DiskAssumption DEF RwCall, OnMain, InCapacity, Phase, Abstract!Invoke
    <2> QED
      BY <2>1 DEF Abstract!Next
  <1>2. CASE RwReject(b, s, d)
    <2>1. Abstract!Reject(b, d)
      BY <1>2 DEF RwReject, OnMain, Phase, Abstract!Reject
    <2> QED
      BY <2>1 DEF Abstract!Next
  <1> QED
    BY <1>1, <1>2

\* The transfer of the device is the one step that serves the call.
LEMMA ServeRefines == ASSUME IInv, DevServe PROVE Abstract!Serve \/ Abstract!Fail
  <1> USE DEF IInv
  <1>1. InService /\ InFlight
    BY DEF DevServe, Flow, Available, Returned, Drained
  <1> DEFINE c  == Chain(dev.head)
             op == ops[c[1].at]
  <1>2. c[1].at = idx[1] /\ c[2].at = cur.buf /\ c[3].at = idx[1]
    BY <1>1 DEF InService, Filled, Chain, Desc
  <1>3. op.sector = cur.sector /\ (op.type = "OUT" <=> cur.write)
    BY <1>1, <1>2 DEF Filled, TypeOK, Requests
  <1>4. Phase = "busy"
    <2>1. status[idx[1]] = ST_PENDING
      BY <1>1 DEF StatusByte, DevServe
    <2> QED
      BY <1>1, <2>1 DEF Phase, InFlight, ST_PENDING, ST_OK, ST_IOERR
  <1>5. PICK d \in Data, st \in {ST_OK, ST_IOERR} :
          /\ st = ST_OK => d = IF op.type = "OUT" THEN mem[c[2].at] ELSE disk[op.sector]
          /\ status' = [status EXCEPT ![c[3].at] = st]
          /\ IF op.type = "OUT"
               THEN disk' = [disk EXCEPT ![op.sector] = d] /\ UNCHANGED mem
               ELSE mem' = [mem EXCEPT ![c[2].at] = d] /\ UNCHANGED disk
    BY Zenon DEF DevServe
  <1> HIDE DEF c, op
  <1>6. /\ st = ST_OK => d = IF cur.write THEN mem[cur.buf] ELSE disk[cur.sector]
        /\ IF cur.write
             THEN disk' = [disk EXCEPT ![cur.sector] = d] /\ UNCHANGED mem
             ELSE mem' = [mem EXCEPT ![cur.buf] = d] /\ UNCHANGED disk
    BY <1>2, <1>3, <1>5
  <1>7. UNCHANGED <<pc, idx, cur>>
    BY DEF DevServe, mainVars
  <1>8. Phase' = IF st = ST_OK THEN "done" ELSE "failed"
    <2>1. status'[idx'[1]] = st /\ pc' \in {"notify", "wait"}
      BY <1>1, <1>2, <1>5, <1>7 DEF TypeOK, InFlight
    <2> QED
      BY <2>1 DEF Phase, ST_OK, ST_IOERR
  <1>9. CASE st = ST_OK
    BY <1>4, <1>6, <1>7, <1>8, <1>9 DEF Abstract!Serve
  <1>10. CASE st # ST_OK
    BY <1>4, <1>6, <1>7, <1>8, <1>10 DEF Abstract!Fail
  <1> QED
    BY <1>9, <1>10

\* Every step of the driver, the device and the handler is a step of the
\* synchronous disk or leaves it alone.
LEMMA NextRefines == ASSUME IInv, IInv', [Next]_vars PROVE [Abstract!Next]_(Abstract!vars)
  <1> USE DEF mainVars, sharedVars, devVars, dataVars
  <1>1. CASE MainStep
    BY <1>1, MainRefines DEF IInv, Abstract!Next
  <1>2. CASE Caller
    BY <1>2, CallerRefines DEF IInv
  <1>3. CASE DevServe
    BY <1>3, ServeRefines DEF Abstract!Next
  <1>4. CASE DevFetch \/ DevPush \/ DevRaise \/ DevSleep
    BY <1>4, PhaseFrame DEF DevFetch, DevPush, DevRaise, DevSleep
  <1>5. CASE ConfigChange \/ RxByte \/ \E i \in Irqs : Forward(i)
    BY <1>5, PhaseFrame DEF ConfigChange, RxByte, Forward
  <1>6. CASE Trap \/ HandlerStep
    BY <1>6, PhaseFrame DEF Trap, HandlerStep, Claim, UartIsr, ClearIsr, Drain, DrainEnd, Complete
  <1>7. CASE UNCHANGED vars
    BY <1>7, PhaseFrame DEF vars
  <1> QED
    BY <1>1, <1>2, <1>3, <1>4, <1>5, <1>6, <1>7 DEF Next, DeviceStep

\* What virtio_pci_blk_rw promises its caller: its driver, the device and the
\* handler, in whatever order they run, are one synchronous disk.
THEOREM RefinementCorrect == Spec => Abstract!Init /\ [][Abstract!Next]_(Abstract!vars)
  <1>1. IInv /\ IInv' /\ [Next]_vars => [Abstract!Next]_(Abstract!vars)
    BY NextRefines
  <1> QED
    BY <1>1, InitRefines, Invariant, PTL DEF Spec
=============================================================================
