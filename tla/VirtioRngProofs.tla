-------------------------- MODULE VirtioRngProofs --------------------------
(***************************************************************************)
(* The rng driver and its device stay in step, and a hart that loads in    *)
(* program order gets the answer to its call: for every queue size that    *)
(* divides the modulus of the indices, every set of lengths and any number *)
(* of calls.                                                               *)
(***************************************************************************)
EXTENDS VirtioRng, RingIndexProofs

-----------------------------------------------------------------------------
(* Types.                                                                  *)

\* The types hold before the first call.
LEMMA InitType == Init => TypeOK
  <1> SUFFICES ASSUME Init PROVE TypeOK
    OBVIOUS
  <1>1. 0 \in Slots /\ 0 \in Indices
    BY RingAssumption DEF Slots, Indices
  <1>2. used \in [idx : Indices, ring : [Slots -> [id : Slots, len : Nat]]]
    BY <1>1 DEF Init
  <1> QED
    BY <1>1, <1>2 DEF Init, TypeOK

\* The driver keeps them.
LEMMA DriverType == ASSUME TypeOK, Call \/ DriverStep \/ LoadEarly PROVE TypeOK'
  <1> USE DEF TypeOK, At, callVars, devVars
  <1>1. CASE Call
    BY <1>1, SlotType DEF Call
  <1>2. ASSUME NEW n \in Lengths, FillDesc(n) PROVE TypeOK'
    BY <1>2, LengthAssumption DEF FillDesc
  <1>3. CASE AddAvailRing
    BY <1>3, SlotType DEF AddAvailRing
  <1>4. CASE AddAvailIdx
    BY <1>4, SlotType DEF AddAvailIdx
  <1>5. CASE Notify
    BY <1>5 DEF Notify
  <1>6. CASE Poll
    BY <1>6 DEF Poll
  <1>7. EntryLength \in Nat
    BY SlotType DEF EntryLength
  <1>8. CASE Return
    BY <1>7, <1>8, SlotType DEF Return
  <1>9. CASE LoadEarly
    BY <1>7, <1>9 DEF LoadEarly
  <1> QED
    BY <1>1, <1>2, <1>3, <1>4, <1>5, <1>6, <1>8, <1>9 DEF DriverStep

\* So does the device.
LEMMA DeviceType == ASSUME TypeOK, DevFetch \/ DevAnswer \/ DevPublish \/ DevSleep PROVE TypeOK'
  <1> USE DEF TypeOK, callVars
  <1>1. CASE DevFetch
    BY <1>1, SlotType DEF DevFetch
  <1>2. CASE DevAnswer
    BY <1>2, SlotType, LengthAssumption DEF DevAnswer
  <1>3. CASE DevPublish
    BY <1>3, SlotType DEF DevPublish
  <1>4. CASE DevSleep
    BY <1>4 DEF DevSleep
  <1> QED
    BY <1>1, <1>2, <1>3, <1>4

\* Every step keeps the types.
LEMMA NextType == TypeOK /\ [Next]_vars => TypeOK'
  <1> SUFFICES ASSUME TypeOK, [Next]_vars PROVE TypeOK'
    OBVIOUS
  <1>1. CASE UNCHANGED vars
    BY <1>1 DEF vars, callVars, devVars, TypeOK
  <1> QED
    BY <1>1, DriverType, DeviceType DEF Next

-----------------------------------------------------------------------------
(* The course of a call.                                                   *)

\* Where the request is, after a step of the driver.
LEMMA FlowDriver == ASSUME TypeOK, Flow, Call \/ DriverStep \/ LoadEarly PROVE Flow'
  <1> USE DEF Flow, At, callVars, devVars, Quiet
  <1>1. CASE Call
    BY <1>1 DEF Call
  <1>2. ASSUME NEW n \in Lengths, FillDesc(n) PROVE Flow'
    BY <1>2 DEF FillDesc
  <1>3. CASE AddAvailRing
    BY <1>3, SlotType DEF AddAvailRing, TypeOK
  <1>4. CASE AddAvailIdx
    BY <1>4 DEF AddAvailIdx, Available, TypeOK
  <1>5. CASE Notify
    BY <1>5 DEF Notify, Available, InService, Returned
  <1>6. CASE Poll
    BY <1>6 DEF Poll, Available, InService, Returned
  <1>7. CASE Return
    BY <1>7 DEF Return, Returned
  <1>8. CASE LoadEarly
    BY <1>8 DEF LoadEarly, Available, InService, Returned
  <1> QED
    BY <1>1, <1>2, <1>3, <1>4, <1>5, <1>6, <1>7, <1>8 DEF DriverStep

\* Where it is after a step of the device.
LEMMA FlowDevice == ASSUME TypeOK, Flow, DevFetch \/ DevAnswer \/ DevPublish \/ DevSleep PROVE Flow'
  <1> USE DEF TypeOK, callVars
  <1>0. pc \in {"idle", "fill", "ring", "publish", "notify", "poll", "read"}
    OBVIOUS
  <1>1. CASE DevFetch
    <2>1. Available /\ pc \in {"notify", "poll"}
      BY <1>0, <1>1 DEF DevFetch, Flow, InService, Returned, Quiet
    <2>2. InService'
      BY <1>1, <2>1 DEF DevFetch, Available, InService
    <2> QED
      BY <1>1, <2>1, <2>2 DEF DevFetch, Flow
  <1>2. CASE DevAnswer
    <2>1. InService /\ pc \in {"notify", "poll"}
      BY <1>0, <1>2 DEF DevAnswer, Flow, Available, Returned, Quiet
    <2>2. used'.ring[Slot(used.idx)].len = answer' /\ used'.idx = used.idx
      BY <1>2, SlotType DEF DevAnswer
    <2>3. InService'
      BY <1>2, <2>1, <2>2 DEF DevAnswer, InService
    <2> QED
      BY <1>2, <2>1, <2>3 DEF DevAnswer, Flow
  <1>3. CASE DevPublish
    <2>1. InService /\ pc \in {"notify", "poll"}
      BY <1>0, <1>3 DEF DevPublish, Flow, Available, Returned, Quiet
    <2>2. Returned'
      BY <1>3, <2>1 DEF DevPublish, InService, Returned
    <2> QED
      BY <1>3, <2>1, <2>2 DEF DevPublish, Flow
  <1>4. CASE DevSleep
    BY <1>4 DEF DevSleep, Flow, Available, InService, Returned, Quiet
  <1> QED
    BY <1>1, <1>2, <1>3, <1>4

\* Every step keeps track of the request.
LEMMA FlowNext == ASSUME TypeOK, Flow, [Next]_vars PROVE Flow'
  <1>1. CASE UNCHANGED vars
    BY <1>1 DEF vars, callVars, devVars, Flow, Available, InService, Returned, Quiet
  <1> QED
    BY <1>1, FlowDriver, FlowDevice DEF Next

-----------------------------------------------------------------------------
(* What a call returns.                                                    *)

\* On a hart that loads in order, the entry read is the answer.
LEMMA OrderNext == ASSUME TypeOK, Flow, InOrder, [Next]_vars PROVE InOrder'
  <1> SUFFICES ASSUME ~reorder' PROVE early' = NONE /\ ReturnsAnswer'
    BY DEF InOrder
  <1> USE DEF At, callVars, devVars, vars, ReturnsAnswer
  <1>1. ~reorder /\ early = NONE /\ ReturnsAnswer
    BY DEF Next, DriverStep, Call, FillDesc, AddAvailRing, AddAvailIdx, Notify, Poll, Return, LoadEarly,
           DevFetch, DevAnswer, DevPublish, DevSleep, InOrder
  <1>2. CASE Call \/ (\E n \in Lengths : FillDesc(n)) \/ AddAvailRing \/ AddAvailIdx \/ Notify \/ Poll
    BY <1>1, <1>2 DEF Call, FillDesc, AddAvailRing, AddAvailIdx, Notify, Poll
  <1>3. CASE Return
    <2>1. EntryLength = answer
      BY <1>3 DEF Return, Flow, Returned, EntryLength
    <2> QED
      BY <1>1, <1>3, <2>1 DEF Return
  <1>4. ~LoadEarly
    BY <1>1 DEF LoadEarly
  <1>5. CASE DevFetch \/ DevPublish \/ DevSleep \/ UNCHANGED vars
    BY <1>1, <1>5 DEF DevFetch, DevPublish, DevSleep
  <1>6. CASE DevAnswer
    <2>1. pc # "idle"
      BY <1>6 DEF DevAnswer, Flow, Quiet
    <2> QED
      BY <1>1, <1>6, <2>1 DEF DevAnswer
  <1> QED
    BY <1>2, <1>3, <1>4, <1>5, <1>6 DEF Next, DriverStep

-----------------------------------------------------------------------------
(* The theorems.                                                           *)

\* The inductive invariant holds.
THEOREM Invariant == Spec => []IInv
  <1>1. Init => IInv
    BY InitType DEF Init, IInv, Flow, Quiet, InOrder, ReturnsAnswer
  <1>2. IInv /\ [Next]_vars => IInv'
    BY NextType, FlowNext, OrderNext DEF IInv
  <1> QED
    BY <1>1, <1>2, PTL DEF Spec

\* What the device can fetch is the descriptor of the running call, and between
\* calls the counters of both sides agree, on every hart (virtio-pci-rng.c:124).
THEOREM RingCorrect == Spec => []RingInStep
  <1>1. IInv => RingInStep
    <2> SUFFICES ASSUME IInv PROVE SlotIsDescriptor /\ CountersAgree
      BY DEF IInv, RingInStep
    <2>1. pc \in {"idle", "fill", "ring", "publish", "notify", "poll", "read"}
      BY DEF IInv, TypeOK
    <2>2. SlotIsDescriptor
      BY <2>1 DEF IInv, Flow, SlotIsDescriptor, Available, InService, Returned, Quiet
    <2>3. CountersAgree
      BY DEF IInv, Flow, CountersAgree, Quiet
    <2> QED
      BY <2>2, <2>3
  <1> QED
    BY <1>1, Invariant, PTL

\* A call on a hart that keeps the order of its loads returns the length of the
\* device's answer to this call (virtio-pci-rng.c:135-149).
THEOREM AnswerCorrect == Spec => []OrderedReturnsAnswer
  <1>1. IInv => OrderedReturnsAnswer
    BY DEF IInv, InOrder, OrderedReturnsAnswer
  <1> QED
    BY <1>1, Invariant, PTL
=============================================================================
