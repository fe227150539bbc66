-------------------------- MODULE VirtioInitProofs --------------------------
(***************************************************************************)
(* The initialisation of both drivers, for every offer of features, every  *)
(* maximum size of the queue and every way a device answers.               *)
(***************************************************************************)
EXTENDS VirtioInit, TLAPS

\* What an offer is made of, and what queue a driver asks for.
LEMMA Machine ==
  ASSUME TypeOK
  PROVE  /\ device.offered \subseteq Features
         /\ device.max \in Nat
         /\ device.lags \in BOOLEAN
         /\ qsize \in Nat
  BY OfferAssumption, SizeAssumption DEF TypeOK, qsize

\* The two words of the feature registers put together again.
LEMMA Words ==
  ASSUME NEW f \in SUBSET Features
  PROVE  ((f \cap LowWord) \ HighWord) \cup ((f \cap HighWord) \cap HighWord) = f
  BY WordAssumption DEF Features

\* The steps that write the status byte and nothing else of the device.
LEMMA SetBitStep ==
  ASSUME TypeOK, NEW bit \in StatusBits, SetBit(bit)
  PROVE  /\ status' = status \cup {bit} /\ status' \subseteq StatusBits
         /\ dstatus' \in {status', status' \ {"FEATURES_OK"}}
         /\ "FEATURES_OK" \in dstatus \/ "FEATURES_OK" \notin status' => dstatus' = status'
         /\ UNCHANGED <<who, device, features, ret, plic, dselect, dfeatures, queue, vectors>>
  <1>1. status' = status \cup {bit} /\ virtio_pci_set_status(status')
        /\ UNCHANGED <<who, device, features, ret, plic>>
    BY DEF SetBit
  <1>2. status' # {} /\ status' \subseteq StatusBits
    BY <1>1 DEF TypeOK
  <1>3. /\ dstatus' = IF "FEATURES_OK" \in status' /\ "FEATURES_OK" \notin dstatus /\ ~Understood
                        THEN status' \ {"FEATURES_OK"} ELSE status'
        /\ UNCHANGED <<dselect, dfeatures, queue, vectors>>
    BY <1>1, <1>2 DEF virtio_pci_set_status
  <1> QED
    BY <1>1, <1>2, <1>3

\* The invariant holds before the reset, whatever firmware left behind.
LEMMA InitIInv == Init => IInv
  <1> SUFFICES ASSUME Init PROVE IInv
    OBVIOUS
  <1>1. device \in [offered : Offers, max : MaxSizes, accepts : BOOLEAN, lags : BOOLEAN]
        /\ device.offered \subseteq Features /\ device.max \in Nat
    BY OfferAssumption, SizeAssumption DEF Init
  <1>2. queue \in [enabled : BOOLEAN, size : 0..device.max, placed : BOOLEAN]
    <2>1. \E on \in BOOLEAN : queue = [enabled |-> on, size |-> device.max, placed |-> on]
      BY DEF Init
    <2>2. device.max \in 0..device.max
      BY <1>1
    <2> QED
      BY <2>1, <2>2
  <1>3. pc \in PCs /\ dselect \in {0, 1} /\ ret \in {1, 0, -2, -3, -4, -5}
    BY DEF Init, PCs
  <1>4. /\ status \subseteq StatusBits /\ dstatus \subseteq StatusBits
        /\ features \subseteq Features /\ dfeatures \subseteq Features
        /\ plic \in BOOLEAN /\ who \in {"rng", "blk"} /\ vectors \subseteq {"config", "queue"}
    BY <1>1 DEF Init
  <1>5. TypeOK
    BY <1>1, <1>2, <1>3, <1>4 DEF TypeOK
  <1>6. ret = 1 /\ ~plic
    BY DEF Init
  <1>7. Outcome
    BY <1>6 DEF Outcome
  <1> QED
    BY <1>5, <1>7 DEF Init, IInv, Handshake, Negotiation, QueueState, Answered, Written

\* The interrupt stays masked until the function returns 0.
LEMMA Masked == ASSUME IInv, ret = 1 PROVE plic = FALSE
  <1>1. ret # 0 /\ plic \in BOOLEAN
    BY DEF IInv, TypeOK
  <1> QED
    BY <1>1, Zenon DEF IInv, Outcome

\* An error code is neither success nor "running".
LEMMA ErrorCode == ASSUME NEW r \in {-2, -3, -4, -5} PROVE r # 0 /\ r # 1
  OBVIOUS

\* While it is masked only an error code may be returned.
LEMMA OutcomeKeeps ==
  ASSUME IInv, ret = 1, UNCHANGED plic,
         ret' = 1 \/ (ret' \in {-2, -3, -4, -5} /\ pc' \in {"check status", "check queue"})
  PROVE  Outcome'
  <1>1. ~plic'
    BY Masked, Zenon
  <1>2. ret' # 0 /\ (ret' < 0 => pc' \in {"check status", "check queue"})
    <2>1. CASE ret' = 1
      BY <2>1
    <2>2. CASE ret' \in {-2, -3, -4, -5} /\ pc' \in {"check status", "check queue"}
      BY <2>2, ErrorCode, Zenon
    <2> QED
      BY <2>1, <2>2
  <1> QED
    BY <1>1, <1>2, Zenon DEF Outcome

\* The device is reset.
LEMMA ResetKeeps == ASSUME IInv, ResetDevice PROVE IInv'
  <1>1. /\ ret = 1 /\ pc' = "acknowledge" /\ status' = {} /\ dstatus' = {} /\ dfeatures' = {}
        /\ dselect' = 0 /\ vectors' = {}
        /\ queue' = [enabled |-> queue.enabled /\ device.lags, size |-> device.max, placed |-> FALSE]
        /\ UNCHANGED <<who, device, features, ret, plic>>
    BY DEF ResetDevice, At, virtio_pci_set_status
  <1>2. device.max \in 0..device.max /\ (queue.enabled /\ device.lags) \in BOOLEAN
    BY Machine DEF IInv
  <1>3. TypeOK'
    BY <1>1, <1>2 DEF IInv, TypeOK, PCs
  <1>4. Handshake' /\ Negotiation' /\ QueueState'
    BY <1>1 DEF Handshake, Negotiation, QueueState, Answered, Written
  <1>5. Outcome'
    BY <1>1 DEF IInv, Outcome
  <1> QED
    BY <1>3, <1>4, <1>5 DEF IInv

\* Acknowledge, Driver, FeaturesOk and DriverOk.
LEMMA StatusKeeps == ASSUME IInv, Acknowledge \/ Driver \/ FeaturesOk \/ DriverOk PROVE IInv'
  <1> USE DEF At, Answered, Written
  <1>1. PICK bit \in StatusBits : SetBit(bit)
    BY DEF Acknowledge, Driver, FeaturesOk, DriverOk, StatusBits
  <1>2. /\ ret = 1
        /\ UNCHANGED <<who, device, features, ret, plic, dselect, dfeatures, queue, vectors>>
        /\ status' \subseteq StatusBits /\ dstatus' \subseteq StatusBits
    BY <1>1, SetBitStep DEF IInv, Acknowledge, Driver, FeaturesOk, DriverOk
  <1>3. pc' \in PCs
    BY DEF Acknowledge, Driver, FeaturesOk, DriverOk, PCs
  <1>4. TypeOK'
    BY <1>2, <1>3 DEF IInv, TypeOK
  <1>5. Unsupported' = Unsupported /\ qsize' = qsize
    BY <1>2 DEF Unsupported, qsize
  <1>6. Negotiation' /\ QueueState' /\ Outcome'
    BY <1>2, <1>5 DEF IInv, Negotiation, QueueState, Outcome, Acknowledge, Driver, FeaturesOk, DriverOk
  <1>7. Handshake'
    <2>1. CASE Acknowledge
      <3>1. SetBit("ACKNOWLEDGE") /\ pc = "acknowledge" /\ pc' = "driver" /\ "ACKNOWLEDGE" \in StatusBits
        BY <2>1 DEF Acknowledge, StatusBits
      <3> QED
        BY <3>1, SetBitStep DEF IInv, Handshake
    <2>2. CASE Driver
      <3>1. SetBit("DRIVER") /\ pc = "driver" /\ pc' = "features" /\ "DRIVER" \in StatusBits
        BY <2>2 DEF Driver, StatusBits
      <3> QED
        BY <3>1, SetBitStep DEF IInv, Handshake
    <2>3. CASE FeaturesOk
      <3>1. SetBit("FEATURES_OK") /\ pc = "features ok" /\ pc' = "check status" /\ "FEATURES_OK" \in StatusBits
        BY <2>3 DEF FeaturesOk, StatusBits
      <3> QED
        BY <3>1, SetBitStep DEF IInv, Handshake
    <2>4. CASE DriverOk
      <3>1. SetBit("DRIVER_OK") /\ pc = "driver ok" /\ pc' = "finish" /\ "DRIVER_OK" \in StatusBits
        BY <2>4 DEF DriverOk, StatusBits
      <3> QED
        BY <3>1, SetBitStep DEF IInv, Handshake
    <2> QED
      BY <2>1, <2>2, <2>3, <2>4
  <1> QED
    BY <1>4, <1>6, <1>7 DEF IInv

\* The feature words are read, masked and written.
LEMMA FeaturesKeep == ASSUME IInv, ReadFeatures \/ WriteLowWord \/ WriteHighWord PROVE IInv'
  <1> USE DEF At, Answered, Written, deviceVars
  <1>0. device.offered \subseteq Features
    BY Machine DEF IInv
  <1>1. ret = 1 /\ UNCHANGED <<who, device, status, ret, plic, dstatus, queue, vectors>>
    BY DEF ReadFeatures, WriteLowWord, WriteHighWord
  <1>2. Unsupported' = Unsupported /\ qsize' = qsize
    BY <1>1 DEF Unsupported, qsize
  <1>3. Handshake' /\ QueueState' /\ Outcome'
    BY <1>1, <1>2 DEF IInv, Handshake, QueueState, Outcome, ReadFeatures, WriteLowWord, WriteHighWord
  <1>4. CASE ReadFeatures
    <2>1. pc = "features" /\ pc' = "low word" /\ features' = device.offered \ Unsupported
          /\ UNCHANGED <<dselect, dfeatures>>
      BY <1>4 DEF ReadFeatures
    <2>2. TypeOK'
      BY <1>0, <1>1, <2>1 DEF IInv, TypeOK, PCs
    <2>3. Negotiation'
      BY <1>1, <1>2, <2>1 DEF IInv, Negotiation
    <2> QED
      BY <1>3, <2>2, <2>3 DEF IInv
  <1>5. CASE WriteLowWord
    <2>1. pc = "low word" /\ pc' = "high word" /\ dselect' = 0 /\ UNCHANGED features
          /\ dfeatures' = (dfeatures \ LowWord) \cup ((features \cap LowWord) \cap LowWord)
      BY <1>5 DEF WriteLowWord, StoreFeatures
    <2>2. dfeatures' = features \cap LowWord
      BY <2>1 DEF IInv, Negotiation
    <2>3. TypeOK'
      BY <1>1, <2>1, <2>2 DEF IInv, TypeOK, PCs
    <2>4. Negotiation'
      BY <1>1, <1>2, <2>1, <2>2 DEF IInv, Negotiation
    <2> QED
      BY <1>3, <2>3, <2>4 DEF IInv
  <1>6. CASE WriteHighWord
    <2>1. pc = "high word" /\ pc' = "features ok" /\ dselect' = 1 /\ UNCHANGED features
          /\ dfeatures' = (dfeatures \ HighWord) \cup ((features \cap HighWord) \cap HighWord)
      <3>1. pc = "high word" /\ pc' = "features ok" /\ dselect' = 1 /\ UNCHANGED features
            /\ StoreFeatures(features \cap HighWord)
        BY <1>6 DEF WriteHighWord
      <3> DEFINE word == IF dselect' = 0 THEN LowWord ELSE HighWord
      <3>2. dfeatures' = (dfeatures \ word) \cup ((features \cap HighWord) \cap word)
        BY <3>1, Zenon DEF StoreFeatures
      <3>3. dselect' # 0 => word = HighWord
        BY Zenon
      <3>4. \A n : n = 1 => n # 0
        OBVIOUS
      <3> HIDE DEF word
      <3> QED
        BY <3>1, <3>2, <3>3, <3>4, Zenon
    <2>2. dfeatures' = features
      <3>1. dfeatures = features \cap LowWord /\ features \in SUBSET Features
        BY <2>1 DEF IInv, Negotiation, TypeOK
      <3> QED
        BY <2>1, <3>1, Words
    <2>3. TypeOK'
      BY <1>1, <2>1, <2>2 DEF IInv, TypeOK, PCs
    <2>4. Negotiation'
      BY <1>1, <1>2, <2>1, <2>2 DEF IInv, Negotiation
    <2> QED
      BY <1>3, <2>3, <2>4 DEF IInv
  <1> QED
    BY <1>4, <1>5, <1>6

\* The early returns, and the points that only look.
LEMMA ChecksKeep ==
  ASSUME IInv, Refused \/ Agreed \/ QueueInUse \/ NoQueue \/ QueueTooShort \/ QueueFits
  PROVE  IInv'
  <1> USE DEF At, Return, Answered, Written, deviceVars
  <1>1. ret = 1 /\ UNCHANGED <<who, device, features, plic, dstatus, dselect, dfeatures, queue, vectors>>
    BY DEF Refused, Agreed, QueueInUse, NoQueue, QueueTooShort, QueueFits
  <1>2. Unsupported' = Unsupported /\ qsize' = qsize
    BY <1>1 DEF Unsupported, qsize
  <1>3. CASE Refused \/ QueueInUse \/ NoQueue \/ QueueTooShort
    <2>1. /\ UNCHANGED <<pc, status>>
          /\ pc \in {"check status", "check queue"}
          /\ ret' \in {-2, -3, -4, -5}
      BY <1>3 DEF Refused, QueueInUse, NoQueue, QueueTooShort
    <2>2. TypeOK'
      BY <1>1, <2>1 DEF IInv, TypeOK
    <2>3. Handshake' /\ Negotiation' /\ QueueState'
      BY <1>1, <1>2, <2>1 DEF IInv, Handshake, Negotiation, QueueState
    <2>5. Outcome'
      BY <1>1, <2>1, OutcomeKeeps
    <2> QED
      BY <2>2, <2>3, <2>5 DEF IInv
  <1>4. CASE Agreed
    <2>1. pc = "check status" /\ pc' = "check queue" /\ status' = dstatus /\ "FEATURES_OK" \in dstatus
          /\ UNCHANGED ret
      BY <1>4 DEF Agreed
    <2>2. TypeOK'
      BY <1>1, <2>1 DEF IInv, TypeOK, PCs
    <2>3. Handshake' /\ Negotiation' /\ QueueState'
      BY <1>1, <1>2, <2>1 DEF IInv, Handshake, Negotiation, QueueState
    <2>4. Outcome'
      BY <1>1, <2>1, OutcomeKeeps
    <2> QED
      BY <2>2, <2>3, <2>4 DEF IInv
  <1>5. CASE QueueFits
    <2>1. pc = "check queue" /\ pc' = "size" /\ queue.size >= qsize /\ UNCHANGED <<status, ret>>
      BY <1>5 DEF QueueFits
    <2>2. TypeOK'
      BY <1>1, <2>1 DEF IInv, TypeOK, PCs
    <2>3. Handshake' /\ Negotiation' /\ QueueState'
      BY <1>1, <1>2, <2>1 DEF IInv, Handshake, Negotiation, QueueState
    <2>4. Outcome'
      BY <1>1, <2>1, OutcomeKeeps
    <2> QED
      BY <2>2, <2>3, <2>4 DEF IInv
  <1> QED
    BY <1>3, <1>4, <1>5

\* The registers of the queue, and the end.
LEMMA QueueKeeps ==
  ASSUME IInv, SetQueueSize \/ DisableVectors \/ SetQueueAddr \/ SetQueueEnable \/ Finish
  PROVE  IInv'
  <1> USE DEF At, Answered, Written, deviceVars
  <1>1. ret = 1 /\ UNCHANGED <<who, device, status, features, dstatus, dselect, dfeatures>>
    BY DEF SetQueueSize, DisableVectors, SetQueueAddr, SetQueueEnable, Finish
  <1>2. Unsupported' = Unsupported /\ qsize' = qsize
    BY <1>1 DEF Unsupported, qsize
  <1>3. queue \in [enabled : BOOLEAN, size : 0..device.max, placed : BOOLEAN]
        /\ qsize \in Nat /\ device.max \in Nat
    BY Machine DEF IInv, TypeOK
  <1>4. queue' \in [enabled : BOOLEAN, size : 0..device.max, placed : BOOLEAN]
    <2>1. CASE SetQueueSize
      <3>1. qsize \in 0..device.max
        BY <1>3, <2>1 DEF SetQueueSize, IInv, QueueState
      <3> QED
        BY <1>3, <2>1, <3>1 DEF SetQueueSize
    <2>2. CASE DisableVectors \/ SetQueueAddr \/ SetQueueEnable \/ Finish
      BY <1>3, <2>2 DEF DisableVectors, SetQueueAddr, SetQueueEnable, Finish
    <2> QED
      BY <2>1, <2>2
  <1>5. TypeOK'
    BY <1>1, <1>4 DEF IInv, TypeOK, PCs, SetQueueSize, DisableVectors, SetQueueAddr, SetQueueEnable, Finish
  <1>6. Handshake' /\ Negotiation'
    BY <1>1, <1>2 DEF IInv, Handshake, Negotiation, SetQueueSize, DisableVectors, SetQueueAddr,
                      SetQueueEnable, Finish
  <1>7. QueueState'
    BY <1>1, <1>2, <1>3 DEF IInv, QueueState, SetQueueSize, DisableVectors, SetQueueAddr,
                      SetQueueEnable, Finish
  <1>8. Outcome'
    <2>1. CASE Finish
      <3>1. ret' = 0 /\ pc' = "finish"
        BY <2>1 DEF Finish
      <3> QED
        BY <3>1 DEF Outcome
    <2>2. CASE SetQueueSize \/ DisableVectors \/ SetQueueAddr \/ SetQueueEnable
      <3>1. ret' = 1 /\ UNCHANGED plic
        BY <1>1, <2>2 DEF SetQueueSize, DisableVectors, SetQueueAddr, SetQueueEnable
      <3> QED
        BY <1>1, <3>1, OutcomeKeeps
    <2> QED
      BY <2>1, <2>2
  <1> QED
    BY <1>5, <1>6, <1>7, <1>8 DEF IInv

\* Every step keeps the invariant.
LEMMA NextIInv == IInv /\ [Next]_vars => IInv'
  <1>1. ASSUME IInv, UNCHANGED vars PROVE IInv'
    <2>1. /\ who' = who /\ device' = device /\ pc' = pc /\ status' = status /\ features' = features
          /\ ret' = ret /\ plic' = plic /\ dstatus' = dstatus /\ dselect' = dselect
          /\ dfeatures' = dfeatures /\ queue' = queue /\ vectors' = vectors
      BY <1>1 DEF vars, localVars, deviceVars
    <2>2. TypeOK' /\ Outcome'
      BY <1>1, <2>1 DEF IInv, TypeOK, Outcome
    <2>3. Handshake' /\ Negotiation' /\ QueueState'
      BY <1>1, <2>1 DEF IInv, Handshake, Negotiation, QueueState, Unsupported, qsize
    <2> QED
      BY <2>2, <2>3 DEF IInv
  <1> QED
    BY <1>1, ResetKeeps, StatusKeeps, FeaturesKeep, ChecksKeep, QueueKeeps DEF Next

-----------------------------------------------------------------------------
\* The inductive invariant holds.
THEOREM Invariant == Spec => []IInv
  BY InitIInv, NextIInv, PTL DEF Spec

\* DRIVER_OK is only ever set behind the whole of the set-up (virtio-pci-rng.c:57-112,
\* virtio-pci-blk.c:60-116), whatever the device offers and however large its queue.
THEOREM StartedCorrect == Spec => []StartedIsSetUp
  <1>1. IInv => StartedIsSetUp
    <2> SUFFICES ASSUME IInv, pc # "reset", "DRIVER_OK" \in dstatus
                 PROVE  /\ "FEATURES_OK" \in dstatus
                        /\ queue = [enabled |-> TRUE, size |-> qsize, placed |-> TRUE]
                        /\ vectors = {}
      BY DEF StartedIsSetUp
    <2>1. pc = "finish"
      BY DEF IInv, Handshake
    <2>2. "FEATURES_OK" \in dstatus
      BY <2>1 DEF IInv, Handshake, Answered
    <2>3. queue.enabled = TRUE /\ queue.size = qsize /\ queue.placed = TRUE /\ vectors = {}
      BY <2>1 DEF IInv, QueueState, TypeOK
    <2> QED
      BY <2>2, <2>3 DEF IInv, TypeOK
  <1> QED
    BY <1>1, Invariant, PTL

\* Every error return leaves the device without DRIVER_OK and its interrupt
\* masked (virtio-pci-rng.c:65-89, virtio-pci-blk.c:68-92).
THEOREM FailureCorrect == Spec => []FailureIsInert
  <1>1. IInv => FailureIsInert
    BY DEF IInv, TypeOK, Handshake, Outcome, FailureIsInert
  <1> QED
    BY <1>1, Invariant, PTL

\* What device and driver agree on is the offer without what the driver lacks
\* (virtio-pci-rng.c:50-57, virtio-pci-blk.c:48-60).
THEOREM FeaturesCorrect == Spec => []AgreedFeatures
  <1>1. IInv => AgreedFeatures
    <2> SUFFICES ASSUME IInv, pc # "reset", "FEATURES_OK" \in dstatus
                 PROVE  dfeatures = features /\ features = device.offered \ Unsupported
      BY DEF AgreedFeatures, IInv
    <2>1. pc \in Written
      BY DEF IInv, Handshake, Written
    <2> QED
      BY <2>1 DEF IInv, Negotiation
  <1> QED
    BY <1>1, Invariant, PTL

-----------------------------------------------------------------------------
(* The result tells what kind of device it is.                             *)

Agreeable == device.accepts /\ "VERSION_1" \in device.offered

\* What ResultFitsDevice says of every state.
ResultIsDeserved == ret # 1 => ret = Deserved

\* What the reset leaves of the queue, what the device makes of the features,
\* and what each check that has been passed has shown.
Foresight ==
  /\ pc = "reset" => ret = 1 /\ (device.lags => queue.enabled)
  /\ pc \in {"acknowledge", "driver", "features", "low word", "high word", "features ok",
             "check status", "check queue"} =>
       (queue.enabled <=> device.lags) /\ queue.size = device.max
  /\ pc = "check status" => ("FEATURES_OK" \in dstatus <=> Agreeable)
  /\ pc \in Answered => Agreeable
  /\ pc \in Answered \ {"check queue"} => ~device.lags /\ device.max >= qsize
  /\ ResultIsDeserved

\* The device understands what is written of its offer if it is agreeable.
LEMMA Understanding ==
  ASSUME IInv, pc = "features ok"
  PROVE  Understood <=> Agreeable
  <1>1. dfeatures = device.offered \ Unsupported
    BY DEF IInv, Negotiation, Written
  <1>2. "VERSION_1" \notin Unsupported
    BY DEF Unsupported
  <1> QED
    BY <1>1, <1>2 DEF Understood, Agreeable

\* The machine stays the same.
LEMMA SameDevice ==
  ASSUME [Next]_vars
  PROVE  /\ UNCHANGED <<who, device>>
         /\ qsize' = qsize /\ Deserved' = Deserved /\ (Agreeable' <=> Agreeable)
  <1>1. UNCHANGED <<who, device>>
    BY DEF Next, ResetDevice, Acknowledge, Driver, SetBit, ReadFeatures, WriteLowWord, WriteHighWord,
           FeaturesOk, Refused, Agreed, QueueInUse, NoQueue, QueueTooShort, QueueFits, Return,
           SetQueueSize, DisableVectors, SetQueueAddr, SetQueueEnable, DriverOk, Finish, vars
  <1>2. qsize' = qsize
    BY <1>1 DEF qsize
  <1> QED
    BY <1>1, <1>2, Zenon DEF Deserved, Agreeable

\* Every step keeps it.
LEMMA ForesightKeeps == ASSUME IInv, Foresight, [Next]_vars PROVE Foresight'
  <1> USE DEF At
  <1>1. /\ UNCHANGED <<who, device>> /\ qsize' = qsize
        /\ Deserved' = Deserved /\ (Agreeable' <=> Agreeable)
    BY SameDevice
  <1>2. device.lags \in BOOLEAN /\ device.max \in Nat /\ qsize \in Nat \ {0}
    BY Machine DEF IInv, qsize
  <1>3. CASE ResetDevice
    <2>1. /\ pc = "reset" /\ pc' = "acknowledge" /\ ret = 1 /\ ret' = ret
          /\ queue' = [enabled |-> queue.enabled /\ device.lags, size |-> device.max, placed |-> FALSE]
      BY <1>3 DEF ResetDevice, virtio_pci_set_status
    <2>2. queue'.enabled = (queue.enabled /\ device.lags) /\ queue'.size = device.max
      BY <2>1
    <2>3. queue'.enabled <=> device.lags
      BY <2>1, <2>2, Zenon DEF Foresight
    <2>4. ResultIsDeserved'
      BY <2>1 DEF ResultIsDeserved
    <2> QED
      BY <1>1, <2>1, <2>2, <2>3, <2>4 DEF Foresight, Answered
  <1>4. CASE Acknowledge \/ Driver \/ DriverOk
    <2>1. PICK bit \in StatusBits : SetBit(bit)
      BY <1>4 DEF Acknowledge, Driver, DriverOk, StatusBits
    <2>2. UNCHANGED <<device, ret, queue>>
      BY <2>1, SetBitStep DEF IInv
    <2> QED
      BY <1>1, <1>4, <2>2 DEF Acknowledge, Driver, DriverOk, Foresight, ResultIsDeserved, Answered
  <1>5. CASE FeaturesOk
    <2>1. SetBit("FEATURES_OK") /\ pc = "features ok" /\ pc' = "check status" /\ ret = 1
      BY <1>5 DEF FeaturesOk
    <2>2. "FEATURES_OK" \in StatusBits
      BY DEF StatusBits
    <2>3. UNCHANGED <<device, ret, queue>> /\ status' = status \cup {"FEATURES_OK"}
      BY <2>1, <2>2, SetBitStep DEF IInv
    <2>4. "FEATURES_OK" \notin dstatus
      BY <2>1 DEF IInv, Handshake, Answered
    <2>5. dstatus' = IF Understood THEN status' ELSE status' \ {"FEATURES_OK"}
      <3>1. virtio_pci_set_status(status') /\ status' # {} /\ "FEATURES_OK" \in status'
        BY <2>1, <2>3 DEF SetBit
      <3> QED
        BY <2>4, <3>1 DEF virtio_pci_set_status
    <2>6. "FEATURES_OK" \in dstatus' <=> Agreeable
      BY <2>1, <2>3, <2>5, Understanding
    <2> QED
      BY <1>1, <2>1, <2>3, <2>6 DEF Foresight, ResultIsDeserved, Answered
  <1>6. CASE ReadFeatures \/ WriteLowWord \/ WriteHighWord
    BY <1>1, <1>6 DEF ReadFeatures, WriteLowWord, WriteHighWord, deviceVars, Foresight, ResultIsDeserved,
                      Answered
  <1>7. CASE Refused
    <2>1. /\ pc = "check status" /\ "FEATURES_OK" \notin dstatus /\ ret' = -2
          /\ UNCHANGED <<pc, queue, dstatus>>
      BY <1>7 DEF Refused, Return, deviceVars
    <2>2. Deserved = -2
      BY <2>1 DEF Foresight, Agreeable, Deserved
    <2> QED
      BY <1>1, <2>1, <2>2 DEF Foresight, ResultIsDeserved, Answered
  <1>8. CASE Agreed
    BY <1>1, <1>8 DEF Agreed, deviceVars, Foresight, ResultIsDeserved, Answered
  <1>9. CASE QueueInUse \/ NoQueue \/ QueueTooShort
    <2>1. /\ pc = "check queue" /\ UNCHANGED <<pc, queue, dstatus>>
          /\ \/ queue.enabled /\ ret' = -3
             \/ ~queue.enabled /\ queue.size = 0 /\ ret' = -4
             \/ ~queue.enabled /\ queue.size # 0 /\ queue.size < qsize /\ ret' = -5
      BY <1>9 DEF QueueInUse, NoQueue, QueueTooShort, Return, deviceVars
    <2>2. Agreeable /\ (queue.enabled <=> device.lags) /\ queue.size = device.max
      BY <2>1 DEF Foresight, Answered
    <2>3. ret' = Deserved
      <3>1. CASE queue.enabled /\ ret' = -3
        BY <2>2, <3>1, Zenon DEF Deserved, Agreeable
      <3>2. CASE ~queue.enabled /\ queue.size = 0 /\ ret' = -4
        BY <2>2, <3>2, Zenon DEF Deserved, Agreeable
      <3>3. CASE ~queue.enabled /\ queue.size # 0 /\ queue.size < qsize /\ ret' = -5
        BY <2>2, <3>3, Zenon DEF Deserved, Agreeable
      <3> QED
        BY <2>1, <3>1, <3>2, <3>3, Zenon
    <2> QED
      BY <1>1, <2>1, <2>3 DEF Foresight, ResultIsDeserved, Answered
  <1>10. CASE QueueFits
    <2>1. /\ pc = "check queue" /\ pc' = "size" /\ ~queue.enabled /\ queue.size >= qsize
          /\ ret = 1 /\ UNCHANGED <<queue, ret>>
      BY <1>10 DEF QueueFits, deviceVars
    <2> QED
      BY <1>1, <2>1 DEF Foresight, ResultIsDeserved, Answered
  <1>11. CASE SetQueueSize \/ DisableVectors \/ SetQueueAddr \/ SetQueueEnable
    <2>1. /\ pc \in Answered \ {"check queue"} /\ pc' \in {"vectors", "addresses", "enable", "driver ok"}
          /\ ret = 1 /\ ret' = ret
      BY <1>11 DEF SetQueueSize, DisableVectors, SetQueueAddr, SetQueueEnable, Answered
    <2> QED
      BY <1>1, <2>1 DEF Foresight, ResultIsDeserved, Answered
  <1>12. CASE Finish
    <2>1. pc = "finish" /\ pc' = pc /\ ret' = 0
      BY <1>12 DEF Finish
    <2>2. Agreeable /\ ~device.lags /\ device.max >= qsize
      BY <2>1 DEF Foresight, Answered
    <2>3. device.max # 0 /\ ~(device.max < qsize)
      BY <1>2, <2>2
    <2>4. Deserved = 0
      BY <2>2, <2>3, Zenon DEF Deserved, Agreeable
    <2> QED
      BY <1>1, <2>1, <2>2, <2>4 DEF Foresight, ResultIsDeserved, Answered
  <1>13. CASE UNCHANGED vars
    BY <1>1, <1>13 DEF vars, localVars, deviceVars, Foresight, ResultIsDeserved, Answered
  <1> QED
    BY <1>3, <1>4, <1>5, <1>6, <1>7, <1>8, <1>9, <1>10, <1>11, <1>12, <1>13 DEF Next

\* The safety half of ResultFitsDevice: whatever the firmware has left, both
\* drivers' results (virtio-pci-rng.c:38-114, virtio-pci-blk.c:37-124) tell a
\* device that refuses, that is slow to reset, that has no queue, too short a
\* one, and that can be used, and only the last is started.
THEOREM ResultCorrect == Spec => [](ret # 1 => ret = Deserved)
  <1>1. Init => Foresight
    BY DEF Init, Foresight, ResultIsDeserved, Answered
  <1>2. IInv /\ Foresight /\ [Next]_vars => Foresight'
    BY ForesightKeeps
  <1>3. Foresight => (ret # 1 => ret = Deserved)
    BY DEF Foresight, ResultIsDeserved
  <1> QED
    BY <1>1, <1>2, <1>3, Invariant, PTL DEF Spec
=============================================================================
