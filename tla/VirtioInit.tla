----------------------------- MODULE VirtioInit -----------------------------
(***************************************************************************)
(* virtio_pci_rng_init and virtio_pci_blk_init behind the probe: the       *)
(* handshake over the status byte, the feature words and the registers of  *)
(* queue 0, with every error return.  One action per accessor of           *)
(* driver/virtio/virtio-pci.c; only the main thread touches these          *)
(* registers.  Each accessor of a queue register selects queue 0 first.    *)
(***************************************************************************)
EXTENDS Integers

CONSTANTS
  Offers,    \* feature sets a device may offer
  MaxSizes,  \* what queue 0 may have as its maximum size
  LowWord,   \* features of bits 0 to 31
  HighWord   \* features of bits 32 to 63

Features == LowWord \cup HighWord

ASSUME OfferAssumption == Offers \subseteq SUBSET Features
ASSUME SizeAssumption == MaxSizes \subseteq Nat
ASSUME WordAssumption == LowWord \cap HighWord = {}

VARIABLES
  who,       \* the driver: "rng" or "blk"
  device,    \* what the device is like: [offered, max, accepts, lags]
  pc,        \* control point of the init function
  status,    \* its local: the status bits set so far
  features,  \* its local: what it will accept
  ret,       \* what it returned, 1 while it runs
  plic,      \* plic_enable has been called
  dstatus,   \* device_status
  dselect,   \* driver_feature_select
  dfeatures, \* driver_feature, both words
  queue,     \* queue 0: [enabled, size, placed]
  vectors    \* MSI-X vectors assigned: of "config", of "queue"

localVars  == <<pc, status, features, ret>>
deviceVars == <<dstatus, dselect, dfeatures, queue, vectors>>
vars == <<who, device, localVars, plic, deviceVars>>

StatusBits == {"ACKNOWLEDGE", "DRIVER", "FEATURES_OK", "DRIVER_OK"}

\* What the drivers clear of the features the device offers.
Unsupported ==
  IF who = "rng"
    THEN {"EVENT_IDX", "INDIRECT_DESC"}
    ELSE {"RO", "SCSI", "FLUSH", "CONFIG_WCE", "MQ", "ANY_LAYOUT", "EVENT_IDX", "INDIRECT_DESC"}

qsize == IF who = "rng" THEN 8 ELSE 128

-----------------------------------------------------------------------------
At(from, to) == ret = 1 /\ pc = from /\ pc' = to

Return(from, code) ==
  /\ ret = 1 /\ pc = from
  /\ ret' = code
  /\ UNCHANGED <<who, device, pc, status, features, plic, deviceVars>>

(***************************************************************************)
(* The device.                                                             *)
(***************************************************************************)

\* It refuses a set it does not understand by leaving FEATURES_OK clear.
Understood ==
  /\ device.accepts
  /\ "VERSION_1" \in dfeatures
  /\ dfeatures \subseteq device.offered

\* A write of device_status.  A device that lags has been left running and still
\* shows its queue as enabled for a while after a reset.
virtio_pci_set_status(s) ==
  IF s = {}
    THEN /\ dstatus' = {} /\ dfeatures' = {} /\ dselect' = 0 /\ vectors' = {}
         /\ queue' = [enabled |-> queue.enabled /\ device.lags, size |-> device.max, placed |-> FALSE]
    ELSE /\ dstatus' = IF "FEATURES_OK" \in s /\ "FEATURES_OK" \notin dstatus /\ ~Understood
                         THEN s \ {"FEATURES_OK"} ELSE s
         /\ UNCHANGED <<dselect, dfeatures, queue, vectors>>

\* A write of driver_feature goes to the selected word.
StoreFeatures(bits) ==
  LET word == IF dselect' = 0 THEN LowWord ELSE HighWord
  IN  dfeatures' = (dfeatures \ word) \cup (bits \cap word)

(***************************************************************************)
(* The handshake.                                                          *)
(***************************************************************************)

ResetDevice ==
  /\ At("reset", "acknowledge")
  /\ virtio_pci_set_status({})
  /\ status' = {}
  /\ UNCHANGED <<who, device, features, ret, plic>>

SetBit(bit) ==
  /\ status' = status \cup {bit}
  /\ virtio_pci_set_status(status')
  /\ UNCHANGED <<who, device, features, ret, plic>>

Acknowledge == At("acknowledge", "driver") /\ SetBit("ACKNOWLEDGE")

Driver == At("driver", "features") /\ SetBit("DRIVER")

\* Mutant: what the device offers is accepted as it is.
ReadFeatures_all ==
  /\ At("features", "low word")
  /\ features' = device.offered
  /\ UNCHANGED <<who, device, status, ret, plic, deviceVars>>

\* virtio_pci_get_device_features, and the masks.
ReadFeatures ==
  /\ At("features", "low word")
  /\ features' = device.offered \ Unsupported
  /\ UNCHANGED <<who, device, status, ret, plic, deviceVars>>

\* virtio_pci_set_driver_features: its two halves.
WriteLowWord ==
  /\ At("low word", "high word")
  /\ dselect' = 0
  /\ StoreFeatures(features \cap LowWord)
  /\ UNCHANGED <<who, device, status, features, ret, plic, dstatus, queue, vectors>>

\* Mutant: the selector is not moved to the high word.
WriteHighWord_unselected ==
  /\ At("high word", "features ok")
  /\ UNCHANGED dselect
  /\ StoreFeatures(features \cap HighWord)
  /\ UNCHANGED <<who, device, status, features, ret, plic, dstatus, queue, vectors>>

WriteHighWord ==
  /\ At("high word", "features ok")
  /\ dselect' = 1
  /\ StoreFeatures(features \cap HighWord)
  /\ UNCHANGED <<who, device, status, features, ret, plic, dstatus, queue, vectors>>

\* Mutant: the wrong bit of the status byte.
FeaturesOk_driver_ok == At("features ok", "check status") /\ SetBit("DRIVER_OK")

FeaturesOk == At("features ok", "check status") /\ SetBit("FEATURES_OK")

\* The device has refused the features.
Refused == "FEATURES_OK" \notin dstatus /\ Return("check status", -2)

Agreed ==
  /\ "FEATURES_OK" \in dstatus
  /\ At("check status", "check queue")
  /\ status' = dstatus
  /\ UNCHANGED <<who, device, features, ret, plic, deviceVars>>

QueueInUse == queue.enabled /\ Return("check queue", -3)
NoQueue    == ~queue.enabled /\ queue.size = 0 /\ Return("check queue", -4)

QueueTooShort ==
  ~queue.enabled /\ queue.size # 0 /\ queue.size < qsize /\ Return("check queue", -5)

\* virtio_vring_init succeeds for these sizes in three pages.
QueueFits ==
  /\ ~queue.enabled /\ queue.size >= qsize
  /\ At("check queue", "size")
  /\ UNCHANGED <<who, device, status, features, ret, plic, deviceVars>>

SetQueueSize ==
  /\ At("size", "vectors")
  /\ queue' = [queue EXCEPT !.size = qsize]
  /\ UNCHANGED <<who, device, status, features, ret, plic, dstatus, dselect, dfeatures, vectors>>

DisableVectors ==
  /\ At("vectors", "addresses")
  /\ vectors' = {}
  /\ UNCHANGED <<who, device, status, features, ret, plic, dstatus, dselect, dfeatures, queue>>

SetQueueAddr ==
  /\ At("addresses", "enable")
  /\ queue' = [queue EXCEPT !.placed = TRUE]
  /\ UNCHANGED <<who, device, status, features, ret, plic, dstatus, dselect, dfeatures, vectors>>

\* Mutant: the queue is not enabled.
SetQueueEnable_not ==
  /\ At("enable", "driver ok")
  /\ UNCHANGED <<who, device, status, features, ret, plic, deviceVars>>

SetQueueEnable ==
  /\ At("enable", "driver ok")
  /\ queue' = [queue EXCEPT !.enabled = TRUE]
  /\ UNCHANGED <<who, device, status, features, ret, plic, dstatus, dselect, dfeatures, vectors>>

DriverOk == At("driver ok", "finish") /\ SetBit("DRIVER_OK")

\* The rng driver polls; the block driver turns its interrupt on last.
Finish ==
  /\ ret = 1 /\ pc = "finish"
  /\ plic' = (who = "blk")
  /\ ret' = 0
  /\ UNCHANGED <<who, device, pc, status, features, deviceVars>>

Init ==
  /\ who \in {"rng", "blk"}
  /\ device \in [offered : Offers, max : MaxSizes, accepts : BOOLEAN, lags : BOOLEAN]
  /\ pc = "reset" /\ status = {} /\ features = {} /\ ret = 1
  /\ plic = FALSE
  /\ \/ /\ ~device.lags
        /\ dstatus = {} /\ dselect = 0 /\ dfeatures = {} /\ vectors = {}
        /\ queue = [enabled |-> FALSE, size |-> device.max, placed |-> FALSE]
     \/ \* the firmware has booted from the device and left it running
        /\ dstatus = StatusBits /\ dselect = 1 /\ dfeatures = device.offered
        /\ vectors = {"config", "queue"}
        /\ queue = [enabled |-> TRUE, size |-> device.max, placed |-> TRUE]

Next ==
  \/ ResetDevice \/ Acknowledge \/ Driver
  \/ ReadFeatures \/ WriteLowWord \/ WriteHighWord \/ FeaturesOk
  \/ Refused \/ Agreed
  \/ QueueInUse \/ NoQueue \/ QueueTooShort \/ QueueFits
  \/ SetQueueSize \/ DisableVectors \/ SetQueueAddr \/ SetQueueEnable
  \/ DriverOk \/ Finish

Spec == Init /\ [][Next]_vars /\ WF_vars(Next)

-----------------------------------------------------------------------------
PCs == {"reset", "acknowledge", "driver", "features", "low word", "high word", "features ok",
        "check status", "check queue", "size", "vectors", "addresses", "enable", "driver ok", "finish"}

\* Types; a queue is never larger than its device allows.
TypeOK ==
  /\ who \in {"rng", "blk"}
  /\ device \in [offered : Offers, max : MaxSizes, accepts : BOOLEAN, lags : BOOLEAN]
  /\ pc \in PCs
  /\ status \subseteq StatusBits /\ dstatus \subseteq StatusBits
  /\ features \subseteq Features /\ dfeatures \subseteq Features
  /\ ret \in {1, 0, -2, -3, -4, -5}
  /\ plic \in BOOLEAN
  /\ dselect \in {0, 1}
  /\ queue \in [enabled : BOOLEAN, size : 0..device.max, placed : BOOLEAN]
  /\ vectors \subseteq {"config", "queue"}

\* A device the driver has started is completely set up: it has agreed to the
\* features, its queue is enabled, has the driver's size and the driver's
\* addresses, and raises INTx, not MSI-X.
StartedIsSetUp ==
  pc # "reset" /\ "DRIVER_OK" \in dstatus =>
    /\ "FEATURES_OK" \in dstatus
    /\ queue = [enabled |-> TRUE, size |-> qsize, placed |-> TRUE]
    /\ vectors = {}

\* An initialisation that fails leaves a device that will not touch memory,
\* and an interrupt that is masked.
FailureIsInert ==
  ret < 0 => "DRIVER_OK" \notin dstatus /\ ~plic

\* What is agreed on was offered, is known to both sides alike, and is nothing
\* the README says the driver does not provide.
AgreedFeatures ==
  /\ TypeOK
  /\ pc # "reset" /\ "FEATURES_OK" \in dstatus =>
    /\ dfeatures \subseteq device.offered
    /\ dfeatures = features
    /\ dfeatures \cap Unsupported = {}

\* What is to become of a device: it refuses what is left of its offer, or is
\* not of version 1; it is still in use after the reset, for which no driver
\* waits; its queue is missing, or too short; or it is started.
Deserved ==
  IF ~device.accepts \/ "VERSION_1" \notin device.offered THEN -2
  ELSE IF device.lags THEN -3
  ELSE IF device.max = 0 THEN -4
  ELSE IF device.max < qsize THEN -5
  ELSE 0

\* The function returns, and its result tells what kind of device this is: no
\* device that can be used is turned down by something that an earlier step has
\* left, of the firmware or of the driver, and none that cannot is started
\* (virtio-pci-rng.c:38-114, virtio-pci-blk.c:37-124).
ResultFitsDevice == <>(ret # 1) /\ [](ret # 1 => ret = Deserved)

\* "driver only use standard vring layout (i.e. desc table + avail ring + used
\* ring)"
StandardLayout ==
  who = "blk" /\ pc # "reset" /\ "DRIVER_OK" \in dstatus => "RING_PACKED" \notin dfeatures
-----------------------------------------------------------------------------
(***************************************************************************)
(* The inductive invariant behind the safety properties: what each point   *)
(* of the function may rely on.                                            *)
(***************************************************************************)

\* Points at which the device has accepted the features, and those at which
\* they are written.
Answered == {"check queue", "size", "vectors", "addresses", "enable", "driver ok", "finish"}
Written  == {"features ok", "check status"} \cup Answered

Handshake ==
  /\ pc \notin {"reset", "check status"} \cup Answered => "FEATURES_OK" \notin status \cup dstatus
  /\ pc \in Answered => "FEATURES_OK" \in dstatus /\ status = dstatus
  /\ pc \notin {"reset", "finish"} => "DRIVER_OK" \notin status \cup dstatus

Negotiation ==
  /\ pc \in {"acknowledge", "driver", "features", "low word"} => dfeatures = {}
  /\ pc \in {"low word", "high word"} \cup Written => features = device.offered \ Unsupported
  /\ pc = "high word" => dfeatures = features \cap LowWord
  /\ pc \in Written => dfeatures = features

QueueState ==
  /\ pc = "size" => queue.size >= qsize
  /\ pc \in {"vectors", "addresses", "enable", "driver ok", "finish"} => queue.size = qsize
  /\ pc \in {"enable", "driver ok", "finish"} => queue.placed
  /\ pc \in {"driver ok", "finish"} => queue.enabled
  /\ pc # "reset" => vectors = {}

Outcome ==
  /\ ret = 0 => pc = "finish"
  /\ ret < 0 => pc \in {"check status", "check queue"}
  /\ plic => ret = 0

IInv == TypeOK /\ Handshake /\ Negotiation /\ QueueState /\ Outcome
=============================================================================
