----------------------------- MODULE VirtioRng -----------------------------
(***************************************************************************)
(* virtio_pci_rng_read (driver/virtio/virtio-pci-rng.c): a virtqueue with  *)
(* one descriptor to a request, polled.  The driver compares its own index *)
(* with the device's and then reads the length from the used entry.  No    *)
(* fence stands between these two loads and the second is a plain one, so  *)
(* the compiler or the hart may perform it first.                          *)
(***************************************************************************)
EXTENDS RingIndex

CONSTANTS
  Lengths,  \* number of bytes a request may yield
  NONE

ASSUME LengthAssumption == Lengths \subseteq Nat
ASSUME NoneAssumption == NONE \notin Nat

VARIABLES
  reorder,    \* may this hart let the load of the entry overtake that of the index?
  pc,         \* driver: the next step of virtio_pci_rng_read
  idx,        \* driver: its local, the descriptor of the request
  avail_idx,  \* rng->avail_idx
  used_idx,   \* rng->used_idx
  early,      \* driver: a length loaded ahead of the index, or NONE
  rlen,       \* driver: the length the last call returned, NONE before it
  len,        \* descriptor table: the length of the buffer it leads to
  avail,      \* available ring: [idx, ring]
  used,       \* used ring: [idx, ring of [id, len]]
  dev,        \* device: [stage, head]
  last_avail, \* device: available entries it has taken
  kicked,     \* device: a notification not yet attended to
  answer      \* device: the length of its last answer, NONE before it

callVars == <<pc, idx, early, rlen>>
devVars  == <<reorder, used, dev, last_avail, kicked, answer>>
vars == <<callVars, avail_idx, used_idx, len, avail, devVars>>

At(from, to) == pc = from /\ pc' = to

\* Mutant: the descriptor is chosen by a counter of its own turn.
Call_wrong_slot ==
  /\ At("idle", "fill")
  /\ idx' = Slot(Inc(avail_idx))
  /\ avail_idx' = Inc(avail_idx)
  /\ UNCHANGED <<early, rlen, used_idx, len, avail, devVars>>

\* virtio_pci_rng_read is entered and chooses its descriptor.
Call ==
  /\ At("idle", "fill")
  /\ idx' = Slot(avail_idx)
  /\ avail_idx' = Inc(avail_idx)
  /\ UNCHANGED <<early, rlen, used_idx, len, avail, devVars>>

\* n is the length the caller asked for.
FillDesc(n) ==
  /\ At("fill", "ring")
  /\ len' = [len EXCEPT ![idx] = n]
  /\ UNCHANGED <<idx, early, rlen, avail_idx, used_idx, avail, devVars>>

\* The two halves of virtio_vring_add_avail.
AddAvailRing ==
  /\ At("ring", "publish")
  /\ avail' = [avail EXCEPT !.ring[Slot(avail.idx)] = idx]
  /\ UNCHANGED <<idx, early, rlen, avail_idx, used_idx, len, devVars>>

AddAvailIdx ==
  /\ At("publish", "notify")
  /\ avail' = [avail EXCEPT !.idx = Inc(@)]
  /\ UNCHANGED <<idx, early, rlen, avail_idx, used_idx, len, devVars>>

\* Mutant: the notification is not sent.
Notify_unsent ==
  /\ At("notify", "poll")
  /\ UNCHANGED <<idx, early, rlen, avail_idx, used_idx, len, avail, devVars>>

Notify ==
  /\ At("notify", "poll")
  /\ kicked' = TRUE
  /\ UNCHANGED <<idx, early, rlen, avail_idx, used_idx, len, avail, reorder, used, dev, last_avail, answer>>

EntryLength == used.ring[Slot(used_idx)].len

LoadEarly ==
  /\ reorder
  /\ pc = "poll" /\ early = NONE
  /\ early' = EntryLength
  /\ UNCHANGED <<pc, idx, rlen, avail_idx, used_idx, len, avail, devVars>>

\* The loop ends when the two indices differ.
Poll ==
  /\ At("poll", "read")
  /\ used_idx # used.idx
  /\ UNCHANGED <<idx, early, rlen, avail_idx, used_idx, len, avail, devVars>>

\* Mutant: the index is advanced before the entry is read.
Return_next_entry ==
  /\ At("read", "idle")
  /\ rlen' = used.ring[Slot(Inc(used_idx))].len
  /\ used_idx' = Inc(used_idx)
  /\ early' = NONE
  /\ UNCHANGED <<idx, avail_idx, len, avail, devVars>>

Return ==
  /\ At("read", "idle")
  /\ rlen' = IF early = NONE THEN EntryLength ELSE early
  /\ used_idx' = Inc(used_idx)
  /\ early' = NONE
  /\ UNCHANGED <<idx, avail_idx, len, avail, devVars>>

DriverStep ==
  \/ \E n \in Lengths : FillDesc(n)
  \/ AddAvailRing \/ AddAvailIdx \/ Notify \/ Poll \/ Return

-----------------------------------------------------------------------------
\* The device: one request at a time, any length up to that of the buffer.
DevFetch ==
  /\ dev.stage = "idle"
  /\ last_avail # avail.idx
  /\ dev' = [stage |-> "fetched", head |-> avail.ring[Slot(last_avail)]]
  /\ last_avail' = Inc(last_avail)
  /\ UNCHANGED <<reorder, callVars, avail_idx, used_idx, len, avail, used, kicked, answer>>

DevAnswer ==
  /\ dev.stage = "fetched"
  /\ dev' = [dev EXCEPT !.stage = "answered"]
  /\ answer' \in {n \in Lengths : n <= len[dev.head]}
  /\ used' = [used EXCEPT !.ring[Slot(used.idx)] = [id |-> dev.head, len |-> answer']]
  /\ UNCHANGED <<reorder, callVars, avail_idx, used_idx, len, avail, last_avail, kicked>>

DevPublish ==
  /\ dev.stage = "answered"
  /\ dev' = [dev EXCEPT !.stage = "idle"]
  /\ used' = [used EXCEPT !.idx = Inc(@)]
  /\ UNCHANGED <<reorder, callVars, avail_idx, used_idx, len, avail, last_avail, kicked, answer>>

DevSleep ==
  /\ kicked
  /\ dev.stage = "idle" /\ last_avail = avail.idx
  /\ kicked' = FALSE
  /\ UNCHANGED <<reorder, callVars, avail_idx, used_idx, len, avail, used, dev, last_avail, answer>>

Init ==
  /\ reorder \in BOOLEAN
  /\ pc = "idle" /\ idx = 0 /\ early = NONE /\ rlen = NONE
  /\ avail_idx = 0 /\ used_idx = 0
  /\ len = [s \in Slots |-> 0]
  /\ avail = [idx |-> 0, ring |-> [s \in Slots |-> 0]]
  /\ used = [idx |-> 0, ring |-> [s \in Slots |-> [id |-> 0, len |-> 0]]]
  /\ dev = [stage |-> "idle", head |-> 0]
  /\ last_avail = 0 /\ kicked = FALSE /\ answer = NONE

Next ==
  \/ Call
  \/ DriverStep \/ LoadEarly
  \/ DevFetch \/ DevAnswer \/ DevPublish \/ DevSleep

\* The caller may stop calling, a device that was not notified may sleep.
Spec ==
  /\ Init /\ [][Next]_vars
  /\ WF_vars(DriverStep)
  /\ WF_vars(kicked /\ DevFetch)
  /\ WF_vars(DevAnswer \/ DevPublish)

-----------------------------------------------------------------------------
TypeOK ==
  /\ reorder \in BOOLEAN
  /\ pc \in {"idle", "fill", "ring", "publish", "notify", "poll", "read"}
  /\ idx \in Slots
  /\ avail_idx \in Indices /\ used_idx \in Indices /\ last_avail \in Indices
  /\ early \in Nat \cup {NONE} /\ rlen \in Nat \cup {NONE} /\ answer \in Nat \cup {NONE}
  /\ len \in [Slots -> Nat]
  /\ avail \in [idx : Indices, ring : [Slots -> Slots]]
  /\ used \in [idx : Indices, ring : [Slots -> [id : Slots, len : Nat]]]
  /\ dev \in [stage : {"idle", "fetched", "answered"}, head : Slots]
  /\ kicked \in BOOLEAN

\* A call returns the length of the device's answer to this call: "pt_used_idx
\* == pt_idx means device has not processed yet", and when they differ it has.
ReturnsAnswer == pc = "idle" => rlen = answer

\* On a hart that loads in program order a call does.
OrderedReturnsAnswer == ~reorder => ReturnsAnswer

\* "avail_ring idx == descriptor_table idx": what the device can fetch is the
\* descriptor whose number is the slot it is published in, filled by this call
\* and not yet given away again.
SlotIsDescriptor ==
  /\ last_avail # avail.idx =>
       /\ avail.idx = Inc(last_avail)
       /\ avail.ring[Slot(last_avail)] = Slot(last_avail)
       /\ idx = Slot(last_avail)
  /\ dev.stage # "idle" => dev.head = idx /\ pc \in {"notify", "poll"}

\* Between calls the counters of both sides agree, through every wrap.
CountersAgree ==
  pc = "idle" =>
    /\ avail_idx = avail.idx /\ used_idx = used.idx
    /\ used.idx = avail.idx /\ last_avail = avail.idx

\* Driver and device stay in step on every hart, for any number of calls.
RingInStep == TypeOK /\ SlotIsDescriptor /\ CountersAgree

\* A call returns.
ReadReturns == pc = "fill" ~> pc = "idle"
-----------------------------------------------------------------------------
(***************************************************************************)
(* The inductive invariant behind the safety properties: where the request *)
(* of the call is, told by the indices, and where its answer is.           *)
(***************************************************************************)

Available ==   \* published, not yet fetched
  /\ dev.stage = "idle"
  /\ avail.idx = Inc(last_avail) /\ used.idx = last_avail /\ used_idx = last_avail
  /\ avail.ring[Slot(last_avail)] = idx

InService ==   \* fetched, not yet in the used ring
  /\ dev.stage \in {"fetched", "answered"}
  /\ last_avail = avail.idx /\ avail.idx = Inc(used.idx) /\ used_idx = used.idx
  /\ dev.head = idx
  /\ dev.stage = "answered" => used.ring[Slot(used.idx)].len = answer

Returned ==    \* in the used ring, not yet taken out
  /\ dev.stage = "idle"
  /\ last_avail = avail.idx /\ used.idx = avail.idx /\ avail.idx = Inc(used_idx)
  /\ used.ring[Slot(used_idx)].len = answer

Quiet ==       \* nothing under way
  /\ dev.stage = "idle"
  /\ last_avail = avail.idx /\ used.idx = avail.idx /\ used_idx = avail.idx

Flow ==
  /\ pc \in {"idle", "fill", "ring", "publish"} => Quiet
  /\ pc \in {"notify", "poll"} => Available \/ InService \/ Returned
  /\ pc = "read" => Returned
  /\ pc # "idle" => idx = Slot(used_idx)
  /\ pc = "publish" => avail.ring[Slot(avail.idx)] = idx
  /\ avail_idx = IF pc \in {"fill", "ring", "publish"} THEN Inc(avail.idx) ELSE avail.idx

\* Loads in order leave nothing for later.
InOrder == ~reorder => early = NONE /\ ReturnsAnswer

IInv == TypeOK /\ Flow /\ InOrder
=============================================================================
