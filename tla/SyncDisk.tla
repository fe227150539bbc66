------------------------------ MODULE SyncDisk ------------------------------
(***************************************************************************)
(* What virtio_pci_blk_rw promises its caller: a disk with one synchronous *)
(* operation.  A call names a buffer, a direction and a sector; the disk   *)
(* serves an accepted call exactly once, and only then does the call       *)
(* return.  The operation returns void: its caller is not told whether the *)
(* transfer succeeded.  A call past the end of the disk returns at once    *)
(* and touches nothing.                                                    *)
(***************************************************************************)
EXTENDS Integers

CONSTANTS
  Capacity,  \* sectors of the disk
  Data,      \* contents of a sector or of a buffer
  Bufs       \* the caller's struct blk_buf objects

VARIABLES
  disk,      \* sector -> contents
  mem,       \* buffer -> contents
  phase,     \* where the call is
  req        \* the call's arguments

vars == <<disk, mem, phase, req>>

Init ==
  /\ disk \in [0..Capacity - 1 -> Data]
  /\ mem \in [Bufs -> Data]
  /\ phase = "idle"
  /\ req \in [buf : Bufs, write : BOOLEAN, sector : 0..Capacity - 1]

(* Before a call the caller puts what it likes into its buffer.            *)
Invoke(b, w, s, d) ==
  /\ phase = "idle"
  /\ s < Capacity
  /\ phase' = "busy"
  /\ req' = [buf |-> b, write |-> w, sector |-> s]
  /\ mem' = [mem EXCEPT ![b] = d]
  /\ UNCHANGED disk

Reject(b, d) ==
  /\ phase = "idle"
  /\ mem' = [mem EXCEPT ![b] = d]
  /\ UNCHANGED <<disk, phase, req>>

(* A transfer that succeeds moves the source of the call to its target.    *)
Serve ==
  /\ phase = "busy"
  /\ phase' = "done"
  /\ UNCHANGED req
  /\ IF req.write
       THEN disk' = [disk EXCEPT ![req.sector] = mem[req.buf]] /\ UNCHANGED mem
       ELSE mem' = [mem EXCEPT ![req.buf] = disk[req.sector]] /\ UNCHANGED disk

(* One that fails leaves anything in the target, and nothing elsewhere.    *)
Fail ==
  /\ phase = "busy"
  /\ phase' = "failed"
  /\ UNCHANGED req
  /\ \E d \in Data :
       IF req.write
         THEN disk' = [disk EXCEPT ![req.sector] = d] /\ UNCHANGED mem
         ELSE mem' = [mem EXCEPT ![req.buf] = d] /\ UNCHANGED disk

Reply ==
  /\ phase \in {"done", "failed"}
  /\ phase' = "idle"
  /\ UNCHANGED <<disk, mem, req>>

Next ==
  \/ \E b \in Bufs, w \in BOOLEAN, s \in 0..Capacity, d \in Data : Invoke(b, w, s, d)
  \/ \E b \in Bufs, d \in Data : Reject(b, d)
  \/ Serve
  \/ Fail
  \/ Reply

Spec == Init /\ [][Next]_vars /\ WF_vars(Serve \/ Fail) /\ WF_vars(Reply)
=============================================================================
