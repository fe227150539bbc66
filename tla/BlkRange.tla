------------------------------ MODULE BlkRange ------------------------------
(***************************************************************************)
(* The range check of virtio_pci_blk_rw: which requests it lets through to *)
(* the device.  addr and data_len of struct blk_buf are u32 and so is      *)
(* their sum; the capacity is the low u32 of the 64 bits the device shows; *)
(* the sectors a request starts at and ends in are rounded down.           *)
(***************************************************************************)
EXTENDS Integers

CONSTANTS
  Word,    \* values of a u32
  SECTOR   \* SECTOR_SZIE: bytes of a sector

\* 2^32 and 512: a wrapping sum of whole sectors is made of whole sectors.
ASSUME RangeAssumption ==
  Word \in Nat \ {0} /\ SECTOR \in Nat \ {0} /\ Word % SECTOR = 0

U32 == 0..Word - 1

\* blk->capacity = cfg->capacity
StoredCapacity(sectors) == sectors % Word

StartSector(addr) == addr \div SECTOR

\* Mutant: the request is taken to end where it starts.
EndSector_start(addr, len) == addr \div SECTOR

EndSector(addr, len) == ((addr + len) % Word) \div SECTOR

\* Mutant: one sector past the end is let through.
InRange_off_by_one(addr, len, capacity) == EndSector(addr, len) <= capacity + 1

InRange(addr, len, capacity) == EndSector(addr, len) <= capacity

-----------------------------------------------------------------------------
(***************************************************************************)
(* What the check is worth.                                                *)
(***************************************************************************)

\* Requests the device serves: whole sectors.
Whole(addr, len) == addr % SECTOR = 0 /\ len % SECTOR = 0

\* The bytes of the disk a request moves lie below this one.
EndByte(addr, len) == StartSector(addr) * SECTOR + len

\* What the u32 sum of virtio-pci-blk.c:149 loses.
Lost(addr, len) == IF addr + len < Word THEN 0 ELSE Word

\* A request of whole sectors is let through exactly when it ends inside the
\* disk or, its sum having wrapped, at most 2^32 bytes behind the disk's end:
\* the check is right of the requests that do not wrap and wrong by 2^32 bytes
\* of those that do.  Any other request that is let through ends less than a
\* sector past that.
Exact(addr, len, capacity) ==
  LET end == EndByte(addr, len) - Lost(addr, len)
  IN /\ Whole(addr, len) => (InRange(addr, len, capacity) <=> end <= capacity * SECTOR)
     /\ InRange(addr, len, capacity) => end < (capacity + 1) * SECTOR
=============================================================================
