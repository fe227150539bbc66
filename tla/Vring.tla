------------------------------- MODULE Vring -------------------------------
(***************************************************************************)
(* Where virtio_vring_init (driver/virtio/virtio-ring.c) puts the three    *)
(* areas of a split virtqueue in the buffer it is given.  Addresses are    *)
(* numbers; queue sizes are those a u16 register can hold, for which no    *)
(* sum leaves its u32.                                                     *)
(***************************************************************************)
EXTENDS Integers

CONSTANTS
  Buffers,  \* start addresses of the buffer
  Lengths,  \* its lengths
  QSizes    \* queue sizes

U16Values == 0..65535

ASSUME InputAssumption ==
  Buffers \subseteq Nat /\ Lengths \subseteq Nat /\ QSizes \subseteq U16Values

VARIABLES
  buf, buf_len, qsize,     \* the arguments
  size, desc, avail, used, \* struct vring
  ret                      \* "none" before the return, then what is returned

args == <<buf, buf_len, qsize>>
vr   == <<size, desc, avail, used>>
vars == <<args, vr, ret>>

PAGE     == 4096
DESC     == 16   \* sizeof(struct vring_desc)
ELEM     == 8    \* sizeof(struct vring_used_elem)
RING_HDR == 4    \* flags and idx of either ring
U16      == 2

\* Mutant: down to the page instead of up.
VQ_ALIGN_down(addr) == (addr \div PAGE) * PAGE

VQ_ALIGN(addr) == ((addr + PAGE - 1) \div PAGE) * PAGE

\* Mutant: the used ring is left out.
virtio_vring_size_no_used(n) ==
  VQ_ALIGN(n * DESC) + VQ_ALIGN(RING_HDR + n * U16)

virtio_vring_size(n) ==
  VQ_ALIGN(n * DESC) + VQ_ALIGN(RING_HDR + n * U16) + VQ_ALIGN(RING_HDR + n * ELEM)

\* Where the available ring of n slots goes, and the used ring behind it.
AvailAt(b, n) == VQ_ALIGN(b + n * DESC)

\* Mutant: the used ring starts behind the header of the available ring.
UsedAt_no_ring(b, n) == VQ_ALIGN(AvailAt(b, n) + RING_HDR)

UsedAt(b, n) == VQ_ALIGN(AvailAt(b, n) + RING_HDR + n * U16)

\* pt: one element past the used ring.
UsedEnd(b, n) == UsedAt(b, n) + RING_HDR + n * ELEM + ELEM

Init ==
  /\ buf \in Buffers /\ buf_len \in Lengths /\ qsize \in QSizes
  /\ size = 0 /\ desc = 0 /\ avail = 0 /\ used = 0
  /\ ret = "none"

TooSmall ==
  /\ ret = "none"
  /\ virtio_vring_size(qsize) > buf_len
  /\ ret' = "-1"
  /\ UNCHANGED <<args, vr>>

FillIn ==
  /\ size' = qsize
  /\ desc' = VQ_ALIGN(buf)
  /\ avail' = AvailAt(buf, qsize)
  /\ used' = UsedAt(buf, qsize)

\* Mutant: the overrun of the buffer is not checked.
LayOut_unchecked ==
  /\ ret = "none"
  /\ virtio_vring_size(qsize) <= buf_len
  /\ FillIn
  /\ ret' = "0"
  /\ UNCHANGED args

\* The structure is filled in even when the areas turn out not to fit.
LayOut ==
  /\ ret = "none"
  /\ virtio_vring_size(qsize) <= buf_len
  /\ FillIn
  /\ ret' = IF UsedEnd(buf, qsize) > buf + buf_len THEN "-2" ELSE "0"
  /\ UNCHANGED args

Next == TooSmall \/ LayOut

Spec == Init /\ [][Next]_vars

-----------------------------------------------------------------------------
\* Types.
TypeOK ==
  /\ buf \in Buffers /\ buf_len \in Lengths /\ qsize \in QSizes
  /\ size \in Nat /\ desc \in Nat /\ avail \in Nat /\ used \in Nat
  /\ ret \in {"none", "0", "-1", "-2"}

\* In an accepted page-aligned buffer, which is what both drivers pass, the
\* three areas lie one behind the other, none overlaps the next, each begins on
\* a page boundary and the last ends inside the buffer (virtio-ring.c:35-43).
\* In any other buffer so do all but the first two.
AreasInside ==
  ret = "0" =>
    /\ desc % PAGE = 0 /\ avail % PAGE = 0 /\ used % PAGE = 0
    /\ buf <= desc
    /\ buf % PAGE = 0 => desc + size * DESC <= avail
    /\ avail + RING_HDR + size * U16 <= used
    /\ used + RING_HDR + size * ELEM <= buf + buf_len

\* avail is computed from buf, not from desc (virtio-ring.c:35-37): the end of
\* the descriptor table is clear of the available ring exactly when the table
\* fills its pages, or has more bytes on its last page than were skipped in
\* front of the first.  In other buffers the two overlap.
DescClearOfAvail ==
  ret = "0" =>
    LET skipped == desc - buf
        last    == (size * DESC) % PAGE
    IN  desc + size * DESC <= avail <=> last = 0 \/ skipped < last

\* The sizes a split virtqueue may have.
PowersOfTwo == {1, 2, 4, 8, 16, 32, 64, 128, 256, 512, 1024, 2048, 4096, 8192, 16384, 32768}

\* virtio_vring_size is enough: an aligned buffer of that many bytes is only
\* refused because the end check counts one used element too many
\* (virtio-ring.c:42), which makes a page more for queue sizes a split queue
\* cannot have.
SizeSuffices ==
  /\ TypeOK
  /\ buf % PAGE = 0 /\ ret = "-2" => qsize % 512 = 511

\* The event fields that follow the rings have room in them as well.
EventFieldsFit ==
  ret = "0" /\ qsize \in PowersOfTwo =>
    /\ avail + RING_HDR + size * U16 + U16 <= used
    /\ used + RING_HDR + size * ELEM + U16 <= buf + buf_len
=============================================================================
