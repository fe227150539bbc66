----------------------------- MODULE RingIndex -----------------------------
(***************************************************************************)
(* The free-running indices of a split virtqueue: they count modulo 2^16   *)
(* and select a slot modulo the size of the queue.                         *)
(***************************************************************************)
EXTENDS Integers

CONSTANTS
  QSize,     \* descriptors in the queue, and slots in each ring
  IdxMod     \* 2^16 in the code: the width of every ring index

ASSUME RingAssumption ==
  /\ QSize \in Nat /\ QSize > 0
  /\ IdxMod \in Nat /\ IdxMod > 0
  /\ IdxMod % QSize = 0

Slots   == 0..QSize - 1
Indices == 0..IdxMod - 1

\* A u16 index after ++ or += 1.
Inc(i) == (i + 1) % IdxMod

\* The slot that index i selects.
Slot(i) == i % QSize
=============================================================================
