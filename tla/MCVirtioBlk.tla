---------------------------- MODULE MCVirtioBlk ----------------------------
(***************************************************************************)
(* Instances of VirtioBlk for TLC.  Ring indices that are multiples of the *)
(* queue size, a queue that three descriptors do not divide, and a disk    *)
(* whose end can be overrun by a call.                                     *)
(***************************************************************************)
EXTENDS VirtioBlk

CONSTANTS b1, b2, d1, d2

OneBuf  == {b1}
TwoBufs == {b1, b2}
OneDatum == {d1}
TwoData == {d1, d2}
=============================================================================
