---------------------------- MODULE MCVirtioInit ----------------------------
(***************************************************************************)
(* Every offer made of two features of the low word the drivers clear, one *)
(* that only the block driver clears, one they keep, and two of the high   *)
(* word; queues of no, too little, just enough and more than enough size.  *)
(***************************************************************************)
EXTENDS VirtioInit

MCLowWord  == {"RO", "EVENT_IDX", "INDIRECT_DESC", "SEG_MAX"}
MCHighWord == {"VERSION_1", "RING_PACKED"}
MCOffers   == SUBSET (MCLowWord \cup MCHighWord)
MCMaxSizes == {0, 7, 8, 127, 128, 256}
=============================================================================
