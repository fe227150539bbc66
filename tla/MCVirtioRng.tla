---------------------------- MODULE MCVirtioRng ----------------------------
(* Two lengths that are not 0, the content of an entry never written. *)
EXTENDS VirtioRng

MCLengths == {1, 2}
=============================================================================
