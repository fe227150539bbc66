------------------------------ MODULE MCSystem ------------------------------
(***************************************************************************)
(* Two rounds of the block test need four sectors: a disk of three has its *)
(* end in the middle of the second, one of four is just large enough, and  *)
(* one of 33 shows 1 in the low word of its capacity.  A disk may hold     *)
(* what an earlier run has written.  The rng decides whether the disk is   *)
(* looked at.                                                              *)
(***************************************************************************)
EXTENDS System

Machine(r, d, s, c) == [rng |-> r, blk |-> d, size |-> s, contents |-> c]

MCMachines ==
  {Machine("ok", "ok", s, "other") : s \in {3, 4, 33}}
  \cup {Machine("ok", "ok", 4, "pattern")}
  \cup {Machine("ok", d, 4, "other") : d \in Kinds \ {"ok"}}
  \cup {Machine(r, "ok", 4, "other") : r \in Kinds \ {"ok"}}

MCSizes == {3}
=============================================================================
