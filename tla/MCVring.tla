------------------------------ MODULE MCVring ------------------------------
(***************************************************************************)
(* Buffers on and off page boundaries, lengths around the sums of pages    *)
(* the queue sizes need, and queue sizes at and around powers of two and   *)
(* around the sizes whose rings end at the end of a page.                  *)
(***************************************************************************)
EXTENDS Vring

MCBuffers == {0, 1, 2048, 4095} \cup {4096 + i : i \in {0, 2048}}
MCLengths == {n * 4096 + d : n \in 2..17, d \in {-1, 0, 1, 4096 - 8}}
MCQSizes  == {2^n : n \in 0..11} \cup {0, 3, 127, 129, 255, 510, 511, 512, 1023, 2045, 2046, 2047}
=============================================================================
