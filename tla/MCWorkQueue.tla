---------------------------- MODULE MCWorkQueue ----------------------------
(* Instances of WorkQueue for TLC. *)
EXTENDS WorkQueue, TLC

Interchangeable == Permutations(Requests) \cup Permutations(Workers)
=============================================================================
