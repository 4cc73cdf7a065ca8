---------------------------- MODULE MCMPSCQueue ----------------------------
(* Instances of MPSCQueue: addresses are reused, threads are symmetric. *)
EXTENDS MPSCQueue, TLC

MCSymmetry == Permutations(Producer) \cup Permutations(Node)
=============================================================================
