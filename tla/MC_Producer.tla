---------------------------- MODULE MC_Producer ----------------------------
(* Producer on small instances: what the configurations give the constants *)
(* and the permutations under which the safety runs are symmetric.         *)
EXTENDS Producer, TLC

Symmetry == Permutations(Builders) \cup Permutations(Buffers)
=============================================================================
