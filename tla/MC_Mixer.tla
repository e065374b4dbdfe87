------------------------------ MODULE MC_Mixer ------------------------------
(* Mixer on small instances: the weights of the configuration.             *)
EXTENDS Mixer

SmallWeights == {-1, 0, 2, 3}
=============================================================================
