----------------------------- MODULE MC_Broker -----------------------------
(* Broker on small instances; the configuration gives the constants.        *)
EXTENDS Broker
=============================================================================
