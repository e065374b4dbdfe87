----------------------------- MODULE MC_Verify -----------------------------
(* Verify on small instances; the configurations give the constants.        *)
EXTENDS Verify
=============================================================================
