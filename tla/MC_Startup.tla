----------------------------- MODULE MC_Startup -----------------------------
(* Startup on small instances; only the command line is bounded.           *)
EXTENDS Startup
=============================================================================
