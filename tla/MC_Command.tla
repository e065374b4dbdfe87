---------------------------- MODULE MC_Command ----------------------------
\* The commands with and without --edm.
EXTENDS Command
=============================================================================
