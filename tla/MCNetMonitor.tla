---------------------------- MODULE MCNetMonitor ----------------------------
(* NetMonitor on a machine of up to two interfaces.                        *)
EXTENDS NetMonitor, TLC

Symmetry == Permutations(Names)
==============================================================================
