--------------------------- MODULE MCHostRegistry ---------------------------
(* HostRegistry on a few processes and host names.                         *)
EXTENDS HostRegistry
==============================================================================
