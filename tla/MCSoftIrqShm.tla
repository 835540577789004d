---------------------------- MODULE MCSoftIrqShm ----------------------------
(* The kernel modules on a machine of two CPUs, with the agent and a test  *)
(* program as their users.                                                 *)
EXTENDS SoftIrqShm
==============================================================================
