----------------------------- MODULE MCRpcServer -----------------------------
(* RpcServer on small sets of processes and handler threads.               *)
EXTENDS RpcServer

\* Every agent runs under a user name of its own.
DistinctNames == [a \in Agents |-> a]
==============================================================================
