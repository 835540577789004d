----------------------------- MODULE MCPipeline -----------------------------
(* Pipeline for TLC: agents are alike in every safety property. *)
EXTENDS Pipeline, TLC

Symmetry == Permutations(Agents)
==============================================================================
