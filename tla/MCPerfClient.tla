---------------------------- MODULE MCPerfClient ----------------------------
(* PerfClient with machines of two CPUs, or one, and nothing else.         *)
EXTENDS PerfClient, TLC

TwoCpus ==
    [t \in Tables |-> CASE t = "cpu_metrics" -> 2
                        [] t = "memory_metrics" -> 1
                        [] OTHER -> 0]

\* The least there is to store: one row in every other table.
OneCpu == [t \in Tables |-> IF t \in {"cpu_metrics", "memory_metrics"} THEN 1 ELSE 0]

Symmetry == Permutations(Hosts)
==============================================================================
