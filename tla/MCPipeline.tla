------------------------------ MODULE MCPipeline ------------------------------
\* Two firings, one worker process, every kind of fault.
EXTENDS CheckPipeline, TLC

MCBudget == [f \in Faults |-> 1]
MCCalm == [f \in Faults |-> IF f = "workerStop" THEN 1 ELSE 0]
Symmetry == Permutations(Rids)
MCRegion == [w \in Workers |-> CHOOSE g \in Bound : TRUE]
=============================================================================
