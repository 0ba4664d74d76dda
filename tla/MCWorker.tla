------------------------------- MODULE MCWorker -------------------------------
\* One worker process with two goroutines, and every fault of its own once.
EXTENDS Worker

MCBudget == [f \in Faults |->
    CASE f \in {"workerCrash", "drop", "channel", "loss"} -> 1
      [] f = "workerStop" -> 2
      [] OTHER -> 0]
MCRegion == [w \in Workers |-> CHOOSE g \in Bound : TRUE]
=============================================================================
