-------------------------- MODULE MCCollectorTiming --------------------------
\* One shutdown and restart of the collector, with or without a lost connection.
EXTENDS CollectorTiming

MCStop == [f \in Faults |-> IF f = "collectorStop" THEN 2 ELSE 0]
MCFaults == [f \in Faults |->
    IF f \in {"collectorStop", "collectorCrash", "database", "deaf", "drop", "channel"} THEN 1 ELSE 0]
=============================================================================
