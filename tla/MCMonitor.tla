------------------------------ MODULE MCMonitor ------------------------------
\* Two checks, and two results of a check, that nothing tells apart.
EXTENDS StatusMonitor

SameChecks == Permutations(Checks)

\* Where liveness is checked TLC's symmetry is not sound.  The behaviours in
\* which the response of id 1 has one check and one result stand for all of
\* them, since exchanging checks or results maps a behaviour to a behaviour.
OneOfEachKind ==
    1 \in Known => responses[1] = [check |-> CHOOSE c \in Checks : TRUE, status |-> "OK"]
=============================================================================
