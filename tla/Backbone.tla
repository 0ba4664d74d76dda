------------------------------- MODULE Backbone -------------------------------
(***************************************************************************)
(* What the processes of brainyping share: the request queues and the      *)
(* response queue of RabbitMQ, and the MongoDB collections checks_inflight *)
(* and responses.  A request is known by its rid; a response message is    *)
(* <<rid, n>>, the n-th answer published for that rid.  Queues are sets:   *)
(* several consumers and requeueing leave no order a reader may rely on.   *)
(*                                                                         *)
(* Two history variables make the properties expressible: routed, the      *)
(* requests that reached a queue, and answers, how many answers were       *)
(* published.  spent counts the faults that happened; Budget bounds each   *)
(* kind and MaxFaults their sum, so that the state space is finite.        *)
(***************************************************************************)
EXTENDS QueueConsumer, Functions

CONSTANTS
    Rids,       \* request ids: one per firing of a scheduled check
    Regions,    \* the region.subregion pairs that checks name
    Bound,      \* those for which GLOB_REGIONS made initQueue bind a queue
    Budget,     \* [Faults -> Nat], how often each fault may happen
    MaxFaults   \* how many faults may happen in all

\* What happens to the processes from outside, orderly shutdowns included.
Faults == {"schedulerCrash", "workerCrash", "workerStop", "collectorCrash",
           "collectorStop", "deaf", "drop", "channel", "loss", "database"}

ASSUME BackboneAssumption == Bound \subseteq Regions /\ Budget \in [Faults -> Nat]

VARIABLES
    requests,        \* request queues: [Bound -> SUBSET Rids]
    responsesQueue,  \* the response queue: a set of response messages
    inflight,        \* checks_inflight: the rids marked as being in flight
    responses,       \* responses: rids with a saved response
    routed,          \* history: the rids that reached a request queue
    answers,         \* history: the number of answers published for each rid
    spent            \* faults so far

backboneVars == <<requests, responsesQueue, inflight, responses, routed, answers, spent>>
historyVars == <<routed, answers>>

ResponseMsgs == Rids \X (Nat \ {0})

BackboneTypeOK ==
    /\ requests \in [Bound -> SUBSET Rids]
    /\ responsesQueue \subseteq ResponseMsgs
    /\ inflight \subseteq Rids
    /\ responses \subseteq Rids
    /\ routed \subseteq Rids
    /\ answers \in [Rids -> Nat]
    /\ spent \in [Faults -> Nat]

BackboneInit ==
    /\ requests = [g \in Bound |-> {}]
    /\ responsesQueue = {}
    /\ inflight = {}
    /\ responses = {}
    /\ routed = {}
    /\ answers = [r \in Rids |-> 0]
    /\ spent = [f \in Faults |-> 0]

FaultsSoFar == FoldFunction(+, 0, spent)

Spend(f) ==
    /\ spent[f] < Budget[f]
    /\ FaultsSoFar < MaxFaults
    /\ spent' = [spent EXCEPT ![f] = @ + 1]

\* A message published to the topic exchange reaches the queue bound to its
\* key; the exchange drops it silently when no queue is.
Route(r, g) ==
    IF g \in Bound
    THEN /\ requests' = [requests EXCEPT ![g] = @ \cup {r}]
         /\ routed' = routed \cup {r}
    ELSE UNCHANGED <<requests, routed>>

\* PublishToQueueDirectly: one more answer for r in the response queue.
Answer(r) ==
    /\ answers' = [answers EXCEPT ![r] = @ + 1]
    /\ responsesQueue' = responsesQueue \cup {<<r, answers[r] + 1>>}

Requeue(g, rs) == requests' = [requests EXCEPT ![g] = @ \cup rs]

NoFault(fs) == \A f \in fs : spent[f] = 0
=============================================================================
