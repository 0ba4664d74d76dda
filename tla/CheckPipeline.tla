---------------------------- MODULE CheckPipeline ----------------------------
(***************************************************************************)
(* A check's way through the system: the scheduler, the worker processes   *)
(* and the response collector, joined by the queues and the collections of *)
(* Backbone.  Every step is a step of one process, of its connection, or a *)
(* fault.                                                                  *)
(***************************************************************************)
EXTENDS Scheduler, Worker, Collector

vars == <<backboneVars, schedulerVars, workerVars, collectorVars>>

Init == BackboneInit /\ SchedulerInit /\ WorkerInit /\ CollectorInit

Next ==
    \/ SchedulerNext /\ UNCHANGED <<workerVars, collectorVars>>
    \/ (\E w \in Workers : WorkerNext(w)) /\ UNCHANGED <<schedulerVars, collectorVars>>
    \/ CollectorNext /\ UNCHANGED <<schedulerVars, workerVars>>

Spec == Init /\ [][Next]_vars

(***************************************************************************)
(* Every goroutine that can run runs in the end, the broker delivers what  *)
(* it may and processes the acknowledgements it receives, and the          *)
(* auto-flush comes due.  Nothing makes a stopped process start again.     *)
(***************************************************************************)
Fairness ==
    /\ \A r \in Rids : WF_vars(PublishRequest(r) /\ UNCHANGED <<workerVars, collectorVars>>)
    /\ \A w \in Workers :
          /\ WF_vars((\E r \in Rids : WorkerReceive(w, r) \/ WorkerSettle(w, r))
                        /\ UNCHANGED <<schedulerVars, collectorVars>>)
          /\ \A g \in Goroutines :
                WF_vars((Take(w, g) \/ Attempt(w, g) \/ PublishAnswer(w, g))
                           /\ UNCHANGED <<schedulerVars, collectorVars>>)
    /\ WF_vars((\E m \in ResponsesInTransit : CollectorReceive(m) \/ CollectorSettle(m))
                  /\ UNCHANGED <<schedulerVars, workerVars>>)
    /\ WF_vars((TakeResponse \/ HandOver(FALSE) \/ AckResponse)
                  /\ UNCHANGED <<schedulerVars, workerVars>>)
    /\ WF_vars((AutoFlushDue \/ SaveResponses \/ DeleteMarkers)
                  /\ UNCHANGED <<schedulerVars, workerVars>>)

FairSpec == Spec /\ Fairness

-----------------------------------------------------------------------------
(***************************************************************************)
(* A request whose marker was written is in flight until its response is   *)
(* saved, through every crash, lost connection, lost message, failed write *)
(* and shutdown: a check that gets lost on the way can be found by its     *)
(* marker.  (scheduler queue(), main.go:153-159; collector                 *)
(* saveResponseInBuffer, main.go:137-138)                                  *)
(***************************************************************************)
LostStayInFlight ==
    \A r \in Rids : run[r] = "done" => r \in inflight \/ r \in responses

(***************************************************************************)
(* Nothing is invented on the way: whatever request or answer is in a      *)
(* queue, a channel, a goroutine, the buffer or the database belongs to a  *)
(* request that the scheduler has published, marked or not.                *)
(***************************************************************************)
Asked == {r \in Rids : run[r] \in {"mark", "done", "unmarked"}}

AnswersTo(A) == A \X (Nat \ {0})

WorkersWithin(A) ==
    /\ requests \in [Bound -> SUBSET A]
    /\ wLink \in [Workers -> Link(A)]
    /\ \A w \in Workers, g \in Goroutines :
          job[w][g].pc \in {"check", "publish"} => job[w][g].rid \in A
    /\ responsesQueue \subseteq AnswersTo(A)

CollectorWithin(A) ==
    /\ responsesQueue \subseteq AnswersTo(A)
    /\ cLink \in Link(AnswersTo(A))
    /\ recv.hand \in Seq(Delivery(AnswersTo(A)))
    /\ buffer \in Seq(A)
    /\ responses \subseteq A

OnlyAsked == WorkersWithin(Asked) /\ CollectorWithin(Asked)

\* The inductive invariant of the pipeline: those of its parts, what is in
\* transit, and LostStayInFlight.
PInv == WInv /\ SchedulerTypeOK /\ CInv /\ LostStayInFlight /\ OnlyAsked

(***************************************************************************)
(* One request, one answer, one record: what the workers and the collector *)
(* hold of a request at a time, with every repetition paid for by a fault. *)
(* A request is routed once, because the scheduler publishes a firing once.*)
(* (worker, receiveResponses, saveResponseInBuffer)                        *)
(***************************************************************************)
POnce ==
    /\ routed \subseteq Asked
    /\ OnceInv
    /\ CollectorOnce

(***************************************************************************)
(* The pipeline keeps the promise of CheckLedger: markers only move        *)
(* forward and are cleared only for saved responses, and responses are     *)
(* saved only for published requests.  (queue(), saveResponseInBuffer)     *)
(***************************************************************************)
MarkerOf(r) ==
    CASE run[r] \in {"idle", "publish", "dropped"} -> "none"
      [] run[r] = "mark" -> "pending"
      [] run[r] = "unmarked" -> "forgone"
      [] run[r] = "done" -> IF r \in inflight THEN "set" ELSE "cleared"

Ledger == INSTANCE CheckLedger WITH marker <- [r \in Rids |-> MarkerOf(r)],
                                    saved <- responses

LedgerSpec == Ledger!Spec

(***************************************************************************)
(* With every process up from some point on and no fault, each request     *)
(* that reached a queue is answered and its response saved, however often  *)
(* workers were gracefully stopped and restarted before.  A batch that     *)
(* never fills is saved by the auto-flush.                                 *)
(***************************************************************************)
AllUp == cState = "up" /\ \A w \in Workers : wState[w] = "up"

EventuallySaved ==
    <>[]AllUp => \A r \in Rids : r \in routed ~> r \in responses

(***************************************************************************)
(* A marker that is there before its response is saved goes away.  (One    *)
(* written later, by a scheduler slower than the worker and the collector  *)
(* together, stays for good: the delete has come and gone.)                *)
(***************************************************************************)
MarkerCleared ==
    <>[]AllUp => \A r \in Rids :
        r \in inflight /\ r \in routed /\ r \notin responses ~> r \notin inflight
=============================================================================
