-------------------------------- MODULE Worker --------------------------------
(***************************************************************************)
(* cmd/worker: processes that take requests from the queue of their region,*)
(* run the check and publish the answer.  A process w runs one consuming   *)
(* goroutine (its link) and a pool of worker goroutines reading the same   *)
(* Go channel.  A goroutine acknowledges a request before it runs it       *)
(* (main.go:217), so from then on only its memory knows of the request.    *)
(*                                                                         *)
(* Time is abstracted: the grace period after SIGTERM is any moment, the   *)
(* throttler and the sleeps between attempts take any time.                *)
(***************************************************************************)
EXTENDS Backbone

CONSTANTS
    Workers,      \* worker processes
    Goroutines,   \* WRK_GOROUTINES: the goroutines of each
    Region,       \* [Workers -> Bound], checked at boot by checkRegionIsValid
    MaxAttempts,  \* attempts at a check that keeps failing: 3 in the code
    NoRid         \* an idle goroutine's request

ASSUME WorkerAssumption ==
    /\ Region \in [Workers -> Bound]
    /\ MaxAttempts \in Nat \ {0}
    /\ NoRid \notin Rids

VARIABLES
    wState,  \* "down", "up" or "stopping" (the context is cancelled)
    wLink,   \* the consumer connection of each process
    job      \* what each goroutine is doing

workerVars == <<wState, wLink, job>>

Job == [pc : {"select", "check", "publish", "stopped"},
        rid : Rids \cup {NoRid}, attempts : 0 .. MaxAttempts]

Idle == [pc |-> "select", rid |-> NoRid, attempts |-> 0]
Stopped == [Idle EXCEPT !.pc = "stopped"]

WorkerTypeOK ==
    /\ wState \in [Workers -> {"down", "up", "stopping"}]
    /\ wLink \in [Workers -> Link(Rids)]
    /\ job \in [Workers -> [Goroutines -> Job]]

WorkerInit ==
    /\ wState = [w \in Workers |-> "down"]
    /\ wLink = [w \in Workers |-> ClosedLink]
    /\ job = [w \in Workers |-> [g \in Goroutines |-> Stopped]]

SetLink(w, k) == wLink' = [wLink EXCEPT ![w] = k]
SetJob(w, g, j) == job' = [job EXCEPT ![w][g] = j]

-----------------------------------------------------------------------------
\* main: the goroutines are started and ready before the queue is consumed.
WorkerStart(w) ==
    /\ wState[w] = "down"
    /\ wState' = [wState EXCEPT ![w] = "up"]
    /\ SetLink(w, ConsumingLink)
    /\ job' = [job EXCEPT ![w] = [g \in Goroutines |-> Idle]]
    /\ UNCHANGED backboneVars

\* The broker hands a request of w's region to w.
WorkerReceive(w, r) ==
    /\ r \in requests[Region[w]]
    /\ CanReceive(wLink[w])
    /\ requests' = [requests EXCEPT ![Region[w]] = @ \ {r}]
    /\ SetLink(w, Received(wLink[w], r))
    /\ UNCHANGED <<wState, job, responsesQueue, inflight, responses, historyVars, spent>>

\* case check := <-ch: acknowledge first; on an error leave the request to its
\* redelivery, else start on it.
Take(w, g) ==
    /\ job[w][g].pc = "select"
    /\ wLink[w].ch # <<>>
    /\ LET d == Head(wLink[w].ch)
       IN /\ SetLink(w, Acked([wLink[w] EXCEPT !.ch = Tail(@)], d))
          /\ IF d.live THEN SetJob(w, g, [pc |-> "check", rid |-> d.msg, attempts |-> 0])
                       ELSE UNCHANGED job
    /\ UNCHANGED <<wState, backboneVars>>

\* What ProcessCheckFromQueue comes to.  A site that does not answer, or not with
\* a 2xx, is a failure and no error; a request that cannot be built is an error;
\* the subtypes that are still to be written always fail.
Outcomes == {"success", "failure", "error"}

\* Mutant of Attempt: the loop tries once more than it should.
AttemptOnceMore(w, g) ==
    LET n == job[w][g].attempts + 1
    IN /\ job[w][g].pc = "check"
       /\ \E outcome \in Outcomes :
             SetJob(w, g, [job[w][g] EXCEPT
                 !.attempts = n,
                 !.pc = IF outcome = "failure" /\ n <= MaxAttempts
                        THEN "check" ELSE "publish"])
       /\ UNCHANGED <<wState, wLink, backboneVars>>

\* One turn of the retry loop: an error and a success end it, a failed check
\* is tried again until MaxAttempts.
Attempt(w, g) ==
    LET n == job[w][g].attempts + 1
    IN /\ job[w][g].pc = "check"
       /\ \E outcome \in Outcomes :
             SetJob(w, g, [job[w][g] EXCEPT
                 !.attempts = n,
                 !.pc = IF outcome = "failure" /\ n < MaxAttempts
                        THEN "check" ELSE "publish"])
       /\ UNCHANGED <<wState, wLink, backboneVars>>

\* PublishResponseForCheckProcessed.
PublishAnswer(w, g) ==
    /\ job[w][g].pc = "publish"
    /\ Answer(job[w][g].rid)
    /\ SetJob(w, g, Idle)
    /\ UNCHANGED <<wState, wLink, requests, inflight, responses, routed, spent>>

\* Publish returned nil, without publisher confirms, on a connection that was
\* already dying: the answer never reaches the broker.
LoseAnswer(w, g) ==
    /\ job[w][g].pc = "publish"
    /\ Spend("loss")
    /\ SetJob(w, g, Idle)
    /\ UNCHANGED <<wState, wLink, requests, responsesQueue, inflight, responses, historyVars>>

-----------------------------------------------------------------------------
\* closeHandler: SIGTERM or SIGINT cancels the context.
WorkerStop(w) ==
    /\ wState[w] = "up"
    /\ Spend("workerStop")
    /\ wState' = [wState EXCEPT ![w] = "stopping"]
    /\ UNCHANGED <<wLink, job, requests, responsesQueue, inflight, responses, historyVars>>

\* StartConsumingMessages takes its ctx.Done branch.
WorkerCancel(w) ==
    /\ wState[w] = "stopping"
    /\ wLink[w].listening
    /\ SetLink(w, Cancelled(wLink[w]))
    /\ UNCHANGED <<wState, job, backboneVars>>

\* Mutant of GoroutineStop: a cancelled context ends a goroutine at work.
GoroutineAbandon(w, g) ==
    /\ wState[w] = "stopping"
    /\ job[w][g].pc # "stopped"
    /\ SetJob(w, g, Stopped)
    /\ UNCHANGED <<wState, wLink, backboneVars>>

\* A goroutine in its select may take the ctx.Done branch whether or not the
\* channel still holds requests.
GoroutineStop(w, g) ==
    /\ wState[w] = "stopping"
    /\ job[w][g].pc = "select"
    /\ SetJob(w, g, Stopped)
    /\ UNCHANGED <<wState, wLink, backboneVars>>

\* allWorkersGracefullyEnded
AllStopped(w) == \A g \in Goroutines : job[w][g].pc = "stopped"

\* Mutant of WorkerExit: main waits for the channel to be drained as well.
WorkerExitDrained(w) ==
    /\ wState[w] = "stopping"
    /\ AllStopped(w)
    /\ wLink[w].ch = <<>>
    /\ wState' = [wState EXCEPT ![w] = "down"]
    /\ SetLink(w, ClosedLink)
    /\ Requeue(Region[w], ReturnedByClose(wLink[w]))
    /\ UNCHANGED <<job, responsesQueue, inflight, responses, historyVars, spent>>

\* allWorkersGracefullyEnded returned: close the connections and exit.
WorkerExit(w) ==
    /\ wState[w] = "stopping"
    /\ AllStopped(w)
    /\ wState' = [wState EXCEPT ![w] = "down"]
    /\ SetLink(w, ClosedLink)
    /\ Requeue(Region[w], ReturnedByClose(wLink[w]))
    /\ UNCHANGED <<job, responsesQueue, inflight, responses, historyVars, spent>>

\* The process dies: a crash, or FailOnError after a publish that failed on an
\* open connection, or os.Exit(1) after a reconnection that failed.
WorkerCrash(w) ==
    /\ wState[w] # "down"
    /\ Spend("workerCrash")
    /\ wState' = [wState EXCEPT ![w] = "down"]
    /\ SetLink(w, ClosedLink)
    /\ job' = [job EXCEPT ![w] = [g \in Goroutines |-> Stopped]]
    /\ Requeue(Region[w], ReturnedByCrash(wLink[w]))
    /\ UNCHANGED <<responsesQueue, inflight, responses, historyVars>>

-----------------------------------------------------------------------------
\* The consumer connection is lost ("drop") or only its channel ("channel").
WorkerCut(w, fault, how) ==
    /\ CanCut(wLink[w], how)
    /\ Spend(fault)
    /\ SetLink(w, Cut(wLink[w], how))
    /\ Requeue(Region[w], ReturnedByCrash(wLink[w]))
    /\ UNCHANGED <<wState, job, responsesQueue, inflight, responses, historyVars>>

WorkerReconnect(w) ==
    /\ CanReconnect(wLink[w])
    /\ SetLink(w, Reconnected(wLink[w]))
    /\ UNCHANGED <<wState, job, backboneVars>>

WorkerSettle(w, r) ==
    /\ r \in wLink[w].acking
    /\ SetLink(w, Settled(wLink[w], r))
    /\ UNCHANGED <<wState, job, backboneVars>>

-----------------------------------------------------------------------------
GoroutineStep(w, g) ==
    \/ Take(w, g)
    \/ Attempt(w, g)
    \/ PublishAnswer(w, g)
    \/ LoseAnswer(w, g)
    \/ GoroutineStop(w, g)

WorkerNext(w) ==
    \/ WorkerStart(w)
    \/ WorkerStop(w)
    \/ WorkerCancel(w)
    \/ WorkerExit(w)
    \/ WorkerCrash(w)
    \/ WorkerCut(w, "drop", "closed")
    \/ WorkerCut(w, "channel", "stalled")
    \/ WorkerReconnect(w)
    \/ \E r \in Rids : WorkerReceive(w, r) \/ WorkerSettle(w, r)
    \/ \E g \in Goroutines : GoroutineStep(w, g)

-----------------------------------------------------------------------------
\* The worker processes alone: the scheduler is any source of fresh requests.
RequestArrives(r, g) ==
    /\ r \notin routed
    /\ Route(r, g)
    /\ UNCHANGED <<responsesQueue, inflight, responses, answers, spent, workerVars>>

WInit == BackboneInit /\ WorkerInit

WNext ==
    \/ \E r \in Rids, g \in Bound : RequestArrives(r, g)
    \/ \E w \in Workers : WorkerNext(w)

wVars == <<backboneVars, workerVars>>

WSpec == WInit /\ [][WNext]_wVars

(***************************************************************************)
(* The Go scheduler runs every goroutine that can run, a select whose      *)
(* ctx.Done case stays ready takes it in the end, and main exits once all  *)
(* goroutines have stopped.  Nothing is assumed of faults, of restarts or  *)
(* of signals.                                                             *)
(***************************************************************************)
WorkerFairness(w) ==
    /\ WF_wVars(WorkerCancel(w))
    /\ WF_wVars(WorkerExit(w))
    /\ \A g \in Goroutines :
          /\ WF_wVars(Take(w, g))
          /\ WF_wVars(Attempt(w, g))
          /\ WF_wVars(PublishAnswer(w, g))
          /\ WF_wVars(GoroutineStop(w, g))

WFairSpec == WSpec /\ \A w \in Workers : WorkerFairness(w)

-----------------------------------------------------------------------------
Holds(w, g, r) == job[w][g].pc \in {"check", "publish"} /\ job[w][g].rid = r

InHand(r) == \E w \in Workers, g \in Goroutines : Holds(w, g, r)

AtBroker(r) ==
    \/ \E g \in Bound : r \in requests[g]
    \/ \E w \in Workers : r \in wLink[w].unacked

(***************************************************************************)
(* Acknowledging before processing costs a request only when a worker      *)
(* process dies or an answer is lost on the wire: lost connections, closed *)
(* channels, reconnections, redeliveries and graceful shutdowns at any     *)
(* moment never do.  (worker, main.go:217-224, 279-284)                    *)
(***************************************************************************)
NoRequestLost ==
    NoFault({"workerCrash", "loss"}) =>
        \A r \in routed : AtBroker(r) \/ InHand(r) \/ answers[r] > 0

(***************************************************************************)
(* Every extra answer is paid for by a fault: while connections and        *)
(* processes survive, graceful restarts included, a request is answered at *)
(* most once, and each fault adds at most one answer.                      *)
(***************************************************************************)
Disruptions == spent["drop"] + spent["channel"] + spent["workerCrash"]

AnswersPaidByFaults == \A r \in Rids : answers[r] <= 1 + Disruptions

(***************************************************************************)
(* Why, as an inductive invariant beside WInv: the broker has a request at *)
(* most once, so that what may still become an answer to r is its copy at  *)
(* the broker, unless the acknowledgement is on its way, and the           *)
(* goroutines that hold r.  A fault can only make the broker's copy count  *)
(* again, and a request that was never routed has no copy at all.          *)
(***************************************************************************)
BrokerOnce ==
    \A r \in Rids :
        /\ \A g, h \in Bound : r \in requests[g] /\ r \in requests[h] => g = h
        /\ \A v, w \in Workers : r \in wLink[v].unacked /\ r \in wLink[w].unacked => v = w
        /\ \A g \in Bound, w \in Workers : ~(r \in requests[g] /\ r \in wLink[w].unacked)

Pending(r) ==
    \/ \E g \in Bound : r \in requests[g]
    \/ \E w \in Workers : r \in wLink[w].unacked \ wLink[w].acking

Holders(r) == {p \in Workers \X Goroutines : Holds(p[1], p[2], r)}

CopiesPaid ==
    \A r \in Rids :
        /\ IsFiniteSet(Holders(r))
        /\ (IF Pending(r) THEN 1 ELSE 0) + Cardinality(Holders(r)) + answers[r] <= 1 + Disruptions

FreshIsNowhere ==
    \A r \in Rids \ routed : ~AtBroker(r) /\ ~InHand(r) /\ answers[r] = 0

OnceInv ==
    /\ BrokerOnce
    /\ \A w \in Workers : DeliveredOnce(wLink[w])
    /\ CopiesPaid
    /\ FreshIsNowhere

(***************************************************************************)
(* Why NoRequestLost holds, as an inductive invariant: a request whose     *)
(* acknowledgement is on its way has been taken by a goroutine that still  *)
(* holds it or has answered it; a goroutine at work has a request and an   *)
(* attempt left; a process that is down holds nothing at all.              *)
(***************************************************************************)
AckedIsTaken ==
    NoFault({"workerCrash", "loss"}) =>
        \A w \in Workers : \A r \in wLink[w].acking : InHand(r) \/ answers[r] > 0

JobSane ==
    \A w \in Workers, g \in Goroutines :
        /\ job[w][g].pc \in {"check", "publish"} => job[w][g].rid \in Rids
        /\ job[w][g].pc = "check" => job[w][g].attempts < MaxAttempts

DownIsIdle ==
    \A w \in Workers : wState[w] = "down" =>
        wLink[w] = ClosedLink /\ AllStopped(w)

WInv ==
    /\ BackboneTypeOK
    /\ WorkerTypeOK
    /\ JobSane
    /\ DownIsIdle
    /\ AckedIsTaken
    /\ NoRequestLost

(***************************************************************************)
(* A process told to stop does stop, whatever its goroutines are doing and *)
(* whatever happens to its connection meanwhile.  (waitingForTheWorldToEnd *)
(* spins on the goroutines' statuses, main.go:334-354)                     *)
(***************************************************************************)
ShutdownCompletes == \A w \in Workers : wState[w] = "stopping" ~> wState[w] = "down"
=============================================================================
