------------------------------ MODULE Scheduler ------------------------------
(***************************************************************************)
(* cmd/scheduler: gocron fires the job of each enabled check and runs it   *)
(* in a goroutine of its own; queue() publishes a request to a random      *)
(* region of the check and THEN marks the request as in flight in MongoDB. *)
(* A firing is known by the rid it will use.                               *)
(*                                                                         *)
(* The stages of a firing: "idle" not yet fired, "publish", "mark", "done" *)
(* (published and marked), "unmarked" (published, no marker will follow)   *)
(* and "dropped" (never published).                                        *)
(***************************************************************************)
EXTENDS Backbone

VARIABLES
    sState,  \* "down", "paused" (starting the scheduler) or "running"
    run      \* the stage of each firing

schedulerVars == <<sState, run>>

Stages == {"idle", "publish", "mark", "done", "unmarked", "dropped"}

SchedulerTypeOK ==
    /\ sState \in {"down", "paused", "running"}
    /\ run \in [Rids -> Stages]

SchedulerInit ==
    /\ sState = "down"
    /\ run = [r \in Rids |-> "idle"]

Stage(r, s) == run' = [run EXCEPT ![r] = s]

\* main: the checks are added, the scheduler starts paused.
SchedulerStart ==
    /\ sState = "down"
    /\ sState' = "paused"
    /\ UNCHANGED <<run, backboneVars>>

\* StartAsync returned: schedulerPaused = false.
Unpause ==
    /\ sState = "paused"
    /\ sState' = "running"
    /\ UNCHANGED <<run, backboneVars>>

\* gocron runs queue(): a paused scheduler drops the job, and so does a check
\* without regions.
Fire(r) ==
    /\ sState # "down"
    /\ run[r] = "idle"
    /\ \E hasRegions \in BOOLEAN :
          Stage(r, IF sState = "running" /\ hasRegions THEN "publish" ELSE "dropped")
    /\ UNCHANGED <<sState, backboneVars>>

\* PublishRequestForNewCheck to a region of the check chosen at random.
PublishRequest(r) ==
    /\ run[r] = "publish"
    /\ \E g \in Regions : Route(r, g)
    /\ Stage(r, "mark")
    /\ UNCHANGED <<sState, responsesQueue, inflight, responses, answers, spent>>

\* Publish returned nil on a connection that was already dying.
LoseRequest(r) ==
    /\ run[r] = "publish"
    /\ Spend("loss")
    /\ Stage(r, "mark")
    /\ UNCHANGED <<sState, requests, responsesQueue, inflight, responses, historyVars>>

\* saveRecordAsInFlight
MarkInFlight(r) ==
    /\ run[r] = "mark"
    /\ inflight' = inflight \cup {r}
    /\ Stage(r, "done")
    /\ UNCHANGED <<sState, requests, responsesQueue, responses, historyVars, spent>>

\* saveRecordAsInFlight returned an error, which is only printed.
MarkFails(r) ==
    /\ run[r] = "mark"
    /\ Spend("database")
    /\ Stage(r, "unmarked")
    /\ UNCHANGED <<sState, requests, responsesQueue, inflight, responses, historyVars>>

\* The process dies, or FailOnError ends it after a failed publish: the
\* goroutines die where they are.
SchedulerCrash ==
    /\ sState # "down"
    /\ Spend("schedulerCrash")
    /\ sState' = "down"
    /\ run' = [r \in Rids |-> CASE run[r] = "publish" -> "dropped"
                                [] run[r] = "mark" -> "unmarked"
                                [] OTHER -> run[r]]
    /\ UNCHANGED <<requests, responsesQueue, inflight, responses, historyVars>>

QueueStep(r) ==
    \/ Fire(r)
    \/ PublishRequest(r)
    \/ LoseRequest(r)
    \/ MarkInFlight(r)
    \/ MarkFails(r)

SchedulerNext ==
    \/ SchedulerStart
    \/ Unpause
    \/ SchedulerCrash
    \/ \E r \in Rids : QueueStep(r)
=============================================================================
