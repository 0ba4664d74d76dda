--------------------------- MODULE CollectorTiming ---------------------------
(***************************************************************************)
(* The response collector with its clocks, counted in seconds: when the    *)
(* saver flushes, when the receiver considers its grace period over and    *)
(* when the process exits.  Collector's actions are kept as they are, with *)
(* the time conditions of the code added to their guards.                  *)
(*                                                                         *)
(* Work is quick next to a second: time passes only while the saver waits, *)
(* the receiver has nothing to do and no acknowledgement is on its way.    *)
(* The workers are any source of first answers.                            *)
(***************************************************************************)
EXTENDS Collector

CONSTANTS
    Grace,      \* RC_GRACE_PERIOD_MS
    AutoFlush,  \* RC_SAVE_AUTO_FLUSH_MS
    ExitDelay   \* the sleep before os.Exit: 2 seconds in the code

ASSUME TimingAssumption == {Grace, AutoFlush, ExitDelay} \subseteq Nat

VARIABLES
    sinceSaved,  \* time since lastSaved, up to AutoFlush + 1
    sinceMsg,    \* time since lastMsgTime, up to Grace + 1
    sinceStop    \* time since the receiver stopped, up to ExitDelay

clocks == <<sinceSaved, sinceMsg, sinceStop>>
ctVars == <<backboneVars, collectorVars, clocks>>

ClocksOK ==
    /\ sinceSaved \in 0 .. AutoFlush + 1
    /\ sinceMsg \in 0 .. Grace + 1
    /\ sinceStop \in 0 .. ExitDelay

FlushDue == sinceSaved > AutoFlush

\* lastSaved starts at boot, lastMsgTime at the zero time, long ago.
FreshClocks == sinceSaved' = 0 /\ sinceMsg' = Grace + 1 /\ sinceStop' = 0

CTInit ==
    /\ BackboneInit
    /\ CollectorInit
    /\ sinceSaved = 0
    /\ sinceMsg = Grace + 1
    /\ sinceStop = 0

Later(t, bound) == IF t < bound THEN t + 1 ELSE t

Quiet ==
    /\ saver = "select"
    /\ ~FlushDue
    /\ recv.pc \in {"select", "stopped"}
    /\ recv.pc = "select" => cLink.ch = <<>>
    /\ cLink.acking = {}

Tick ==
    /\ Running
    /\ Quiet
    /\ ~(recv.pc = "stopped" /\ sinceStop = ExitDelay)
    /\ sinceSaved' = Later(sinceSaved, AutoFlush + 1)
    /\ sinceMsg' = Later(sinceMsg, Grace + 1)
    /\ sinceStop' = IF recv.pc = "stopped" THEN Later(sinceStop, ExitDelay) ELSE sinceStop
    /\ UNCHANGED <<backboneVars, collectorVars>>

\* A worker publishes the first answer to a request that is in flight.
AnswerArrives(r) ==
    /\ answers[r] = 0
    /\ Answer(r)
    /\ inflight' = inflight \cup {r}
    /\ UNCHANGED <<requests, responses, routed, spent, collectorVars, clocks>>

TimedStart == (CollectorStart \/ CollectorStartDeaf) /\ FreshClocks

TimedTake == TakeResponse /\ sinceMsg' = 0 /\ UNCHANGED <<sinceSaved, sinceStop>>

TimedAutoFlush ==
    /\ FlushDue
    /\ AutoFlushDue
    /\ sinceSaved' = IF buffer = <<>> THEN 0 ELSE sinceSaved
    /\ UNCHANGED <<sinceMsg, sinceStop>>

\* InsertMany returns, with or without the error that ends the process.
TimedSave ==
    \/ SaveResponses /\ UNCHANGED clocks
    \/ SaveDuplicate /\ FreshClocks

TimedDelete == DeleteMarkers /\ sinceSaved' = 0 /\ UNCHANGED <<sinceMsg, sinceStop>>

\* Mutants of TimedReceiverStop: no grace period, and the wrong clock.
ReceiverStopsAtOnce == ReceiverStop /\ UNCHANGED clocks
ReceiverStopsAfterSave == sinceSaved > Grace /\ ReceiverStop /\ UNCHANGED clocks

TimedReceiverStop == sinceMsg > Grace /\ ReceiverStop /\ UNCHANGED clocks

TimedExit == sinceStop = ExitDelay /\ CollectorExit /\ FreshClocks

Untimed ==
    \/ HandOver(FlushDue)
    \/ AckResponse
    \/ CollectorStop
    \/ CollectorCancel
    \/ CollectorReconnect
    \/ \E m \in ResponsesInTransit : CollectorReceive(m) \/ CollectorSettle(m)
    \/ CollectorCut("channel", "stalled")
    \/ CollectorCut("drop", "closed")

CTNext ==
    \/ Tick
    \/ \E r \in Rids : AnswerArrives(r)
    \/ TimedStart
    \/ TimedTake
    \/ TimedAutoFlush
    \/ TimedDelete
    \/ TimedReceiverStop
    \/ TimedExit
    \/ TimedSave
    \/ (DatabaseFails \/ CollectorCrash) /\ FreshClocks
    \/ Untimed /\ UNCHANGED clocks

CTSpec == CTInit /\ [][CTNext]_ctVars

\* Time passes and every goroutine that can run runs.
CTFairSpec ==
    /\ CTSpec
    /\ WF_ctVars(Tick)
    /\ WF_ctVars(TimedTake \/ TimedReceiverStop)
    /\ WF_ctVars(TimedAutoFlush \/ TimedDelete \/ TimedSave)
    /\ WF_ctVars((HandOver(FlushDue) \/ AckResponse) /\ UNCHANGED clocks)
    /\ WF_ctVars((\E m \in ResponsesInTransit : CollectorSettle(m)) /\ UNCHANGED clocks)
    /\ WF_ctVars(TimedExit)

-----------------------------------------------------------------------------
(***************************************************************************)
(* What the clocks say of the receiver, the saver and the buffer: a        *)
(* record was appended after the last save began to be awaited and no      *)
(* earlier than the last message came, and the process has been stopping   *)
(* for less time than it has not saved, once the grace period is over.     *)
(***************************************************************************)
ClocksAgree ==
    /\ recv.pc \in {"handoff", "ack"} => sinceMsg = 0
    /\ recv.pc # "stopped" => sinceStop = 0
    /\ buffer # <<>> => IF recv.pc = "stopped" THEN sinceSaved > Grace + sinceStop
                                              ELSE sinceSaved >= sinceMsg

(***************************************************************************)
(* The clocks change none of what the untimed collector keeps: with the    *)
(* types, a batch whose markers are being deleted is in the database, be   *)
(* the flush due to a full buffer or to the clock, and a response reaches  *)
(* the saver once.  (saveResponseInBuffer, main.go:136-142)                *)
(***************************************************************************)
TimingInv ==
    /\ ClocksOK
    /\ BackboneTypeOK
    /\ CInv
    /\ CollectorOnce
    /\ ClocksAgree
    /\ \A r \in Rids : answers[r] <= 1

(***************************************************************************)
(* A graceful exit loses nothing: an answer that has been acknowledged is  *)
(* in memory of a live process or in the database, a shutdown at any       *)
(* moment included.  The grace period exists "to make sure all buffered    *)
(* responses are saved" (migration 20220202214331, line 35), but the exit  *)
(* waits for the receiver only; so this holds where the grace period and   *)
(* the sleep together outlast the auto-flush, and not with the defaults.   *)
(***************************************************************************)
GracefulExitSavesAll ==
    NoFault({"collectorCrash", "database", "drop", "channel"}) => AnswersKept

(***************************************************************************)
(* A stopping collector ends, and nothing it does meanwhile, the last      *)
(* flush included, can keep it from ending.                                *)
(***************************************************************************)
CollectorShutdownCompletes == cState = "stopping" ~> ~Running

(***************************************************************************)
(* A response in the buffer of a process that is neither killed nor fails  *)
(* is saved even if no other response ever arrives to fill the batch.      *)
(***************************************************************************)
PartialBatchSaved ==
    \A r \in Rids : r \in ToSet(buffer) ~> r \in responses \/ ~Running
=============================================================================
