------------------------------ MODULE Collector ------------------------------
(***************************************************************************)
(* cmd/response_collector: one process that moves response messages into   *)
(* the responses collection in batches and then removes the in-flight      *)
(* markers of the batch.  Two goroutines share it:                         *)
(*   recv   receiveResponses: takes a delivery, hands the record over an   *)
(*          unbuffered channel to the saver, then acknowledges it, ignoring*)
(*          the result of Ack (main.go:110-111)                            *)
(*   saver  saveResponseInBuffer: appends records to saveBuffer and flushes*)
(*          it when it is full or when the auto-flush time has passed      *)
(* so a response is acknowledged while it is only in memory.               *)
(*                                                                         *)
(* Time is abstracted here: the auto-flush and the end of the grace period *)
(* may come at any moment.  CollectorTiming puts the clocks back.          *)
(***************************************************************************)
EXTENDS Backbone, SequencesExt

CONSTANTS
    BulkSize,    \* RC_BULK_SAVE_SIZE
    UniqueIndex  \* whether responses has its unique index: see Collections

ASSUME CollectorAssumption == BulkSize \in Nat \ {0} /\ UniqueIndex \in BOOLEAN

VARIABLES
    cState,  \* "down", "up", "stopping", or "failed": FailOnError ended it
    cLink,   \* the consumer connection
    recv,    \* receiveResponses: its pc and the delivery in hand, if any
    saver,   \* saveResponseInBuffer: "select", "saving" or "deleting"
    buffer   \* saveBuffer, and RequestIdsToRemoveFromInFlight with it: rids

collectorVars == <<cState, cLink, recv, saver, buffer>>

Receiver == [pc : {"select", "handoff", "ack", "stopped"}, hand : Seq(Delivery(ResponseMsgs))]

Receiving(ds) == [pc |-> "handoff", hand |-> ds]
WaitingForMore == [pc |-> "select", hand |-> <<>>]

CollectorTypeOK ==
    /\ cState \in {"down", "up", "stopping", "failed"}
    /\ cLink \in Link(ResponseMsgs)
    /\ recv \in Receiver
    /\ saver \in {"select", "saving", "deleting"}
    /\ buffer \in Seq(Rids)

CollectorInit ==
    /\ cState = "down"
    /\ cLink = ClosedLink
    /\ recv = WaitingForMore
    /\ saver = "select"
    /\ buffer = <<>>

Running == cState \in {"up", "stopping"}
Rid(m) == m[1]

-----------------------------------------------------------------------------
\* main: a fresh process, whatever ended the one before it.
CollectorStart ==
    /\ ~Running
    /\ cState' = "up"
    /\ cLink' = ConsumingLink
    /\ UNCHANGED <<recv, saver, buffer, backboneVars>>

\* Consume failed, and main ignores the error: a process that looks alive and
\* that no delivery reaches, until somebody restarts it.
CollectorStartDeaf ==
    /\ ~Running
    /\ Spend("deaf")
    /\ cState' = "up"
    /\ cLink' = Cancelled(ConsumingLink)
    /\ UNCHANGED <<recv, saver, buffer, requests, responsesQueue, inflight, responses,
                   historyVars>>

CollectorReceive(m) ==
    /\ m \in responsesQueue
    /\ CanReceive(cLink)
    /\ responsesQueue' = responsesQueue \ {m}
    /\ cLink' = Received(cLink, m)
    /\ UNCHANGED <<cState, recv, saver, buffer, requests, inflight, responses,
                   historyVars, spent>>

\* case response := <-ch
TakeResponse ==
    /\ Running
    /\ recv.pc = "select"
    /\ cLink.ch # <<>>
    /\ recv' = Receiving(<<Head(cLink.ch)>>)
    /\ cLink' = [cLink EXCEPT !.ch = Tail(@)]
    /\ UNCHANGED <<cState, saver, buffer, backboneVars>>

\* Mutant of HandOver: records are appended while the batch is being saved.
HandOverWhileSaving(due) ==
    /\ Running
    /\ recv.pc = "handoff"
    /\ buffer' = Append(buffer, Rid(Head(recv.hand).msg))
    /\ saver' = IF saver # "select" THEN saver
                ELSE IF Len(buffer) + 1 >= BulkSize \/ due THEN "saving" ELSE "select"
    /\ recv' = [recv EXCEPT !.pc = "ack"]
    /\ UNCHANGED <<cState, cLink, backboneVars>>

\* chsave <- record meets record := <-chsave; the buffer is flushed at once if
\* that fills it or if the auto-flush is due.
HandOver(due) ==
    /\ Running
    /\ recv.pc = "handoff"
    /\ saver = "select"
    /\ buffer' = Append(buffer, Rid(Head(recv.hand).msg))
    /\ saver' = IF Len(buffer) + 1 >= BulkSize \/ due THEN "saving" ELSE "select"
    /\ recv' = [recv EXCEPT !.pc = "ack"]
    /\ UNCHANGED <<cState, cLink, backboneVars>>

\* _ = response.Ack(false)
AckResponse ==
    /\ Running
    /\ recv.pc = "ack"
    /\ cLink' = Acked(cLink, Head(recv.hand))
    /\ recv' = WaitingForMore
    /\ UNCHANGED <<cState, saver, buffer, backboneVars>>

\* Mutant of AutoFlushDue: the flush deletes the markers before it saves.
FlushDeletesFirst ==
    /\ Running
    /\ saver = "select"
    /\ saver' = IF buffer = <<>> THEN "select" ELSE "deleting"
    /\ UNCHANGED <<cState, cLink, recv, buffer, backboneVars>>

\* Mutant of AutoFlushDue: only a full buffer is flushed.
FlushFullOnly ==
    /\ Running
    /\ saver = "select"
    /\ saver' = IF Len(buffer) >= BulkSize THEN "saving" ELSE "select"
    /\ UNCHANGED <<cState, cLink, recv, buffer, backboneVars>>

\* time.Since(lastSaved) > RC_SAVE_AUTO_FLUSH_MS; an empty buffer is not saved
\* and deletes no marker.
AutoFlushDue ==
    /\ Running
    /\ saver = "select"
    /\ saver' = IF buffer = <<>> THEN "select" ELSE "saving"
    /\ UNCHANGED <<cState, cLink, recv, buffer, backboneVars>>

\* The ordered InsertMany stores records until the first whose request id is
\* already saved: Storable(n) when it gets past the first n of them.  Without
\* the index it saves them again.
Storable(n) ==
    UniqueIndex => \A i \in 1 .. n :
        buffer[i] \notin responses /\ \A j \in 1 .. i - 1 : buffer[j] # buffer[i]

FirstSaved(n) == responses' = responses \cup {buffer[i] : i \in 1 .. n}

SaveResponses ==
    /\ Running
    /\ saver = "saving"
    /\ Storable(Len(buffer))
    /\ FirstSaved(Len(buffer))
    /\ saver' = "deleting"
    /\ UNCHANGED <<cState, cLink, recv, buffer, requests, responsesQueue, inflight,
                   historyVars, spent>>

\* Mutant of DeleteMarkers: each record overwrites the ids to remove.
DeleteLastMarker ==
    /\ Running
    /\ saver = "deleting"
    /\ inflight' = inflight \ {buffer[Len(buffer)]}
    /\ buffer' = <<>>
    /\ saver' = "select"
    /\ UNCHANGED <<cState, cLink, recv, requests, responsesQueue, responses,
                   historyVars, spent>>

\* deleteInFlightCheckIds, then the buffer and lastSaved are reset.
DeleteMarkers ==
    /\ Running
    /\ saver = "deleting"
    /\ inflight' = inflight \ ToSet(buffer)
    /\ buffer' = <<>>
    /\ saver' = "select"
    /\ UNCHANGED <<cState, cLink, recv, requests, responsesQueue, responses,
                   historyVars, spent>>

-----------------------------------------------------------------------------
\* The process is gone with its memory.  The broker takes back rs and, if it
\* was saving, the first n records of the buffer are in the database.
Vanish(state, rs) ==
    /\ cState' = state
    /\ cLink' = ClosedLink
    /\ recv' = WaitingForMore
    /\ saver' = "select"
    /\ buffer' = <<>>
    /\ responsesQueue' = responsesQueue \cup rs
    /\ UNCHANGED <<requests, inflight, historyVars>>

SavedPart == {n \in 0 .. (IF saver = "saving" THEN Len(buffer) ELSE 0) : Storable(n)}

\* A duplicate request id: InsertMany fails after the records before it and
\* FailOnError ends the process.
SaveDuplicate ==
    /\ Running
    /\ saver = "saving"
    /\ \E n \in 0 .. Len(buffer) - 1 :
          Storable(n) /\ ~Storable(n + 1) /\ FirstSaved(n)
    /\ Vanish("failed", ReturnedByCrash(cLink))
    /\ UNCHANGED spent

\* MongoDB refuses a save or a delete: FailOnError again.
DatabaseFails ==
    /\ Running
    /\ saver \in {"saving", "deleting"}
    /\ Spend("database")
    /\ \E n \in SavedPart : FirstSaved(n)
    /\ Vanish("failed", ReturnedByCrash(cLink))

CollectorCrash ==
    /\ Running
    /\ Spend("collectorCrash")
    /\ \E n \in SavedPart : FirstSaved(n)
    /\ Vanish("down", ReturnedByCrash(cLink))

\* closeHandler: SIGTERM or SIGINT cancels the context.
CollectorStop ==
    /\ cState = "up"
    /\ Spend("collectorStop")
    /\ cState' = "stopping"
    /\ UNCHANGED <<cLink, recv, saver, buffer, requests, responsesQueue, inflight,
                   responses, historyVars>>

CollectorCancel ==
    /\ cState = "stopping"
    /\ cLink.listening
    /\ cLink' = Cancelled(cLink)
    /\ UNCHANGED <<cState, recv, saver, buffer, backboneVars>>

\* receiveResponses leaves its loop; what is still in the channel stays there.
ReceiverStop ==
    /\ cState = "stopping"
    /\ recv.pc = "select"
    /\ recv' = [recv EXCEPT !.pc = "stopped"]
    /\ UNCHANGED <<cState, cLink, saver, buffer, backboneVars>>

\* waitingForTheWorldToEnd: os.Exit(0) without a look at the saver, two seconds
\* after the receiver stopped: the acknowledgements have long left.
CollectorExit ==
    /\ cState = "stopping"
    /\ recv.pc = "stopped"
    /\ \E n \in SavedPart : FirstSaved(n)
    /\ Vanish("down", ReturnedByClose(cLink))
    /\ UNCHANGED spent

CollectorCut(fault, how) ==
    /\ CanCut(cLink, how)
    /\ Spend(fault)
    /\ cLink' = Cut(cLink, how)
    /\ recv' = [recv EXCEPT !.hand = Stale(@)]
    /\ responsesQueue' = responsesQueue \cup ReturnedByCrash(cLink)
    /\ UNCHANGED <<cState, saver, buffer, requests, inflight, responses, historyVars>>

CollectorReconnect ==
    /\ CanReconnect(cLink)
    /\ cLink' = Reconnected(cLink)
    /\ UNCHANGED <<cState, recv, saver, buffer, backboneVars>>

CollectorSettle(m) ==
    /\ m \in cLink.acking
    /\ cLink' = Settled(cLink, m)
    /\ UNCHANGED <<cState, recv, saver, buffer, backboneVars>>

\* The responses that the broker has or has handed out.
ResponsesInTransit == responsesQueue \cup cLink.unacked

CollectorWork ==
    \/ TakeResponse
    \/ AckResponse
    \/ SaveResponses
    \/ SaveDuplicate
    \/ DeleteMarkers
    \/ CollectorCancel
    \/ CollectorReconnect
    \/ \E m \in ResponsesInTransit : CollectorReceive(m) \/ CollectorSettle(m)

CollectorFault ==
    \/ CollectorStartDeaf
    \/ DatabaseFails
    \/ CollectorCrash
    \/ CollectorCut("drop", "closed")
    \/ CollectorCut("channel", "stalled")

CollectorNext ==
    \/ CollectorStart
    \/ CollectorStop
    \/ CollectorWork
    \/ \E due \in BOOLEAN : HandOver(due)
    \/ AutoFlushDue
    \/ ReceiverStop
    \/ CollectorExit
    \/ CollectorFault

-----------------------------------------------------------------------------
InMemory(r) ==
    \/ \E i \in DOMAIN recv.hand : Rid(recv.hand[i].msg) = r
    \/ r \in ToSet(buffer)

Delivering(r) == \E m \in ResponsesInTransit : Rid(m) = r

\* Every published answer is at the broker, in the collector's memory or saved.
AnswersKept == \A r \in Rids : answers[r] > 0 => Delivering(r) \/ InMemory(r) \/ r \in responses

(***************************************************************************)
(* Every published answer is at the broker, in the collector's memory or   *)
(* saved, although it is acknowledged before it is saved, as long as the   *)
(* process is not killed, does not fail and does not exit.                 *)
(* (receiveResponses, main.go:110-111; saveResponseInBuffer, 136-142)      *)
(***************************************************************************)
NoResponseLost ==
    NoFault({"collectorCrash", "collectorStop", "database", "drop", "channel", "workerCrash"}) =>
        AnswersKept

(***************************************************************************)
(* The unique index on requestid is safe to fail on: while no connection,  *)
(* process or database fails, no response is ever inserted twice, so that  *)
(* FailOnError in saveResponsesInDatabase (main.go:156-157) never fires;   *)
(* graceful stops and restarts included.                                   *)
(***************************************************************************)
NeverFailsUnprovoked ==
    NoFault({"collectorCrash", "database", "drop", "channel", "workerCrash"}) =>
        cState # "failed"

(***************************************************************************)
(* What makes a marker safe to delete: the batch being deleted is in the   *)
(* database, whichever way the saver got there.  With the types and the    *)
(* fact that a receiver past its select has a delivery in hand, this is    *)
(* inductive.  (saveResponseInBuffer, main.go:137-138)                     *)
(***************************************************************************)
SavedBeforeDeleted == saver = "deleting" => ToSet(buffer) \subseteq responses

HandFull == recv.pc \in {"handoff", "ack"} => recv.hand # <<>>

CInv == CollectorTypeOK /\ HandFull /\ SavedBeforeDeleted

(***************************************************************************)
(* Why the last two hold, as an inductive invariant beside CInv.  A        *)
(* process that is down has no memory, the receiver has a delivery exactly *)
(* when it has taken one, and a process stops only when told to.           *)
(***************************************************************************)
HandMsgs == {recv.hand[i].msg : i \in DOMAIN recv.hand}

DownIsEmpty ==
    ~Running => /\ cLink = ClosedLink /\ recv = WaitingForMore
                /\ saver = "select" /\ buffer = <<>>

HandMatches ==
    Len(recv.hand) = IF recv.pc \in {"handoff", "ack"} THEN 1 ELSE 0

StopIsCounted == cState = "stopping" => spent["collectorStop"] # 0

\* Nothing has happened that could repeat an answer or a delivery.
Unprovoked ==
    /\ NoFault({"collectorCrash", "database", "drop", "channel"})
    /\ \A r \in Rids : answers[r] <= 1

(***************************************************************************)
(* Then a message is at one place only: in the queue, in the channel, in   *)
(* the receiver's hand, or acknowledged.                                   *)
(***************************************************************************)
OnePlace ==
    /\ DeliveredOnce(cLink)
    /\ \A i \in DOMAIN cLink.ch : cLink.ch[i].live
    /\ responsesQueue \cap cLink.unacked = {}
    /\ HandMsgs \subseteq cLink.unacked \ cLink.acking
    /\ \A i \in DOMAIN recv.hand : recv.hand[i].live
    /\ \A i \in DOMAIN cLink.ch : cLink.ch[i].msg \notin HandMsgs

\* The messages the saver has, whether they are forgotten by the broker or not yet.
HandedOver == cLink.acking \cup (IF recv.pc = "ack" THEN HandMsgs ELSE {})

Collected == ToSet(buffer) \cup responses

(***************************************************************************)
(* And each answer reaches the saver once and is saved once: what is still *)
(* to be handed over is neither in the buffer nor in the database, what    *)
(* has been handed over is in one of them, and in one place of it.         *)
(***************************************************************************)
CollectedOnce ==
    /\ \A m \in ResponsesInTransit : m[2] <= answers[Rid(m)]
    /\ \A r \in Collected : answers[r] > 0
    /\ \A m \in ResponsesInTransit : Rid(m) \in Collected <=> m \in HandedOver
    /\ \A i, j \in DOMAIN buffer : buffer[i] = buffer[j] => i = j
    /\ saver # "deleting" => ToSet(buffer) \cap responses = {}
    /\ cState # "failed"

CollectorOnce ==
    /\ DownIsEmpty
    /\ HandMatches
    /\ StopIsCounted
    /\ Unprovoked => OnePlace /\ CollectedOnce
=============================================================================
