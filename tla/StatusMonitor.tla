---------------------------- MODULE StatusMonitor ----------------------------
(***************************************************************************)
(* cmd/status_monitor: one process that reads the responses in the order   *)
(* of their ids, keeps the status of every check in memory and, when a     *)
(* response changes it, sends the check's id to two writers:               *)
(*   current   saves the status of the check, one upsert at a time         *)
(*   changes   buffers a copy of the status and inserts it with others     *)
(* Both copy the status when they take the id from their channel, not when *)
(* the change is detected.  A new process loads the saved statuses and     *)
(* reads on after the response of the last change that was inserted.       *)
(*                                                                         *)
(* Responses are known by their _id, a number; the order of the ids is the *)
(* order in which the checks were run.  None is deleted while the monitor  *)
(* may need it: the retention keeps them for days.                         *)
(***************************************************************************)
EXTENDS Naturals, SequencesExt

CONSTANTS
    Checks,
    MaxId,      \* bounds the responses: their ids are 1 .. MaxId
    MaxStarts,  \* bounds the processes that run one after the other
    ReadLimit,  \* 100, the limit of one find
    ChSize,     \* 100, the capacity of each channel
    BulkSave    \* BULKSAVESIZE

ASSUME MonitorAssumption ==
    /\ MaxId \in Nat
    /\ MaxStarts \in Nat
    /\ {ReadLimit, ChSize, BulkSave} \subseteq Nat \ {0}

VARIABLES
    responses,      \* collection: id -> the check and what was found
    statusChanges,  \* collection checks_status_changes, in insertion order
    statusCurrent,  \* collection checks_status, by check
    phase,          \* "down", "up", "stopping"
    statuses,       \* checksStatuses
    marker,         \* where to read on, and the filterOperator of the next find
    batch,          \* the ids found and not yet sent to the detector
    readCh,         \* chReadResponses
    detector,       \* detectStatusChangesListener: its pc and the changed check
    currentCh,      \* chWriteStatusCurrent
    current,        \* writeStatusCurrentToDbBuffer: its pc, and what it saves
    changesCh,      \* chWriteStatusChanges
    changes,        \* writeStatusChangesToDbBuffer: its pc
    buffer,         \* its recordsToSave
    starts,         \* how many processes there were
    handled,        \* history: the ids the detector has looked at
    happened        \* history: what went wrong, see Interrupted and Skew

database == <<statusChanges, statusCurrent>>
reader == <<marker, batch, readCh>>
currentWriter == <<currentCh, current>>
changesWriter == <<changesCh, changes, buffer>>
history == <<starts, handled, happened>>
vars == <<responses, database, phase, statuses, reader, detector,
          currentWriter, changesWriter, history>>

Ids == 1 .. MaxId
Known == DOMAIN responses
Response == [check : Checks, status : {"OK", "NOK"}]

Status == [cur  : {"NONE", "INIT", "OK", "NOK"},  \* "NONE": there is no record
           prev : {"NONE", "INIT", "OK", "NOK"},
           resp  : Nat,   \* ResponseDbId, and CurrentStatusSince with it
           since : Nat]   \* PreviousStatusSince, as the id of a response
Change == [check : Checks, status : Status]

NoStatus == [cur |-> "NONE", prev |-> "NONE", resp |-> 0, since |-> 0]

Interrupted == "interrupted"  \* a process ended with a change in transit
Skew == "skew"                \* a response was inserted below an older id

Oldest(S) == {i \in S : \A j \in S : i <= j}
FirstOf(S, n) == {i \in S : Cardinality({j \in S : j <= i}) <= n}

Reading(at, op) == [id |-> at, op |-> op]
Detecting == [pc |-> "select", check |-> {}]
Idle == [pc |-> "select", check |-> {}, status |-> NoStatus]

TypeOK ==
    /\ Known \subseteq Ids /\ responses \in [Known -> Response]
    /\ statusChanges \in Seq(Change)
    /\ statusCurrent \in [Checks -> Status]
    /\ phase \in {"down", "up", "stopping"}
    /\ statuses \in [Checks -> Status]
    /\ marker \in [id : 0 .. MaxId, op : {"$gt", "$gte"}]
    /\ batch \subseteq Known
    /\ readCh \in Seq(Known)
    /\ detector \in {Detecting} \cup [pc : {"stopped"}, check : {{}}]
                    \cup [pc : {"current", "changes"}, check : Checks]
    /\ currentCh \in Seq(Checks)
    /\ current \in {Idle} \cup [pc : {"stopped"}, check : {{}}, status : {NoStatus}]
                   \cup [pc : {"saving"}, check : Checks, status : Status]
    /\ changesCh \in Seq(Checks)
    /\ changes \in {"select", "saving", "last", "stopped"}
    /\ buffer \in Seq(Change)
    /\ starts \in 0 .. MaxStarts
    /\ handled \subseteq Known
    /\ happened \subseteq {Interrupted, Skew}

Init ==
    /\ responses = [i \in {} |-> {}]
    /\ statusChanges = <<>>
    /\ statusCurrent = [c \in Checks |-> NoStatus]
    /\ phase = "down"
    /\ statuses = [c \in Checks |-> NoStatus]
    /\ marker = Reading(0, "$gt")
    /\ batch = {}
    /\ readCh = <<>>
    /\ detector = Detecting
    /\ currentCh = <<>>
    /\ current = Idle
    /\ changesCh = <<>>
    /\ changes = "select"
    /\ buffer = <<>>
    /\ starts = 0
    /\ handled = {}
    /\ happened = {}

Running == phase \in {"up", "stopping"}

-----------------------------------------------------------------------------
\* The response collector inserts one more response.  Its id comes from the
\* clock of the process that made it, so it may be below one that is there.
ResponseInserted(i, r) ==
    /\ i \in Ids \ Known
    /\ responses' = [j \in Known \cup {i} |-> IF j = i THEN r ELSE responses[j]]
    /\ happened' = happened \cup {k \in {Skew} : \E j \in Known : i < j}
    /\ UNCHANGED <<database, phase, statuses, reader, detector, currentWriter,
                   changesWriter, starts, handled>>

\* Mutant of LastMarker: the changes are not sorted in reverse.
FirstMarker ==
    IF statusChanges # <<>> THEN {Reading(Head(statusChanges).status.resp, "$gt")}
    ELSE {Reading(i, "$gte") : i \in Oldest(Known)}

\* retrieveLastStatusMonitorMarker: the last change's response, else the oldest
\* response, else none.
LastMarker ==
    IF statusChanges # <<>> THEN {Reading(Last(statusChanges).status.resp, "$gt")}
    ELSE {Reading(i, "$gte") : i \in Oldest(Known)}

\* loadLastKnownStatus; the unique index on checkid rules its error out.  Assumed:
\* its cursor delivers every status.  If it ends with an error, which nobody asks
\* for, the code goes on with some of them.
LastKnownStatus == statusCurrent

\* main: the statuses, then the marker; without one the process ends at
\* once.
Start ==
    /\ phase = "down"
    /\ starts < MaxStarts
    /\ phase' = "up"
    /\ statuses' = LastKnownStatus
    /\ marker' \in LastMarker
    /\ starts' = starts + 1
    /\ UNCHANGED <<responses, database, batch, readCh, detector, currentWriter,
                   changesWriter, handled, happened>>

\* Mutant of Found: $gt in the first turn too.
FoundAfter == {i \in Known : i > marker.id}

Found == {i \in Known : i > marker.id \/ (marker.op = "$gte" /\ i = marker.id)}

\* readResponsesFromMarker: the find of each turn of its loop.  The first turn
\* after a start without changes finds the marker's own response too, so that
\* no other turn sees the marker before it has moved.
FindResponses ==
    /\ Running
    /\ batch = {}
    /\ batch' = FirstOf(Found, ReadLimit)
    /\ UNCHANGED <<responses, database, phase, statuses, marker, readCh, detector,
                   currentWriter, changesWriter, history>>

Send(i) ==
    /\ Len(readCh) < ChSize
    /\ readCh' = Append(readCh, i)
    /\ batch' = batch \ {i}
    /\ marker' = Reading(i, "$gt")

\* Mutant of SendResponse: the find has no sort.
SendUnsorted ==
    /\ Running
    /\ \E i \in batch : Send(i)
    /\ UNCHANGED <<responses, database, phase, statuses, detector, currentWriter,
                   changesWriter, history>>

\* ch <- record, and the marker follows.
SendResponse ==
    /\ Running
    /\ \E i \in Oldest(batch) : Send(i)
    /\ UNCHANGED <<responses, database, phase, statuses, detector, currentWriter,
                   changesWriter, history>>

\* updateCheckStatusElement, on a new element if there is none.
Updated(s, i) ==
    LET known == IF s.cur # "NONE" THEN s
                 ELSE [cur |-> "INIT", prev |-> "NONE", resp |-> i, since |-> 0]
    IN [cur |-> responses[i].status, prev |-> known.cur,
        resp |-> i, since |-> known.resp]

\* detectStatusChanges on the next response; a change starts two sends.
Detect ==
    /\ Running
    /\ detector.pc = "select"
    /\ readCh # <<>>
    /\ LET i == Head(readCh)
           c == responses[i].check
       IN /\ handled' = handled \cup {i}
          /\ \/ /\ statuses[c].cur = responses[i].status
                /\ UNCHANGED <<statuses, detector>>
             \/ /\ statuses[c].cur # responses[i].status
                /\ statuses' = [statuses EXCEPT ![c] = Updated(@, i)]
                /\ detector' = [pc |-> "current", check |-> c]
    /\ readCh' = Tail(readCh)
    /\ UNCHANGED <<responses, database, phase, marker, batch, currentWriter,
                   changesWriter, starts, happened>>

\* Mutant of SendCurrent: a full channel is skipped, not waited for.
SendCurrentOrSkip ==
    /\ Running
    /\ detector.pc = "current"
    /\ currentCh' = IF Len(currentCh) < ChSize THEN Append(currentCh, detector.check)
                    ELSE currentCh
    /\ detector' = [detector EXCEPT !.pc = "changes"]
    /\ UNCHANGED <<responses, database, phase, statuses, reader, current,
                   changesWriter, history>>

\* chWriteStatusCurrent <- record.CheckId
SendCurrent ==
    /\ Running
    /\ detector.pc = "current"
    /\ Len(currentCh) < ChSize
    /\ currentCh' = Append(currentCh, detector.check)
    /\ detector' = [detector EXCEPT !.pc = "changes"]
    /\ UNCHANGED <<responses, database, phase, statuses, reader, current,
                   changesWriter, history>>

\* chWriteStatusChanges <- record.CheckId
SendChange ==
    /\ Running
    /\ detector.pc = "changes"
    /\ Len(changesCh) < ChSize
    /\ changesCh' = Append(changesCh, detector.check)
    /\ detector' = Detecting
    /\ UNCHANGED <<responses, database, phase, statuses, reader, currentWriter,
                   changes, buffer, history>>

-----------------------------------------------------------------------------
\* writeStatusCurrentToDbBuffer: the copy is made under the mutex, saved after.
TakeCurrent ==
    /\ Running
    /\ current.pc = "select"
    /\ currentCh # <<>>
    /\ current' = [pc |-> "saving", check |-> Head(currentCh),
                   status |-> statuses[Head(currentCh)]]
    /\ currentCh' = Tail(currentCh)
    /\ UNCHANGED <<responses, database, phase, statuses, reader, detector,
                   changesWriter, history>>

CurrentSaved == [statusCurrent EXCEPT ![current.check] = current.status]

\* saveCheckCurrentStatus
SaveCurrent ==
    /\ Running
    /\ current.pc = "saving"
    /\ statusCurrent' = CurrentSaved
    /\ current' = Idle
    /\ UNCHANGED <<responses, statusChanges, phase, statuses, reader, detector,
                   currentCh, changesWriter, history>>

\* writeStatusChangesToDbBuffer: the buffer is saved if that fills it or if
\* STM_SAVE_AUTO_FLUSH_MS have passed.
BufferChange(due) ==
    /\ Running
    /\ changes = "select"
    /\ changesCh # <<>>
    /\ buffer' = Append(buffer, [check |-> Head(changesCh),
                                 status |-> statuses[Head(changesCh)]])
    /\ changesCh' = Tail(changesCh)
    /\ changes' = IF Len(buffer) + 1 >= BulkSave \/ due THEN "saving" ELSE "select"
    /\ UNCHANGED <<responses, database, phase, statuses, reader, detector,
                   currentWriter, history>>

\* Mutant of FlushDue: the time is looked at only when the buffer is full.
FlushFull ==
    /\ Running
    /\ changes = "select"
    /\ Len(buffer) >= BulkSave
    /\ changes' = "saving"
    /\ UNCHANGED <<responses, database, phase, statuses, reader, detector,
                   currentWriter, changesCh, buffer, history>>

FlushDue ==
    /\ Running
    /\ changes = "select"
    /\ buffer # <<>>
    /\ changes' = "saving"
    /\ UNCHANGED <<responses, database, phase, statuses, reader, detector,
                   currentWriter, changesCh, buffer, history>>

\* writeStatusChangesToDb, the last one included.
SaveChanges ==
    /\ Running
    /\ changes \in {"saving", "last"}
    /\ statusChanges' = statusChanges \o buffer
    /\ buffer' = <<>>
    /\ changes' = IF changes = "saving" THEN "select" ELSE "stopped"
    /\ UNCHANGED <<responses, statusCurrent, phase, statuses, reader, detector,
                   currentWriter, changesCh, history>>

-----------------------------------------------------------------------------
\* closeHandler cancels the context; each of the three loops then leaves its
\* select at some turn.  The reader goes on.
Stop ==
    /\ phase = "up"
    /\ phase' = "stopping"
    /\ UNCHANGED <<responses, database, statuses, reader, detector,
                   currentWriter, changesWriter, history>>

DetectorDone ==
    /\ phase = "stopping"
    /\ detector.pc = "select"
    /\ detector' = [detector EXCEPT !.pc = "stopped"]
    /\ UNCHANGED <<responses, database, phase, statuses, reader, currentWriter,
                   changesWriter, history>>

CurrentDone ==
    /\ phase = "stopping"
    /\ current.pc = "select"
    /\ current' = [current EXCEPT !.pc = "stopped"]
    /\ UNCHANGED <<responses, database, phase, statuses, reader, detector,
                   currentCh, changesWriter, history>>

ChangesDone ==
    /\ phase = "stopping"
    /\ changes = "select"
    /\ changes' = "last"
    /\ UNCHANGED <<responses, database, phase, statuses, reader, detector,
                   currentWriter, changesCh, buffer, history>>

\* No change waits for a writer; nor does a writer hold one.
NoneWaiting ==
    /\ detector.pc \in {"select", "stopped"}
    /\ currentCh = <<>>
    /\ changesCh = <<>>

AtRest == NoneWaiting /\ current.pc \in {"select", "stopped"} /\ buffer = <<>>

\* The process is gone with its memory.
Vanish ==
    /\ phase' = "down"
    /\ statuses' = [c \in Checks |-> NoStatus]
    /\ marker' = Reading(0, "$gt")
    /\ batch' = {}
    /\ readCh' = <<>>
    /\ detector' = Detecting
    /\ currentCh' = <<>>
    /\ current' = Idle
    /\ changesCh' = <<>>
    /\ changes' = "select"
    /\ buffer' = <<>>
    /\ UNCHANGED <<responses, starts, handled>>

\* waitingForTheWorldToEnd exits two seconds after the cancellation, which is
\* time enough for a save; if not, the exit is a Crash.  Nobody empties the
\* channels.
Exit ==
    /\ phase = "stopping"
    /\ current.pc = "stopped"
    /\ changes = "stopped"
    /\ Vanish
    /\ happened' = happened \cup {k \in {Interrupted} : ~NoneWaiting}
    /\ UNCHANGED database

\* Killed at any moment, or ended by FailOnError: a bulk insert leaves any
\* prefix of the buffer behind, an upsert is done or not.
Crash ==
    /\ Running
    /\ \E n \in 0 .. (IF changes \in {"saving", "last"} THEN Len(buffer) ELSE 0) :
          statusChanges' = statusChanges \o SubSeq(buffer, 1, n)
    /\ \/ statusCurrent' = statusCurrent
       \/ current.pc = "saving" /\ statusCurrent' = CurrentSaved
    /\ Vanish
    /\ happened' = happened \cup {k \in {Interrupted} : ~AtRest}

Goroutines ==
    \/ FindResponses
    \/ SendResponse
    \/ Detect
    \/ SendCurrent
    \/ SendChange
    \/ TakeCurrent
    \/ SaveCurrent
    \/ BufferChange(FALSE)
    \/ BufferChange(TRUE)
    \/ FlushDue
    \/ SaveChanges

Next ==
    \/ \E i \in Ids, r \in Response : ResponseInserted(i, r)
    \/ Start
    \/ Goroutines
    \/ Stop
    \/ DetectorDone
    \/ CurrentDone
    \/ ChangesDone
    \/ Exit
    \/ Crash

Spec == Init /\ [][Next]_vars

FairSpec ==
    /\ Spec
    /\ WF_vars(FindResponses) /\ WF_vars(SendResponse) /\ WF_vars(Detect)
    /\ WF_vars(SendCurrent) /\ WF_vars(SendChange)
    /\ WF_vars(TakeCurrent) /\ WF_vars(SaveCurrent)
    /\ WF_vars(\E due \in BOOLEAN : BufferChange(due))
    /\ WF_vars(FlushDue) /\ WF_vars(SaveChanges)

-----------------------------------------------------------------------------
InTransit(c) ==
    \/ detector.pc = "current" /\ detector.check = c
    \/ c \in ToSet(currentCh)

LastWrite(c) ==
    IF current.pc = "saving" /\ current.check = c THEN current.status
    ELSE statusCurrent[c]

(***************************************************************************)
(* The saved current status of a check is the one in memory, or the check  *)
(* is on its way to the writer: no late save of an older copy can win, at  *)
(* any interleaving and over any restart.                                  *)
(* (detectStatusChangesListener, main.go:177-178; writeStatusCurrentToDb-  *)
(* Buffer, 134-140)                                                        *)
(***************************************************************************)
NoUpdateLost ==
    Running => \A c \in Checks : InTransit(c) \/ LastWrite(c) = statuses[c]

(***************************************************************************)
(* What the reader rests on: all that lies before the marker was sent, a   *)
(* batch leaves no gap, the channel is in order, and no status, in memory  *)
(* or saved, cites a response that was not handled.                        *)
(***************************************************************************)
SentUpToMarker ==
    \A i \in Known \ Found : i \in handled \/ i \in ToSet(readCh)

BatchInOrder == batch \subseteq Found /\ \A b \in batch, i \in Found : i < b => i \in batch

ChannelInOrder ==
    \A k \in DOMAIN readCh, i \in Known : i < readCh[k] =>
        i \in handled \/ \E l \in DOMAIN readCh : l < k /\ readCh[l] = i

Cited(s) == s.resp \in handled \cup {0}

CitesHandled ==
    /\ \A c \in Checks : Cited(statuses[c]) /\ Cited(statusCurrent[c])
    /\ Cited(current.status)
    /\ \A k \in DOMAIN statusChanges : Cited(statusChanges[k].status)
    /\ \A k \in DOMAIN buffer : Cited(buffer[k].status)

(***************************************************************************)
(* No response is passed over: whatever is older than a handled one has    *)
(* been handled, in this process or an earlier one.  The marker of a new   *)
(* process may lie anywhere, but never past a response that was not        *)
(* handled.  Only an id below the ones already there escapes the reader.   *)
(* (readResponsesFromMarker, dbhelper.go:80-102; retrieveLastStatusMonitor-*)
(* Marker, main.go:148)                                                    *)
(***************************************************************************)
NothingPassedOver ==
    Skew \notin happened =>
        \A i \in Known, h \in handled : i < h => i \in handled

ReaderInv ==
    /\ CitesHandled
    /\ Running => marker.id \in Known \cup {0}
    /\ Skew \notin happened =>
          /\ NothingPassedOver
          /\ Running => SentUpToMarker /\ BatchInOrder /\ ChannelInOrder

\* A process starts with empty channels and idle writers.
DownIsEmpty ==
    phase = "down" => /\ batch = {} /\ readCh = <<>> /\ current.pc = "select"
                      /\ detector = Detecting /\ changesCh = <<>> /\ buffer = <<>>

\* The handled responses of a check, and those of them at which it changed: a
\* response changes nothing if the last ones before it have its status.
HandledOf(c) == {i \in handled : responses[i].check = c}
Before(i) == {j \in HandledOf(responses[i].check) : j < i}
Repeats(i) ==
    \E j \in Before(i) :
        \A k \in Before(i) : j <= k => responses[k].status = responses[i].status
Flips(c) == {i \in HandledOf(c) : ~Repeats(i)}

ChangesMade == statusChanges \o buffer
Pending == detector.pc \in {"current", "changes"}

\* The changes of a check that were detected and not lost.
Accounted(c) ==
    Cardinality({k \in DOMAIN ChangesMade : ChangesMade[k].check = c})
    + Cardinality({k \in DOMAIN changesCh : changesCh[k] = c})
    + (IF Pending /\ detector.check = c THEN 1 ELSE 0)

(***************************************************************************)
(* As long as every process that was killed had nothing in transit, and    *)
(* every one that was stopped had empty channels, the changes inserted and *)
(* on their way are as many as the checks really had: a restart that reads *)
(* again what it had read before detects no change twice and misses none,  *)
(* although its marker is the response of the last change and not the last *)
(* response.  (retrieveMarkerFromStatusChanges, dbhelper.go:25-30;         *)
(* detectStatusChanges and the flush at exit, main.go:203-206, 225-246)    *)
(***************************************************************************)
ChangesAccounted ==
    happened = {} => \A c \in Checks : Accounted(c) = Cardinality(Flips(c))

(***************************************************************************)
(* Why, as an inductive invariant: what the monitor remembers of a check,  *)
(* in memory or for its next process, is the status of its handled         *)
(* responses since the last change; the latest change of all is the last   *)
(* on its way to the collection, whose response becomes the next marker;   *)
(* and what is still to be handled, read before or not, comes after every  *)
(* change that was detected.                                               *)
(***************************************************************************)
Remembered == IF phase = "down" THEN statusCurrent ELSE statuses

RememberedIsTrue ==
    \A c \in Checks :
        IF Remembered[c].cur = "NONE" THEN Remembered[c].resp = 0 /\ HandledOf(c) = {}
        ELSE /\ Remembered[c].resp \in HandledOf(c)
             /\ \A i \in HandledOf(c) : Remembered[c].resp <= i =>
                    responses[i].status = Remembered[c].cur

LatestOnItsWay ==
    IF Pending THEN statuses[detector.check].resp
    ELSE IF changesCh # <<>> THEN statuses[Last(changesCh)].resp
    ELSE IF ChangesMade # <<>> THEN Last(ChangesMade).status.resp
    ELSE 0

LatestIsLast == \A c \in Checks : Remembered[c].resp <= LatestOnItsWay

ToHandle == ToSet(readCh) \cup Found

ToHandleInOrder ==
    /\ \A i \in ToHandle, c \in Checks : statuses[c].resp < i
    /\ \A k \in DOMAIN readCh :
          /\ \A l \in DOMAIN readCh : k < l => readCh[k] < readCh[l]
          /\ \A i \in Found : readCh[k] < i

ChangesInv ==
    /\ changes = "stopped" => buffer = <<>>
    /\ happened = {} =>
          /\ ChangesAccounted
          /\ RememberedIsTrue
          /\ LatestIsLast
          /\ Running => ToHandleInOrder

MonitorInv == TypeOK /\ DownIsEmpty /\ NoUpdateLost /\ ReaderInv /\ ChangesInv

\* The recorded changes of a check.
ChangesOf(c, cs) == SelectSeq(cs, LAMBDA x : x.check = c)

(***************************************************************************)
(* Every change is recorded: at rest, the inserted changes of a check are  *)
(* its real ones.  VIOLATED by the code without any fault: a second change *)
(* of a check before the first is taken from the channel is inserted twice *)
(* and the first never.  (main.go:199-201)                                 *)
(***************************************************************************)
EveryChangeRecorded ==
    happened = {} /\ Running /\ AtRest =>
        \A c \in Checks :
            {x.status.resp : x \in ToSet(ChangesOf(c, statusChanges))} = Flips(c)

(***************************************************************************)
(* If the monitor stays up and nothing went wrong, both collections end up *)
(* showing, for each check, the status of its latest response.             *)
(***************************************************************************)
ResponsesOf(c) == {i \in Known : responses[i].check = c}

UpToDate ==
    \A c \in Checks : ResponsesOf(c) # {} =>
        /\ statusCurrent[c].cur = responses[Max(ResponsesOf(c))].status
        /\ ChangesOf(c, statusChanges) # <<>>
        /\ Last(ChangesOf(c, statusChanges)).status = statusCurrent[c]

Settles == [](happened = {}) /\ <>[](phase = "up") => <>[]UpToDate
=============================================================================
