----------------------------- MODULE Collections -----------------------------
(***************************************************************************)
(* The life of one MongoDB collection: who creates, drops and indexes it   *)
(* while others write to it and read it.                                   *)
(*   admin      cmd/admin: create, truncate, drop                          *)
(*   migration  pkg/migrations: up and down, run by the migration engine   *)
(*   collector  the response collector creates responses when it boots     *)
(*   loaders    cmd/bulk_loader fills checks from a file                   *)
(*   scheduler  reads checks once, when it boots, and never again: batch   *)
(*              by batch through a cursor, while it makes the jobs         *)
(* An operation is the sequence of the database calls it has still to do:  *)
(* others come in between, and it ends at the first call that fails.       *)
(*                                                                         *)
(* The name stands for the way the collection is migrated: "checks" also   *)
(* for checks_inflight and settings, whose migrations make the same calls. *)
(* Only the unique index is modelled: requestid of responses, checkid of   *)
(* checks, hostname and approle of heartbeats.                             *)
(***************************************************************************)
EXTENDS Naturals, SequencesExt

CONSTANTS
    Names,      \* of the collections looked at
    Loaders,    \* bulk loaders
    Lines,      \* in siteslist.txt
    PerSecond,  \* the requests per second that the user asks for
    BatchSize,  \* BL_BULK_SAVE_SIZE
    FetchSize,  \* the records in a batch of a cursor, which MongoDB chooses
    MaxFaults,  \* bounds the calls that fail, deaths included
    MaxRecords  \* bounds what the processes other than loaders insert

ASSUME CollectionsAssumption ==
    /\ Names \subseteq {"checks", "responses", "heartbeats"}
    /\ {Lines, MaxFaults, MaxRecords} \subseteq Nat
    /\ {PerSecond, BatchSize, FetchSize} \subseteq Nat \ {0}

VARIABLES
    name,       \* which collection this is
    present,    \* whether it is there
    unique,     \* whether it has its unique index
    records,    \* its records in natural order
    todo,       \* the calls that each actor has still to make
    doing,      \* what the calls are for
    migrated,   \* the migration is in the engine's ledger
    loader,     \* the bulk loaders
    scheduler,  \* the scheduler's boot
    faults,     \* how many calls failed
    bare        \* history: how this collection came to have no index

collection == <<name, present, unique, records, bare>>
operations == <<todo, doing, migrated>>
vars == <<collection, operations, loader, scheduler, faults>>

Actors == {"admin", "migration", "collector"}
Keys == 0 .. Lines
Record == [key : Keys, slot : Nat]  \* slot: seconds before the first start time

KeysOf(rs) == {rs[i].key : i \in DOMAIN rs}
Distinct(rs) == \A i, j \in DOMAIN rs : rs[i].key = rs[j].key => i = j

\* Mutant of CreateCalls: the indexes are left to others.
CreateOnly == <<"create">>

\* Mutant of TruncateCalls: the indexes of the dropped collection are not
\* rebuilt.
TruncateBare == <<"drop", "create">>

\* CreateCollection and TruncateCollection, which calls it and then repeats its
\* last call.
CreateCalls == <<"create", "index">>
TruncateCalls == <<"drop", "create", "index", "index">>

\* up_...: only heartbeats is made anew if it is there.
UpWhenMissing == [checks     |-> Append(CreateCalls, "index"),
                  responses  |-> <<"create", "otherIndex">>,
                  heartbeats |-> CreateCalls]
UpWhenPresent == [checks |-> <<>>, responses |-> <<>>, heartbeats |-> TruncateCalls]
UpCalls == IF present THEN UpWhenPresent[name] ELSE UpWhenMissing[name]

DownCalls == IF present THEN <<"drop">> ELSE <<>>

Operations == {"create", "truncate", "drop", "up", "down", "boot"}
Calls == {"create", "index", "otherIndex", "drop"}

LoaderStates == {"off", "deleting", "reading", "saving", "flushing", "done"}
Working == {"deleting", "reading", "saving", "flushing"}
Loader == [pc : LoaderStates, line : 0 .. Lines, inSecond : 0 .. PerSecond,
           slot : Nat, buffer : Seq(Record), scanErr : BOOLEAN, alone : BOOLEAN]

\* The server has a cursor open until it has sent a batch that is not full.
\* Records sent come ahead of their jobs: in the driver, in the channel, in the
\* hand of main.  found is history: the checks there when the cursor was opened.
Scheduler == [pc : {"down", "counted", "loading", "running"},
              server : {"open", "exhausted", "killed"}, cursor : Nat,
              ahead : Seq(Keys), jobs : SUBSET Keys,
              found : SUBSET Keys, disturbed : BOOLEAN]

TypeOK ==
    /\ name \in Names
    /\ present \in BOOLEAN /\ unique \in BOOLEAN
    /\ records \in Seq(Record)
    /\ todo \in [Actors -> Seq(Calls)]
    /\ doing \in [Actors -> Operations \cup {"nothing"}]
    /\ migrated \in BOOLEAN
    /\ loader \in [Loaders -> Loader]
    /\ scheduler \in Scheduler
    /\ faults \in 0 .. MaxFaults
    /\ bare \subseteq {"written", "interrupted", "migrated"}

NewLoader == [pc |-> "off", line |-> 0, inSecond |-> 0, slot |-> 0, buffer |-> <<>>,
              scanErr |-> FALSE, alone |-> FALSE]
NoScheduler == [pc |-> "down", server |-> "open", cursor |-> 0, ahead |-> <<>>, jobs |-> {},
                found |-> {}, disturbed |-> FALSE]
Succeeded == [NewLoader EXCEPT !.pc = "done"]

Init ==
    /\ name \in Names
    /\ present = FALSE
    /\ unique = FALSE
    /\ records = <<>>
    /\ todo = [a \in Actors |-> <<>>]
    /\ doing = [a \in Actors |-> "nothing"]
    /\ migrated = FALSE
    /\ loader = [l \in Loaders |-> NewLoader]
    /\ scheduler = NoScheduler
    /\ faults = 0
    /\ bare = {}

-----------------------------------------------------------------------------
\* An operation that finds nothing to do ends at once.
Begin(a, op, calls) ==
    /\ doing[a] = "nothing"
    /\ todo' = [todo EXCEPT ![a] = calls]
    /\ doing' = [doing EXCEPT ![a] = IF calls = <<>> THEN "nothing" ELSE op]
    /\ migrated' = IF calls = <<>> /\ op \in {"up", "down"} THEN op = "up" ELSE migrated
    /\ UNCHANGED <<collection, loader, scheduler, faults>>

\* The menus of cmd/admin; a collection to drop or truncate is chosen from the
\* existing ones.
AdminCreate == Begin("admin", "create", CreateCalls)
AdminTruncate == present /\ Begin("admin", "truncate", TruncateCalls)
AdminDrop == present /\ Begin("admin", "drop", <<"drop">>)

\* The engine runs what is not in its ledger, and takes back what is.
Up == ~migrated /\ Begin("migration", "up", UpCalls)
Down == migrated /\ Begin("migration", "down", DownCalls)

\* The collector's main.
CollectorBoot ==
    /\ name = "responses"
    /\ ~present
    /\ Begin("collector", "boot", CreateCalls)

\* The engine notes an up or a down that ended without an error.
CallDone(a) ==
    LET ended == Len(todo[a]) = 1 IN
    /\ todo' = [todo EXCEPT ![a] = Tail(@)]
    /\ doing' = [doing EXCEPT ![a] = IF ended THEN "nothing" ELSE @]
    /\ migrated' = IF ended /\ doing[a] \in {"up", "down"} THEN doing[a] = "up"
                   ELSE migrated
    /\ UNCHANGED <<name, faults>>

NextIs(a, call) == todo[a] # <<>> /\ Head(todo[a]) = call

\* Drop, which does not mind if there is nothing.  The server kills a cursor that
\* is open on the collection.
Drop(a) ==
    /\ NextIs(a, "drop")
    /\ present' = FALSE
    /\ unique' = FALSE
    /\ records' = <<>>
    /\ bare' = {}
    /\ scheduler' = IF scheduler.pc = "loading"
                    THEN [scheduler EXCEPT !.cursor = 0, !.disturbed = TRUE,
                             !.server = IF @ = "open" THEN "killed" ELSE @]
                    ELSE scheduler
    /\ loader' = [l \in Loaders |-> [loader[l] EXCEPT !.alone = FALSE]]
    /\ CallDone(a)

\* The server refuses to create what exists.
Create(a) ==
    /\ NextIs(a, "create")
    /\ ~present
    /\ present' = TRUE
    /\ CallDone(a)
    /\ UNCHANGED <<unique, records, bare, loader, scheduler>>

\* CreateIndexes makes the collection too if it is gone, and nothing if the
\* index is there.  It fails on records with the same key.
CreateIndex(a) ==
    /\ NextIs(a, "index")
    /\ Distinct(records)
    /\ present' = TRUE
    /\ unique' = TRUE
    /\ bare' = {}
    /\ CallDone(a)
    /\ UNCHANGED <<records, loader, scheduler>>

\* The migration of responses: indexes on owneruid and checkid, not unique.
CreateOtherIndex(a) ==
    /\ NextIs(a, "otherIndex")
    /\ present' = TRUE
    /\ bare' = bare \cup {"migrated"}
    /\ CallDone(a)
    /\ UNCHANGED <<unique, records, loader, scheduler>>

Interrupted(a) == {"interrupted" : call \in {"index", "otherIndex"} \cap {Head(todo[a])}}

\* The operation ends with an error at its next call.
Abort(a) ==
    /\ bare' = bare \cup Interrupted(a)
    /\ todo' = [todo EXCEPT ![a] = <<>>]
    /\ doing' = [doing EXCEPT ![a] = "nothing"]
    /\ UNCHANGED <<name, present, unique, records, migrated, loader, scheduler>>

Refused(a) ==
    /\ \/ NextIs(a, "create") /\ present
       \/ NextIs(a, "index") /\ ~Distinct(records)
    /\ Abort(a)
    /\ UNCHANGED faults

\* The database fails, or the process dies, between two calls.
CallFails(a) ==
    /\ todo[a] # <<>>
    /\ faults < MaxFaults
    /\ faults' = faults + 1
    /\ Abort(a)

-----------------------------------------------------------------------------
\* InsertMany, in order: all of rs, or the records before the first duplicate.
\* A collection that is not there is created, without indexes.
Storable(rs) == unique => Distinct(records \o rs)

Inserted(rs) ==
    /\ records' = records \o rs
    /\ present' = TRUE
    /\ bare' = IF present THEN bare ELSE {"written"}
    /\ UNCHANGED <<name, unique>>

\* Other processes: the collector inserts responses; an upsert of a heartbeat
\* may, when it races another and there is no index, insert as well.
Write(k) ==
    /\ name # "checks"
    /\ Len(records) < MaxRecords
    /\ LET r == <<[key |-> k, slot |-> 0]>> IN Storable(r) /\ Inserted(r)
    /\ UNCHANGED <<operations, loader, scheduler, faults>>

Set(l, new) == loader' = [loader EXCEPT ![l] = new]

\* readAndWrite: the process starts, alone if no other loader works.
LoaderStart(l) ==
    /\ name = "checks"
    /\ loader[l].pc \notin Working
    /\ LET others == {k \in Loaders \ {l} : loader[k].pc \in Working} IN
       loader' = [k \in Loaders |->
          IF k = l THEN [NewLoader EXCEPT !.pc = "deleting", !.alone = others = {}]
          ELSE [loader[k] EXCEPT !.alone = FALSE]]
    /\ UNCHANGED <<collection, operations, scheduler, faults>>

\* Mutant of DeleteOwn: the records of the last load stay.
DeleteNone(l) ==
    /\ loader[l].pc = "deleting"
    /\ Set(l, [loader[l] EXCEPT !.pc = "reading"])
    /\ UNCHANGED <<collection, scheduler, operations, faults>>

\* DeleteRecordsByFieldValue: all checks are the loader's.
DeleteOwn(l) ==
    /\ loader[l].pc = "deleting"
    /\ records' = <<>>
    /\ scheduler' = [scheduler EXCEPT !.cursor = 0,
                                      !.disturbed = @ \/ scheduler.pc = "loading"]
    /\ Set(l, [loader[l] EXCEPT !.pc = "reading"])
    /\ UNCHANGED <<name, present, unique, bare, operations, faults>>

\* One turn of the loop up to the save: recordsInCurrentSecond and
\* startSchedTimeUnix, a record, and whether the buffer is full.
ReadLine(l) ==
    LET s == loader[l]
        full == s.inSecond >= PerSecond
        slot == IF full THEN s.slot + 1 ELSE s.slot
    IN
    /\ s.pc = "reading"
    /\ s.line < Lines
    /\ Set(l, [s EXCEPT
          !.line = @ + 1,
          !.inSecond = IF full THEN 1 ELSE @ + 1,
          !.slot = slot,
          !.buffer = Append(@, [key |-> s.line, slot |-> slot]),
          !.pc = IF Len(s.buffer) + 1 >= BatchSize THEN "saving" ELSE "reading"])
    /\ UNCHANGED <<collection, operations, scheduler, faults>>

\* scanner.Scan returns false at the end of the file.
EndOfFile(l) ==
    /\ loader[l].pc = "reading"
    /\ loader[l].line = Lines
    /\ Set(l, [loader[l] EXCEPT !.pc = "flushing"])
    /\ UNCHANGED <<collection, operations, scheduler, faults>>

\* It does so too if the file cannot be read on, or a line is longer than 64 KiB,
\* and nobody asks the scanner why.  A line cut by the error is a line read.
ScanFails(l) ==
    /\ loader[l].pc = "reading"
    /\ faults < MaxFaults
    /\ faults' = faults + 1
    /\ Set(l, [loader[l] EXCEPT !.pc = "flushing", !.scanErr = TRUE])
    /\ UNCHANGED <<collection, operations, scheduler>>

NothingToFlush(l) ==
    /\ loader[l].pc = "flushing"
    /\ loader[l].buffer = <<>>
    /\ Set(l, Succeeded)
    /\ UNCHANGED <<collection, operations, scheduler, faults>>

Saving(l) == loader[l].pc \in {"saving", "flushing"} /\ loader[l].buffer # <<>>

SaveRecords(l) ==
    /\ Saving(l)
    /\ Storable(loader[l].buffer)
    /\ Inserted(loader[l].buffer)
    /\ Set(l, IF loader[l].pc = "flushing" THEN Succeeded
              ELSE [loader[l] EXCEPT !.buffer = <<>>, !.pc = "reading"])
    /\ UNCHANGED <<operations, scheduler, faults>>

\* FailOnError, with the first n records inserted.
LoaderEnds(l, n) ==
    /\ Inserted(SubSeq(loader[l].buffer, 1, n))
    /\ Set(l, NewLoader)
    /\ UNCHANGED <<operations, scheduler>>

SaveDuplicate(l) ==
    /\ Saving(l)
    /\ \E n \in 0 .. Len(loader[l].buffer) - 1 :
          /\ Storable(SubSeq(loader[l].buffer, 1, n))
          /\ ~Storable(SubSeq(loader[l].buffer, 1, n + 1))
          /\ LoaderEnds(l, n)
    /\ UNCHANGED faults

LoaderFails(l) ==
    /\ loader[l].pc \in Working
    /\ faults < MaxFaults
    /\ faults' = faults + 1
    /\ \/ /\ Saving(l)
          /\ \E n \in 1 .. Len(loader[l].buffer) :
                Storable(SubSeq(loader[l].buffer, 1, n)) /\ LoaderEnds(l, n)
       \/ /\ Set(l, NewLoader)
          /\ UNCHANGED <<collection, operations, scheduler>>

-----------------------------------------------------------------------------
\* main, in a new process, whatever became of the last: CountEnabledChecks.
SchedulerStart ==
    /\ name = "checks"
    /\ records # <<>>
    /\ scheduler' = [NoScheduler EXCEPT !.pc = "counted"]
    /\ UNCHANGED <<collection, operations, loader, faults>>

\* The next batch of the cursor, and whether that is the last.
Fetched(s) ==
    LET full == Len(records) - s.cursor >= FetchSize
        last == IF full THEN s.cursor + FetchSize ELSE Len(records)
    IN
    [s EXCEPT !.cursor = last,
              !.ahead = @ \o [i \in 1 .. last - s.cursor |-> records[s.cursor + i].key],
              !.server = IF full THEN "open" ELSE "exhausted"]

\* RetrieveEnabledChecksToBeScheduled, a goroutine: Find sends the first batch.
OpenCursor ==
    /\ scheduler.pc = "counted"
    /\ scheduler' = Fetched([NoScheduler EXCEPT !.pc = "loading", !.found = KeysOf(records)])
    /\ UNCHANGED <<collection, operations, loader, faults>>

\* cursor.Next needs another batch when the channel has taken the last record of
\* this one; main may still be at its job.
AsksForMore ==
    scheduler.pc = "loading" /\ scheduler.server = "open" /\ Len(scheduler.ahead) <= 1

FetchMore ==
    /\ AsksForMore
    /\ scheduler' = Fetched(scheduler)
    /\ UNCHANGED <<collection, operations, loader, faults>>

\* An error of Find ends the process; one of Next looks like the end.
CursorFails ==
    /\ faults < MaxFaults
    /\ faults' = faults + 1
    /\ \/ /\ scheduler.pc = "counted"
          /\ scheduler' = NoScheduler
       \/ /\ AsksForMore
          /\ scheduler' = [scheduler EXCEPT !.server = "killed", !.disturbed = TRUE]
    /\ UNCHANGED <<collection, operations, loader>>

\* scheduleChecks, in main: a job for the next check.  Tags are unique: a second
\* job for a check ends the process.
ScheduleNext ==
    /\ scheduler.pc = "loading"
    /\ scheduler.ahead # <<>>
    /\ LET k == Head(scheduler.ahead) IN
       scheduler' = IF k \in scheduler.jobs THEN NoScheduler
                    ELSE [scheduler EXCEPT !.ahead = Tail(@), !.jobs = @ \cup {k}]
    /\ UNCHANGED <<collection, operations, loader, faults>>

\* Mutant of ScheduleEnd: main goes on when no record waits, the channel closed
\* or not.
ScheduleEndEarly ==
    /\ scheduler.pc = "loading"
    /\ scheduler.ahead = <<>>
    /\ scheduler' = [NoScheduler EXCEPT !.pc = "running"]
    /\ UNCHANGED <<collection, operations, loader, faults>>

\* cursor.Next returned false, and nobody asked why; the channel is closed and
\* empty.
ScheduleEnd ==
    /\ scheduler.pc = "loading"
    /\ scheduler.ahead = <<>>
    /\ scheduler.server # "open"
    /\ scheduler' = [NoScheduler EXCEPT !.pc = "running"]
    /\ UNCHANGED <<collection, operations, loader, faults>>

CallStep(a) ==
    \/ Drop(a)
    \/ Create(a)
    \/ CreateIndex(a)
    \/ CreateOtherIndex(a)
    \/ Refused(a)
    \/ CallFails(a)

LoaderStep(l) ==
    \/ LoaderStart(l)
    \/ DeleteOwn(l)
    \/ ReadLine(l)
    \/ EndOfFile(l)
    \/ ScanFails(l)
    \/ NothingToFlush(l)
    \/ SaveRecords(l)
    \/ SaveDuplicate(l)
    \/ LoaderFails(l)

SchedulerStep ==
    \/ SchedulerStart
    \/ OpenCursor
    \/ FetchMore
    \/ CursorFails
    \/ ScheduleNext
    \/ ScheduleEnd

Next ==
    \/ AdminCreate
    \/ AdminTruncate
    \/ AdminDrop
    \/ Up
    \/ Down
    \/ CollectorBoot
    \/ \E a \in Actors : CallStep(a)
    \/ \E k \in Keys : Write(k)
    \/ \E l \in Loaders : LoaderStep(l)
    \/ SchedulerStep

Spec == Init /\ [][Next]_vars

-----------------------------------------------------------------------------
Indexing(a) == todo[a] # <<>> /\ Head(todo[a]) \in {"index", "otherIndex"}

(***************************************************************************)
(* A collection that nobody is about to index has its unique index, except *)
(* in three cases: a process wrote to it before it was created, an         *)
(* operation was cut short after it had created it, or responses was made  *)
(* by its migration.  Concurrent operations do no harm: whichever of two   *)
(* is last to drop, the index is built after it, or nothing is left.       *)
(* (CreateCollection, TruncateCollection, dbhelper.go:188-245)             *)
(***************************************************************************)
IndexKept ==
    present /\ ~unique => bare # {} \/ \E a \in Actors : Indexing(a)

(***************************************************************************)
(* What a collection is worth its index for: no two records have the same  *)
(* key, whoever wrote them and however often the index was built.          *)
(***************************************************************************)
NoDuplicates == unique => present /\ Distinct(records)

\* No operation creates without indexing next, and an actor with calls to make
\* is at an operation.
IndexFollows ==
    \A a \in Actors : \A k \in DOMAIN todo[a] : todo[a][k] = "create" =>
        k < Len(todo[a]) /\ todo[a][k + 1] \in {"index", "otherIndex"}

IdleIsEmpty == \A a \in Actors : doing[a] = "nothing" => todo[a] = <<>>

IndexInv == TypeOK /\ NoDuplicates /\ IndexKept /\ IndexFollows /\ IdleIsEmpty

\* The file's records, in its order, and the second each starts in.
FileRecords == [i \in 1 .. Lines |-> [key |-> i - 1, slot |-> (i - 1) \div PerSecond]]

\* The counters of a loader say how far it is in the file.
Counted(s) ==
    /\ s.pc \in Working => s.line = s.slot * PerSecond + s.inSecond
    /\ s.inSecond = 0 => s.line = 0
    /\ s.pc = "deleting" => s.line = 0 /\ s.buffer = <<>>
    /\ s.pc = "flushing" => s.scanErr \/ s.line = Lines

\* A loader works on checks; if it is alone, no other does.
WorksAlone(l) ==
    loader[l].pc \in Working =>
        /\ name = "checks"
        /\ loader[l].alone => \A k \in Loaders \ {l} : loader[k].pc \notin Working

\* What a lone loader has read is stored, in order, but for its buffer.
LoadedSoFar(l) ==
    loader[l].pc \in Working \ {"deleting"} /\ loader[l].alone =>
        records \o loader[l].buffer = [i \in 1 .. loader[l].line |-> FileRecords[i]]

\* What has been sent are the first records of the collection: those before the
\* ones ahead have their jobs.  If the cursor is exhausted, all that were there
\* when it was opened have been sent.
Sound(s) ==
    LET given == s.cursor - Len(s.ahead)
        FirstKeys(n) == {records[i].key : i \in 1 .. n}
    IN
    /\ given \in Nat
    /\ s.cursor <= Len(records)
    /\ s.jobs = FirstKeys(given)
    /\ \A i \in DOMAIN s.ahead : s.ahead[i] = records[given + i].key
    /\ s.found \subseteq KeysOf(records)
    /\ s.server = "exhausted" => s.found \subseteq FirstKeys(s.cursor)
    /\ s.server # "killed"

ScheduledSoFar == scheduler.pc = "loading" /\ ~scheduler.disturbed => Sound(scheduler)

LoadInv ==
    /\ \A l \in Loaders : Counted(loader[l]) /\ WorksAlone(l) /\ LoadedSoFar(l)
    /\ ScheduledSoFar

CollectionsInv == IndexInv /\ LoadInv

(***************************************************************************)
(* A load that ends well, with no other load or drop since it began,       *)
(* leaves the checks of the lines it has read, each once, in the order of  *)
(* the file and PerSecond of them to a second, whatever an earlier load,   *)
(* complete or cut short, had left; and it has read the whole file unless  *)
(* the scanner met an error.                                               *)
(* (readAndWrite, cmd/bulk_loader/main.go:44-136)                          *)
(***************************************************************************)
LoadComplete ==
    [][\A l \in Loaders :
          loader[l].pc # "done" /\ loader'[l].pc = "done" /\ loader[l].alone
          => /\ records' = [i \in 1 .. loader[l].line |-> FileRecords[i]]
             /\ loader[l].scanErr \/ records' = FileRecords]_vars

(***************************************************************************)
(* A scheduler that finds the unique index when its load ends, and during  *)
(* whose load nothing was deleted and no batch failed, comes up: it does   *)
(* not end on a tag it has already used.  It has a job for every check     *)
(* that was there when the cursor was opened, however many batches it took *)
(* and whatever loaders inserted meanwhile, and none without a check.      *)
(* (scheduleChecks, cmd/scheduler/main.go:89-101, and dbhelper.go:42-56)   *)
(***************************************************************************)
SchedulerLoads ==
    [][scheduler.pc = "loading" /\ scheduler'.pc \in {"running", "down"}
       /\ unique /\ ~scheduler.disturbed
       => /\ scheduler'.pc = "running"
          /\ scheduler.found \subseteq scheduler.jobs
          /\ scheduler.jobs \subseteq KeysOf(records)]_vars
=============================================================================
