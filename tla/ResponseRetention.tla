-------------------------- MODULE ResponseRetention --------------------------
(***************************************************************************)
(* cmd/response_retention: removes the responses older than the retention  *)
(* period, oldest first and a batch at a time.  MongoDB has no limit on    *)
(* delete, so clean() finds the receivedresponseunix of the record that    *)
(* comes after the first RR_BATCH_SIZE expired ones and deletes everything *)
(* up to that time; it repeats until there is no such record.  Meanwhile   *)
(* the response collector keeps inserting, some records later than the     *)
(* time they carry (they wait in its buffer).                              *)
(***************************************************************************)
EXTENDS Integers, FiniteSets

CONSTANTS
    Ids,        \* responses that may be inserted
    Retention,  \* RR_DAYS, as a number of time units
    Batch,      \* RR_BATCH_SIZE
    MaxLag,     \* how long a response waits in the collector's buffer
    MaxTime,    \* bound: the clock stops here
    MaxErrors   \* bound: database errors

ASSUME RetentionAssumption ==
    /\ {Retention, Batch, MaxTime, MaxErrors} \subseteq Nat
    /\ MaxLag \in 0 .. Retention - 1

VARIABLES
    now,            \* time.Now().Unix()
    records,        \* the responses collection: a set of [id, time]
    used,           \* history: the ids inserted so far
    pc,             \* "wait", "find" or "delete"
    unixThreshold,  \* computed once per clean()
    record,         \* receivedresponseunix of the record found
    errors          \* database errors so far

vars == <<now, records, used, pc, unixThreshold, record, errors>>

Record == [id : Ids, time : Int]

TypeOK ==
    /\ now \in Nat
    /\ records \subseteq Record
    /\ used \subseteq Ids
    /\ pc \in {"wait", "find", "delete"}
    /\ {unixThreshold, record} \subseteq Int
    /\ errors \in Nat

Init ==
    /\ now = 0
    /\ records = {}
    /\ used = {}
    /\ pc = "wait"
    /\ unixThreshold = -1
    /\ record = -1
    /\ errors = 0

UpTo(t) == {rec \in records : rec.time <= t}
Before(t) == {rec \in records : rec.time < t}

-----------------------------------------------------------------------------
Tick ==
    /\ now < MaxTime
    /\ now' = now + 1
    /\ UNCHANGED <<records, used, pc, unixThreshold, record, errors>>

\* The response collector saves a response received at most MaxLag ago.
Insert(i) ==
    /\ i \notin used
    /\ used' = used \cup {i}
    /\ \E lag \in 0 .. MaxLag : records' = records \cup {[id |-> i, time |-> now - lag]}
    /\ UNCHANGED <<now, pc, unixThreshold, record, errors>>

\* Mutant of StartClean: the retention period is added to now.
StartCleanAhead ==
    /\ pc = "wait"
    /\ pc' = "find"
    /\ unixThreshold' = now + Retention
    /\ UNCHANGED <<now, records, used, record, errors>>

\* The wait is over, or the process has just been started.
StartClean ==
    /\ pc = "wait"
    /\ pc' = "find"
    /\ unixThreshold' = now - Retention
    /\ UNCHANGED <<now, records, used, record, errors>>

\* Mutant of Find: the filter on the threshold is left out.
FindAny ==
    /\ pc = "find"
    /\ \E rec \in records :
          /\ Cardinality(Before(rec.time)) <= Batch
          /\ Cardinality(UpTo(rec.time)) > Batch
          /\ record' = rec.time
    /\ pc' = "delete"
    /\ UNCHANGED <<now, records, used, unixThreshold, errors>>

\* FindOne among the expired, sorted by time, skipping Batch of them: the time
\* found has at most Batch records before it and more than Batch up to it.
Find ==
    /\ pc = "find"
    /\ \E rec \in UpTo(unixThreshold) :
          /\ Cardinality(Before(rec.time)) <= Batch
          /\ Cardinality(UpTo(rec.time)) > Batch
          /\ record' = rec.time
    /\ pc' = "delete"
    /\ UNCHANGED <<now, records, used, unixThreshold, errors>>

\* mongo.ErrNoDocuments: this clean() is over.
FindNone ==
    /\ pc = "find"
    /\ Cardinality(UpTo(unixThreshold)) <= Batch
    /\ pc' = "wait"
    /\ UNCHANGED <<now, records, used, unixThreshold, record, errors>>

\* Mutants of Delete: only the time found is deleted, or only what is before it.
DeleteFound ==
    /\ pc = "delete"
    /\ records' = records \ {rec \in records : rec.time = record}
    /\ pc' = "find"
    /\ UNCHANGED <<now, used, unixThreshold, record, errors>>

DeleteBefore ==
    /\ pc = "delete"
    /\ records' = records \ Before(record)
    /\ pc' = "find"
    /\ UNCHANGED <<now, used, unixThreshold, record, errors>>

Delete ==
    /\ pc = "delete"
    /\ records' = records \ UpTo(record)
    /\ pc' = "find"
    /\ UNCHANGED <<now, used, unixThreshold, record, errors>>

\* Finding or deleting fails: log and return; or the process is restarted.
GiveUp ==
    /\ pc \in {"find", "delete"}
    /\ errors < MaxErrors
    /\ errors' = errors + 1
    /\ pc' = "wait"
    /\ UNCHANGED <<now, records, used, unixThreshold, record>>

Next ==
    \/ Tick
    \/ \E i \in Ids : Insert(i)
    \/ StartClean
    \/ Find
    \/ FindNone
    \/ Delete
    \/ GiveUp

Spec == Init /\ [][Next]_vars

\* Time passes, wait() ends and the database answers.
FairSpec ==
    /\ Spec
    /\ WF_vars(Tick)
    /\ WF_vars(StartClean \/ Find \/ FindNone \/ Delete)

-----------------------------------------------------------------------------
(***************************************************************************)
(* No response younger than the retention period is ever deleted, although *)
(* the threshold and the time found are as old as the clean() they belong  *)
(* to and records arrive between the find and the delete.                  *)
(* (clean, main.go:75-104)                                                 *)
(***************************************************************************)
OnlyExpiredDeleted ==
    [][\A rec \in records \ records' : rec.time <= now - Retention]_vars

(***************************************************************************)
(* "records are removed from the older to the most recent" (main.go:54): a *)
(* delete never leaves a record that is as old as one it removes.          *)
(***************************************************************************)
OldestFirst ==
    [][\A rec \in records \ records', kept \in records' : rec.time < kept.time]_vars

(***************************************************************************)
(* The loop of clean() ends and its rounds keep the expired responses down *)
(* to a batch: errors and insertions do not make it fall behind for good.  *)
(***************************************************************************)
BacklogBounded == []<>(Cardinality(UpTo(now - Retention)) <= Batch)

ThresholdPast ==
    /\ pc # "wait" => unixThreshold <= now - Retention
    /\ pc = "delete" => record <= unixThreshold

(***************************************************************************)
(* The inductive invariant the theorems rest on: with the types, the       *)
(* threshold of a running clean() never lies ahead of the retention limit, *)
(* and the time that bounds its delete never lies ahead of the threshold.  *)
(***************************************************************************)
IInv == TypeOK /\ ThresholdPast
=============================================================================
