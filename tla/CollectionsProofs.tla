-------------------------- MODULE CollectionsProofs --------------------------
(***************************************************************************)
(* Proofs about Collections, for any number of loaders, any file and any   *)
(* sequence of operations, failures and writes.  IndexInv first, and with  *)
(* it that a collection keeps its unique index; then LoadInv, and with it  *)
(* what a load leaves and what a scheduler finds when it boots.            *)
(***************************************************************************)
EXTENDS Collections, SequenceTheorems, TLAPS

USE DEF collection, operations

\* The operations are sequences of calls in which an index follows a creation.
WellFormed(calls) ==
    /\ calls \in Seq(Calls)
    /\ \A k \in DOMAIN calls : calls[k] = "create" =>
          k < Len(calls) /\ calls[k + 1] \in {"index", "otherIndex"}

\* A short sequence whose only creation, if any, is its k-th call.
LEMMA ShortWellFormed ==
  ASSUME NEW calls \in Seq(Calls), NEW k \in Nat,
         \A i \in 1 .. Len(calls) : calls[i] = "create" => i = k,
         k \in 1 .. Len(calls) =>
            k + 1 <= Len(calls) /\ calls[k + 1] \in {"index", "otherIndex"}
  PROVE  WellFormed(calls)
<1>1. DOMAIN calls = 1 .. Len(calls) /\ Len(calls) \in Nat
  BY LenProperties
<1>2. ASSUME NEW i \in DOMAIN calls, calls[i] = "create"
      PROVE  i < Len(calls) /\ calls[i + 1] \in {"index", "otherIndex"}
  <2>1. i = k /\ k \in 1 .. Len(calls)
    BY <1>1, <1>2
  <2>2. QED
    BY <1>1, <2>1
<1>3. QED
  BY <1>2 DEF WellFormed

LEMMA LongerByOne ==
  ASSUME NEW S, NEW s \in Seq(S), NEW x \in S, NEW longer, longer = Append(s, x)
  PROVE  /\ longer \in Seq(S) /\ Len(longer) = Len(s) + 1 /\ longer[Len(s) + 1] = x
         /\ \A i \in 1 .. Len(s) : longer[i] = s[i]
OBVIOUS

LEMMA IndexTwice ==
  ASSUME NEW calls \in Seq(Calls), Len(calls) = 2, NEW x \in {"index", "otherIndex"},
         calls[1] = "create", calls[2] = x
  PROVE  WellFormed(Append(calls, x))
<1> SUFFICES ASSUME NEW longer, longer = Append(calls, x) PROVE WellFormed(longer)
  OBVIOUS
<1>1. x \in Calls
  BY DEF Calls
<1>2. /\ longer \in Seq(Calls) /\ Len(longer) = Len(calls) + 1
      /\ \A i \in 1 .. Len(calls) : longer[i] = calls[i]
  BY <1>1, LongerByOne
<1>3. Len(longer) = 3 /\ longer[1] = "create" /\ longer[2] = x
  BY <1>2
<1>4. longer[3] = x
  BY <1>1, LongerByOne
<1>5. \A i \in 1 .. Len(longer) : longer[i] = "create" => i = 1
  <2>1. \A i \in 1 .. 3 : i = 1 \/ i = 2 \/ i = 3
    OBVIOUS
  <2>2. x # "create"
    OBVIOUS
  <2>3. QED
    BY <1>3, <1>4, <2>1, <2>2
<1>6. longer[1 + 1] \in {"index", "otherIndex"} /\ 1 + 1 <= Len(longer) /\ 1 \in Nat
  BY <1>3
<1>7. longer \in Seq(Calls)
  BY <1>2
<1>8. QED
  BY <1>5, <1>6, <1>7, ShortWellFormed

LEMMA CallsWellFormed ==
  ASSUME TypeOK
  PROVE  /\ WellFormed(CreateCalls) /\ WellFormed(TruncateCalls)
         /\ WellFormed(UpCalls) /\ WellFormed(DownCalls) /\ WellFormed(<<"drop">>)
<1>1. WellFormed(<<>>)
  BY EmptySeq DEF WellFormed
<1>2. ASSUME NEW c, c = <<"drop">> PROVE WellFormed(c)
  <2>1. c \in Seq(Calls) /\ Len(c) = 1 /\ c[1] = "drop"
    BY <1>2 DEF Calls
  <2>2. \A i \in 1 .. 1 : c[i] # "create"
    BY <2>1
  <2>3. QED
    BY <2>1, <2>2, ShortWellFormed
<1>3. ASSUME NEW x \in {"index", "otherIndex"}, NEW c, c = <<"create", x>>
      PROVE  WellFormed(c)
  <2>1. c \in Seq(Calls) /\ Len(c) = 2 /\ c[1] = "create" /\ c[2] = x
    BY <1>3 DEF Calls
  <2>2. \A i \in 1 .. 2 : c[i] = "create" => i = 1
    BY <2>1
  <2>3. QED
    BY <2>1, <2>2, ShortWellFormed
<1>4. ASSUME NEW c, c = TruncateCalls PROVE WellFormed(c)
  <2>1. /\ c \in Seq(Calls) /\ Len(c) = 4
        /\ c[1] = "drop" /\ c[2] = "create" /\ c[3] = "index" /\ c[4] = "index"
    BY <1>4 DEF TruncateCalls, Calls
  <2>2. \A i \in 1 .. 4 : c[i] = "create" => i = 2
    BY <2>1
  <2>3. QED
    BY <2>1, <2>2, ShortWellFormed
<1>5. WellFormed(CreateCalls) /\ WellFormed(<<"create", "otherIndex">>)
  BY <1>3 DEF CreateCalls
<1>6. WellFormed(Append(CreateCalls, "index"))
  <2>1. /\ CreateCalls \in Seq(Calls) /\ Len(CreateCalls) = 2
        /\ CreateCalls[1] = "create" /\ CreateCalls[2] = "index"
    BY DEF CreateCalls, Calls
  <2>2. QED
    BY <2>1, IndexTwice
<1>7. WellFormed(TruncateCalls)
  BY <1>4
<1>70. name \in {"checks", "responses", "heartbeats"}
  BY CollectionsAssumption DEF TypeOK
<1>8. WellFormed(UpCalls)
  <2>1. CASE name = "checks"
    BY <1>1, <1>6, <2>1 DEF UpCalls, UpWhenMissing, UpWhenPresent
  <2>2. CASE name = "responses"
    BY <1>1, <1>5, <2>2 DEF UpCalls, UpWhenMissing, UpWhenPresent
  <2>3. CASE name = "heartbeats"
    BY <1>5, <1>7, <2>3 DEF UpCalls, UpWhenMissing, UpWhenPresent
  <2>4. QED
    BY <1>70, <2>1, <2>2, <2>3
<1>9. QED
  BY <1>1, <1>2, <1>5, <1>7, <1>8 DEF DownCalls

LEMMA TailOfOne ==
  ASSUME NEW calls \in Seq(Calls), Len(calls) = 1
  PROVE  Tail(calls) = <<>>
<1>1. calls # <<>>
  BY EmptySeq
<1>2. Tail(calls) \in Seq(Calls) /\ Len(Tail(calls)) = Len(calls) - 1
  BY <1>1, HeadTailProperties
<1>3. Len(Tail(calls)) = 0
  BY <1>2
<1>4. QED
  BY <1>2, <1>3, EmptySeq

\* What is left after a call is well formed too.
LEMMA TailWellFormed ==
  ASSUME NEW calls, WellFormed(calls), calls # <<>>
  PROVE  /\ WellFormed(Tail(calls)) /\ Head(calls) \in Calls
         /\ Head(calls) = "create" =>
               Tail(calls) # <<>> /\ Head(Tail(calls)) \in {"index", "otherIndex"}
<1> calls \in Seq(Calls)
  BY DEF WellFormed
<1>1. /\ Head(calls) \in Calls /\ Tail(calls) \in Seq(Calls)
      /\ Len(Tail(calls)) = Len(calls) - 1
      /\ \A i \in 1 .. Len(calls) - 1 : Tail(calls)[i] = calls[i + 1]
      /\ Len(calls) \in Nat \ {0} /\ Head(calls) = calls[1]
      /\ DOMAIN calls = 1 .. Len(calls)
  BY HeadTailProperties, LenProperties, EmptySeq
<1>2. ASSUME NEW k \in DOMAIN Tail(calls), Tail(calls)[k] = "create"
      PROVE  k < Len(Tail(calls)) /\ Tail(calls)[k + 1] \in {"index", "otherIndex"}
  <2>1. k \in 1 .. Len(calls) - 1
    BY <1>1, LenProperties
  <2>2. calls[k + 1] = "create" /\ k + 1 \in DOMAIN calls
    BY <1>1, <1>2, <2>1
  <2>3. k + 1 < Len(calls) /\ calls[k + 2] \in {"index", "otherIndex"}
    BY <2>1, <2>2 DEF WellFormed
  <2>4. QED
    BY <1>1, <2>1, <2>3
<1>3. ASSUME Head(calls) = "create"
      PROVE  Tail(calls) # <<>> /\ Head(Tail(calls)) \in {"index", "otherIndex"}
  <2>1. 1 \in DOMAIN calls /\ calls[1] = "create"
    BY <1>1, <1>3
  <2>2. 1 < Len(calls) /\ calls[1 + 1] \in {"index", "otherIndex"}
    BY <2>1 DEF WellFormed
  <2>3. Len(Tail(calls)) # 0 /\ Tail(calls)[1] = calls[1 + 1]
    BY <1>1, <2>2
  <2>4. Tail(calls) # <<>>
    BY <1>1, <2>3, EmptySeq
  <2>5. Head(Tail(calls)) = Tail(calls)[1]
    BY <1>1, <2>4, HeadTailProperties
  <2>6. QED
    BY <2>2, <2>3, <2>4, <2>5
<1>4. QED
  BY <1>1, <1>2, <1>3 DEF WellFormed

Ops == TypeOK /\ IndexFollows /\ IdleIsEmpty

OperationsOK ==
    /\ todo \in [Actors -> Seq(Calls)]
    /\ doing \in [Actors -> Operations \cup {"nothing"}]
    /\ migrated \in BOOLEAN
    /\ IndexFollows
    /\ IdleIsEmpty

\* The three ways in which the operations change.
LEMMA BeginOps ==
  ASSUME Ops, NEW a \in Actors, NEW op \in Operations, NEW calls, WellFormed(calls),
         Begin(a, op, calls)
  PROVE  OperationsOK'
<1>1. todo' = [todo EXCEPT ![a] = calls]
      /\ doing' = [doing EXCEPT ![a] = IF calls = <<>> THEN "nothing" ELSE op]
  BY DEF Begin
<1>2. todo' \in [Actors -> Seq(Calls)] /\ doing' \in [Actors -> Operations \cup {"nothing"}]
  BY <1>1 DEF Ops, TypeOK, WellFormed
<1>3. migrated' \in BOOLEAN
  BY DEF Begin, Ops, TypeOK
<1>4. IndexFollows'
  BY <1>1 DEF Ops, TypeOK, IndexFollows, WellFormed
<1>5. IdleIsEmpty'
  BY <1>1 DEF Ops, TypeOK, IdleIsEmpty, Operations
<1>6. QED
  BY <1>2, <1>3, <1>4, <1>5 DEF OperationsOK

LEMMA DoneOps ==
  ASSUME Ops, NEW a \in Actors, todo[a] # <<>>, CallDone(a)
  PROVE  OperationsOK'
<1>1. WellFormed(todo[a]) /\ todo[a] \in Seq(Calls)
  BY DEF Ops, TypeOK, IndexFollows, WellFormed
<1>2. WellFormed(Tail(todo[a]))
  BY <1>1, TailWellFormed
<1>3. todo' = [todo EXCEPT ![a] = Tail(todo[a])]
      /\ doing' = [doing EXCEPT ![a] = IF Len(todo[a]) = 1 THEN "nothing" ELSE doing[a]]
  BY DEF CallDone
<1>4. todo' \in [Actors -> Seq(Calls)] /\ doing' \in [Actors -> Operations \cup {"nothing"}]
  BY <1>2, <1>3 DEF Ops, TypeOK, WellFormed
<1>5. migrated' \in BOOLEAN
  BY DEF CallDone, Ops, TypeOK
<1>6. IndexFollows'
  BY <1>2, <1>3 DEF Ops, TypeOK, IndexFollows, WellFormed
<1>7. IdleIsEmpty'
  <2>1. Len(todo[a]) = 1 => Tail(todo[a]) = <<>>
    BY <1>1, TailOfOne
  <2>2. doing[a] # "nothing"
    BY DEF Ops, IdleIsEmpty
  <2>3. QED
    BY <1>3, <2>1, <2>2 DEF Ops, TypeOK, IdleIsEmpty
<1>8. QED
  BY <1>4, <1>5, <1>6, <1>7 DEF OperationsOK

LEMMA AbortOps ==
  ASSUME Ops, NEW a \in Actors, Abort(a)
  PROVE  OperationsOK'
<1>1. todo' = [todo EXCEPT ![a] = <<>>] /\ doing' = [doing EXCEPT ![a] = "nothing"]
      /\ migrated' = migrated
  BY DEF Abort
<1>2. <<>> \in Seq(Calls)
  BY EmptySeq
<1>3. todo' \in [Actors -> Seq(Calls)] /\ doing' \in [Actors -> Operations \cup {"nothing"}]
  BY <1>1, <1>2 DEF Ops, TypeOK
<1>4. IndexFollows'
  BY <1>1 DEF Ops, TypeOK, IndexFollows
<1>5. IdleIsEmpty'
  BY <1>1 DEF Ops, TypeOK, IdleIsEmpty
<1>6. QED
  BY <1>1, <1>3, <1>4, <1>5 DEF OperationsOK, Ops, TypeOK

\* What is in the collection, and the processes that put it there.
DataOK ==
    /\ name \in Names
    /\ present \in BOOLEAN /\ unique \in BOOLEAN
    /\ records \in Seq(Record)
    /\ faults \in 0 .. MaxFaults
    /\ bare \subseteq {"written", "interrupted", "migrated"}
    /\ NoDuplicates

ProcessesOK == loader \in [Loaders -> Loader] /\ scheduler \in Scheduler

LEMMA Parts == IndexInv <=> Ops /\ DataOK /\ ProcessesOK /\ IndexKept
BY DEF IndexInv, Ops, DataOK, ProcessesOK, TypeOK

LEMMA PartsPrimed ==
  OperationsOK' /\ DataOK' /\ ProcessesOK' /\ IndexKept' => IndexInv'
BY DEF IndexInv, OperationsOK, DataOK, ProcessesOK, TypeOK

-----------------------------------------------------------------------------
LEMMA BeginStep ==
  ASSUME IndexInv, NEW a \in Actors, NEW op \in Operations, NEW calls,
         WellFormed(calls), Begin(a, op, calls)
  PROVE  IndexInv'
<1>1. OperationsOK'
  BY BeginOps, Parts
<1>2. DataOK' /\ ProcessesOK'
  BY DEF Begin, IndexInv, TypeOK, DataOK, ProcessesOK, NoDuplicates, Distinct
<1>3. IndexKept'
  <2>1. todo[a] = <<>> /\ \A b \in Actors \ {a} : todo'[b] = todo[b]
    BY DEF Begin, IndexInv, TypeOK, IdleIsEmpty
  <2>2. \A b \in Actors : Indexing(b) => Indexing(b)'
    BY <2>1 DEF Indexing
  <2>3. QED
    BY <2>2 DEF Begin, IndexInv, IndexKept
<1>4. QED
  BY <1>1, <1>2, <1>3, PartsPrimed

LEMMA BeginSteps ==
  ASSUME IndexInv,
         AdminCreate \/ AdminTruncate \/ AdminDrop \/ Up \/ Down \/ CollectorBoot
  PROVE  IndexInv'
<1>1. /\ WellFormed(CreateCalls) /\ WellFormed(TruncateCalls)
      /\ WellFormed(UpCalls) /\ WellFormed(DownCalls) /\ WellFormed(<<"drop">>)
  BY CallsWellFormed DEF IndexInv
<1>2. {"admin", "migration", "collector"} \subseteq Actors
      /\ {"create", "truncate", "drop", "up", "down", "boot"} \subseteq Operations
  BY DEF Actors, Operations
<1>3. CASE AdminCreate
  BY <1>1, <1>2, <1>3, BeginStep DEF AdminCreate
<1>4. CASE AdminTruncate
  BY <1>1, <1>2, <1>4, BeginStep DEF AdminTruncate
<1>5. CASE AdminDrop
  BY <1>1, <1>2, <1>5, BeginStep DEF AdminDrop
<1>6. CASE Up
  BY <1>1, <1>2, <1>6, BeginStep DEF Up
<1>7. CASE Down
  BY <1>1, <1>2, <1>7, BeginStep DEF Down
<1>8. CASE CollectorBoot
  BY <1>1, <1>2, <1>8, BeginStep DEF CollectorBoot
<1>9. QED
  BY <1>3, <1>4, <1>5, <1>6, <1>7, <1>8

-----------------------------------------------------------------------------
\* A call leaves the other actors' calls alone.
LEMMA OthersIndexing ==
  ASSUME TypeOK, NEW a \in Actors, NEW b \in Actors \ {a}, Indexing(b),
         CallDone(a) \/ Abort(a)
  PROVE  Indexing(b)'
<1>1. todo'[b] = todo[b]
  BY DEF CallDone, Abort, TypeOK
<1>2. QED
  BY <1>1 DEF Indexing

LEMMA AbortStep ==
  ASSUME IndexInv, NEW a \in Actors, Abort(a), faults' \in 0 .. MaxFaults
  PROVE  IndexInv'
<1>1. OperationsOK'
  BY AbortOps, Parts
<1>2. DataOK' /\ ProcessesOK'
  BY DEF Abort, Interrupted, IndexInv, TypeOK, DataOK, ProcessesOK, NoDuplicates,
     Distinct
<1>3. IndexKept'
  <2> SUFFICES ASSUME present /\ ~unique
               PROVE  bare' # {} \/ \E b \in Actors : Indexing(b)'
    BY DEF Abort, IndexKept
  <2>1. CASE bare # {}
    BY <2>1 DEF Abort
  <2>2. CASE Indexing(a)
    <3>1. "interrupted" \in Interrupted(a)
      BY <2>2 DEF Indexing, Interrupted
    <3>2. QED
      BY <3>1 DEF Abort
  <2>3. CASE \E b \in Actors \ {a} : Indexing(b)
    BY <2>3, OthersIndexing DEF IndexInv
  <2>4. QED
    BY <2>1, <2>2, <2>3 DEF IndexInv, IndexKept
<1>4. QED
  BY <1>1, <1>2, <1>3, PartsPrimed

LEMMA DropStep ==
  ASSUME IndexInv, NEW a \in Actors, Drop(a)
  PROVE  IndexInv'
<1>1. OperationsOK'
  BY DoneOps, Parts DEF Drop, NextIs
<1>2. DataOK'
  <2>1. <<>> \in Seq(Record)
    BY EmptySeq
  <2>2. QED
    BY <2>1 DEF Drop, CallDone, IndexInv, TypeOK, DataOK, NoDuplicates
<1>3. ProcessesOK'
  <2>1. loader' \in [Loaders -> Loader]
    <3>1. \A l \in Loaders : loader[l] \in Loader
      BY DEF IndexInv, TypeOK
    <3>2. \A l \in Loaders : [loader[l] EXCEPT !.alone = FALSE] \in Loader
      BY <3>1 DEF Loader
    <3>3. QED
      BY <3>2 DEF Drop
  <2>2. scheduler' \in Scheduler
    BY DEF Drop, IndexInv, TypeOK, Scheduler
  <2>3. QED
    BY <2>1, <2>2 DEF ProcessesOK
<1>4. IndexKept'
  BY DEF Drop, IndexKept
<1>5. QED
  BY <1>1, <1>2, <1>3, <1>4, PartsPrimed

LEMMA CreateStep ==
  ASSUME IndexInv, NEW a \in Actors, Create(a)
  PROVE  IndexInv'
<1>1. OperationsOK'
  BY DoneOps, Parts DEF Create, NextIs
<1>2. DataOK' /\ ProcessesOK'
  BY DEF Create, CallDone, IndexInv, TypeOK, DataOK, ProcessesOK, NoDuplicates,
     Distinct
<1>3. IndexKept'
  <2>1. WellFormed(todo[a]) /\ todo[a] # <<>> /\ Head(todo[a]) = "create"
    BY DEF Create, NextIs, IndexInv, TypeOK, IndexFollows, WellFormed
  <2>2. Tail(todo[a]) # <<>> /\ Head(Tail(todo[a])) \in {"index", "otherIndex"}
    BY <2>1, TailWellFormed
  <2>3. todo'[a] = Tail(todo[a])
    BY DEF Create, CallDone, IndexInv, TypeOK
  <2>4. Indexing(a)'
    BY <2>2, <2>3 DEF Indexing
  <2>5. QED
    BY <2>4 DEF IndexKept
<1>4. QED
  BY <1>1, <1>2, <1>3, PartsPrimed

LEMMA CreateIndexStep ==
  ASSUME IndexInv, NEW a \in Actors, CreateIndex(a) \/ CreateOtherIndex(a)
  PROVE  IndexInv'
<1>1. OperationsOK'
  BY DoneOps, Parts DEF CreateIndex, CreateOtherIndex, NextIs
<1>2. DataOK'
  <2>1. CASE CreateIndex(a)
    BY <2>1 DEF CreateIndex, CallDone, IndexInv, TypeOK, DataOK, NoDuplicates,
       Distinct
  <2>2. CASE CreateOtherIndex(a)
    BY <2>2 DEF CreateOtherIndex, CallDone, IndexInv, TypeOK, DataOK, NoDuplicates,
       Distinct
  <2>3. QED
    BY <2>1, <2>2
<1>3. ProcessesOK'
  BY DEF CreateIndex, CreateOtherIndex, ProcessesOK, IndexInv, TypeOK
<1>4. IndexKept'
  BY DEF CreateIndex, CreateOtherIndex, IndexKept
<1>5. QED
  BY <1>1, <1>2, <1>3, <1>4, PartsPrimed

LEMMA CallSteps ==
  ASSUME IndexInv, NEW a \in Actors, CallStep(a)
  PROVE  IndexInv'
<1>1. CASE Drop(a)
  BY <1>1, DropStep
<1>2. CASE Create(a)
  BY <1>2, CreateStep
<1>3. CASE CreateIndex(a) \/ CreateOtherIndex(a)
  BY <1>3, CreateIndexStep
<1>4. CASE Refused(a)
  BY <1>4, AbortStep DEF Refused, IndexInv, TypeOK
<1>5. CASE CallFails(a)
  <2>1. faults' \in 0 .. MaxFaults
    BY <1>5, CollectionsAssumption DEF CallFails, IndexInv, TypeOK
  <2>2. QED
    BY <1>5, <2>1, AbortStep DEF CallFails
<1>6. QED
  BY <1>1, <1>2, <1>3, <1>4, <1>5 DEF CallStep

-----------------------------------------------------------------------------
\* A step that touches neither operations nor indexes, and that makes a missing
\* collection only by writing to it.
LEMMA DataStep ==
  ASSUME IndexInv, DataOK', ProcessesOK', UNCHANGED operations,
         UNCHANGED <<present, unique, bare>> \/ \E rs \in Seq(Record) : Inserted(rs)
  PROVE  IndexInv'
<1>1. OperationsOK'
  BY DEF IndexInv, TypeOK, OperationsOK, IndexFollows, IdleIsEmpty
<1>2. \A b \in Actors : Indexing(b)' <=> Indexing(b)
  BY DEF Indexing
<1>3. IndexKept'
  <2>1. CASE UNCHANGED <<present, unique, bare>>
    BY <1>2, <2>1 DEF IndexInv, IndexKept
  <2>2. CASE \E rs \in Seq(Record) : Inserted(rs)
    <3>1. unique' = unique /\ bare' = IF present THEN bare ELSE {"written"}
      BY <2>2 DEF Inserted
    <3>2. CASE present
      BY <1>2, <3>1, <3>2 DEF IndexInv, IndexKept
    <3>3. CASE ~present
      BY <3>1, <3>3 DEF IndexKept
    <3>4. QED
      BY <3>2, <3>3
  <2>3. QED
    BY <2>1, <2>2
<1>4. QED
  BY <1>1, <1>3, DataOK', ProcessesOK', PartsPrimed

LEMMA InsertedData ==
  ASSUME IndexInv, NEW rs \in Seq(Record), Storable(rs), Inserted(rs),
         faults' \in 0 .. MaxFaults
  PROVE  DataOK'
<1>1. records \o rs \in Seq(Record)
  BY ConcatProperties DEF IndexInv, TypeOK
<1>2. NoDuplicates'
  BY DEF Inserted, Storable, NoDuplicates, Distinct
<1>3. QED
  BY <1>1, <1>2 DEF Inserted, IndexInv, TypeOK, DataOK

LEMMA UnchangedData ==
  ASSUME IndexInv, UNCHANGED collection, faults' \in 0 .. MaxFaults
  PROVE  DataOK'
BY DEF IndexInv, TypeOK, DataOK, NoDuplicates, Distinct

LEMMA LoaderTypes ==
  ASSUME TypeOK
  PROVE  /\ NewLoader \in Loader /\ Succeeded \in Loader /\ NoScheduler \in Scheduler
         /\ \A l \in Loaders : loader[l].buffer \in Seq(Record)
         /\ Lines \in Nat /\ PerSecond \in Nat \ {0} /\ MaxFaults \in Nat
<1>1. Lines \in Nat /\ PerSecond \in Nat \ {0} /\ MaxFaults \in Nat
  BY CollectionsAssumption
<1>2. NewLoader \in Loader
  BY <1>1, EmptySeq DEF NewLoader, Loader, LoaderStates
<1>3. Succeeded \in Loader
  BY <1>2 DEF Succeeded, Loader, LoaderStates
<1>4. NoScheduler \in Scheduler
  BY EmptySeq DEF NoScheduler, Scheduler
<1>5. QED
  BY <1>1, <1>2, <1>3, <1>4 DEF TypeOK, Loader

\* A loader's insertion of the first n records of its buffer.
LEMMA SavesPrefix ==
  ASSUME IndexInv, NEW l \in Loaders, NEW n \in 0 .. Len(loader[l].buffer),
         Storable(SubSeq(loader[l].buffer, 1, n)), LoaderEnds(l, n),
         faults' \in 0 .. MaxFaults
  PROVE  IndexInv'
<1> DEFINE rs == SubSeq(loader[l].buffer, 1, n)
<1>1. loader[l].buffer \in Seq(Record) /\ NewLoader \in Loader
  BY LoaderTypes DEF IndexInv
<1>2. rs \in Seq(Record)
  BY <1>1, SubSeqProperties, LenProperties
<1>3. DataOK'
  BY <1>2, InsertedData DEF LoaderEnds
<1>4. ProcessesOK'
  BY <1>1 DEF LoaderEnds, Set, ProcessesOK, IndexInv, TypeOK
<1>5. QED
  BY <1>2, <1>3, <1>4, DataStep DEF LoaderEnds, operations

LEMMA LoaderSteps ==
  ASSUME IndexInv, NEW l \in Loaders, LoaderStep(l)
  PROVE  IndexInv'
<1>0. /\ TypeOK /\ loader \in [Loaders -> Loader] /\ loader[l] \in Loader
      /\ scheduler \in Scheduler /\ faults \in 0 .. MaxFaults
  BY DEF IndexInv, TypeOK
<1>t. /\ NewLoader \in Loader /\ Succeeded \in Loader /\ loader[l].buffer \in Seq(Record)
      /\ Lines \in Nat /\ PerSecond \in Nat \ {0} /\ MaxFaults \in Nat
  BY <1>0, LoaderTypes
<1>1. CASE LoaderStart(l)
  <2>0. [NewLoader EXCEPT !.pc = "deleting", !.alone = TRUE] \in Loader
        /\ [NewLoader EXCEPT !.pc = "deleting", !.alone = FALSE] \in Loader
        /\ \A k \in Loaders : [loader[k] EXCEPT !.alone = FALSE] \in Loader
    BY <1>0, <1>t DEF Loader, LoaderStates
  <2>1. loader' \in [Loaders -> Loader]
    BY <1>1, <2>0 DEF LoaderStart
  <2>2. ProcessesOK' /\ DataOK'
    BY <1>0, <1>1, <2>1, UnchangedData DEF LoaderStart, ProcessesOK
  <2>3. QED
    BY <1>1, <2>2, DataStep DEF LoaderStart
<1>2. CASE DeleteOwn(l)
  <2>1. [loader[l] EXCEPT !.pc = "reading"] \in Loader
    BY <1>0 DEF Loader, LoaderStates
  <2>2. scheduler' \in Scheduler
    BY <1>0, <1>2 DEF DeleteOwn, Scheduler
  <2>3. ProcessesOK'
    BY <1>0, <1>2, <2>1, <2>2 DEF DeleteOwn, Set, ProcessesOK
  <2>4. <<>> \in Seq(Record) /\ Distinct(<<>>)
    BY EmptySeq DEF Distinct
  <2>5. DataOK'
    BY <1>2, <2>4 DEF DeleteOwn, DataOK, IndexInv, TypeOK, NoDuplicates, Distinct
  <2>6. QED
    BY <1>2, <2>3, <2>5, DataStep DEF DeleteOwn
<1>3. CASE ReadLine(l)
  <2> DEFINE slot == IF loader[l].inSecond >= PerSecond THEN loader[l].slot + 1
                     ELSE loader[l].slot
             record == [key |-> loader[l].line, slot |-> slot]
             new == [loader[l] EXCEPT
                !.line = @ + 1,
                !.inSecond = IF loader[l].inSecond >= PerSecond THEN 1 ELSE @ + 1,
                !.slot = slot,
                !.buffer = Append(@, record),
                !.pc = IF Len(loader[l].buffer) + 1 >= BatchSize
                       THEN "saving" ELSE "reading"]
  <2>0. /\ loader[l].slot \in Nat /\ loader[l].line \in 0 .. Lines
        /\ loader[l].inSecond \in 0 .. PerSecond /\ loader[l].line < Lines
    BY <1>0, <1>3 DEF ReadLine, Loader
  <2>1. slot \in Nat /\ loader[l].line + 1 \in 0 .. Lines
        /\ (IF loader[l].inSecond >= PerSecond THEN 1 ELSE loader[l].inSecond + 1)
              \in 0 .. PerSecond
    <3>1. PerSecond \in Nat \ {0} /\ Lines \in Nat
      BY <1>t
    <3>2. slot \in Nat
      BY <2>0
    <3>3. loader[l].line + 1 \in 0 .. Lines
      BY <2>0, <3>1
    <3>4. (IF loader[l].inSecond >= PerSecond THEN 1 ELSE loader[l].inSecond + 1)
             \in 0 .. PerSecond
      BY <2>0, <3>1
    <3>5. QED
      BY <3>2, <3>3, <3>4
  <2>2. record \in Record
    BY <1>0, <2>1 DEF Record, Keys, Loader
  <2>3. Append(loader[l].buffer, record) \in Seq(Record)
    BY <1>t, <2>2, AppendProperties
  <2>4. new \in Loader
    <3> HIDE DEF record, slot
    <3>1. QED
      BY <1>0, <2>1, <2>3 DEF Loader, LoaderStates
  <2>5. loader' = [loader EXCEPT ![l] = new]
    BY <1>3 DEF ReadLine, Set
  <2>6. ProcessesOK' /\ DataOK'
    <3> HIDE DEF new
    <3>1. QED
      BY <1>0, <1>3, <2>4, <2>5, UnchangedData DEF ReadLine, ProcessesOK
  <2>7. QED
    BY <1>3, <2>6, DataStep DEF ReadLine
<1>4. ASSUME NEW new \in Loader, Set(l, new), faults' \in 0 .. MaxFaults,
             UNCHANGED <<collection, operations, scheduler>>
      PROVE  IndexInv'
  <2>1. ProcessesOK' /\ DataOK'
    BY <1>0, <1>4, UnchangedData DEF Set, ProcessesOK
  <2>2. QED
    BY <1>4, <2>1, DataStep
<1>a. CASE EndOfFile(l)
  <2>1. [loader[l] EXCEPT !.pc = "flushing"] \in Loader
    BY <1>0 DEF Loader, LoaderStates
  <2>2. QED
    BY <1>0, <1>4, <1>a, <2>1 DEF EndOfFile
<1>b. CASE ScanFails(l)
  <2>1. [loader[l] EXCEPT !.pc = "flushing", !.scanErr = TRUE] \in Loader
    BY <1>0 DEF Loader, LoaderStates
  <2>2. faults' \in 0 .. MaxFaults
    BY <1>0, <1>b, <1>t DEF ScanFails
  <2>3. QED
    BY <1>4, <1>b, <2>1, <2>2 DEF ScanFails
<1>c. CASE NothingToFlush(l)
  BY <1>0, <1>4, <1>c, <1>t DEF NothingToFlush
<1>5. CASE SaveRecords(l)
  <2>1. [loader[l] EXCEPT !.buffer = <<>>, !.pc = "reading"] \in Loader
    BY <1>0, EmptySeq DEF Loader, LoaderStates
  <2>2. ProcessesOK'
    BY <1>0, <1>5, <1>t, <2>1 DEF SaveRecords, Set, ProcessesOK
  <2>3. DataOK'
    BY <1>0, <1>5, <1>t, InsertedData DEF SaveRecords
  <2>4. QED
    BY <1>5, <1>t, <2>2, <2>3, DataStep DEF SaveRecords
<1>6. CASE SaveDuplicate(l)
  <2>1. PICK n \in 0 .. Len(loader[l].buffer) - 1 :
           Storable(SubSeq(loader[l].buffer, 1, n)) /\ LoaderEnds(l, n)
    BY <1>6 DEF SaveDuplicate
  <2>2. n \in 0 .. Len(loader[l].buffer)
    BY <1>t, LenProperties
  <2>3. QED
    BY <1>0, <1>6, <2>1, <2>2, SavesPrefix DEF SaveDuplicate
<1>7. CASE LoaderFails(l)
  <2>1. faults' \in 0 .. MaxFaults
    BY <1>0, <1>7, <1>t DEF LoaderFails
  <2>2. ASSUME NEW n \in 1 .. Len(loader[l].buffer),
               Storable(SubSeq(loader[l].buffer, 1, n)), LoaderEnds(l, n)
        PROVE  IndexInv'
    <3>1. n \in 0 .. Len(loader[l].buffer)
      BY <1>t, LenProperties
    <3>2. QED
      BY <2>1, <2>2, <3>1, SavesPrefix
  <2>3. ASSUME Set(l, NewLoader), UNCHANGED <<collection, operations, scheduler>>
        PROVE  IndexInv'
    <3>1. ProcessesOK' /\ DataOK'
      BY <1>0, <1>t, <2>1, <2>3, UnchangedData DEF Set, ProcessesOK
    <3>2. QED
      BY <2>3, <3>1, DataStep
  <2>4. QED
    BY <1>7, <2>2, <2>3 DEF LoaderFails
<1>8. QED
  BY <1>1, <1>2, <1>3, <1>5, <1>6, <1>7, <1>a, <1>b, <1>c DEF LoaderStep

-----------------------------------------------------------------------------
\* What a batch adds to the records ahead.
LEMMA BatchFacts ==
  ASSUME records \in Seq(Record), NEW c \in Nat, NEW last \in Nat, last <= Len(records),
         NEW batch, batch = [i \in 1 .. last - c |-> records[c + i].key]
  PROVE  batch \in Seq(Keys) /\ (c <= last => Len(batch) = last - c)
<1>1. \A i \in 1 .. last - c : records[c + i].key \in Keys
  <2>1. \A i \in 1 .. last - c : c + i \in 1 .. Len(records)
    BY LenProperties
  <2>2. \A i \in 1 .. Len(records) : records[i] \in Record
    BY ElementOfSeq
  <2>3. QED
    BY <2>1, <2>2 DEF Record
<1>2. CASE c <= last
  <2>1. last - c \in Nat
    BY <1>2
  <2>2. QED
    BY <1>1, <2>1, IsASeq
<1>3. CASE ~(c <= last)
  <2>1. 1 .. last - c = {}
    BY <1>3
  <2>2. batch = <<>>
    BY <2>1
  <2>3. QED
    BY <1>3, <2>2, EmptySeq
<1>4. QED
  BY <1>2, <1>3

LEMMA FetchedIs ==
  ASSUME records \in Seq(Record), NEW s \in Scheduler
  PROVE  \E last \in Nat : \E batch \in Seq(Keys) :
            /\ last <= Len(records)
            /\ batch = [i \in 1 .. last - s.cursor |-> records[s.cursor + i].key]
            /\ s.cursor <= Len(records) =>
                  s.cursor <= last /\ Len(batch) = last - s.cursor
            /\ Fetched(s) \in Scheduler
            /\ Fetched(s).pc = s.pc /\ Fetched(s).jobs = s.jobs
            /\ Fetched(s).found = s.found /\ Fetched(s).disturbed = s.disturbed
            /\ Fetched(s).cursor = last /\ Fetched(s).ahead = s.ahead \o batch
            /\ Fetched(s).server # "killed"
            /\ Fetched(s).server = "exhausted" => last = Len(records)
<1> DEFINE full == Len(records) - s.cursor >= FetchSize
           last == IF full THEN s.cursor + FetchSize ELSE Len(records)
           batch == [i \in 1 .. last - s.cursor |-> records[s.cursor + i].key]
           server == IF full THEN "open" ELSE "exhausted"
<1>1. /\ Len(records) \in Nat /\ s.cursor \in Nat /\ FetchSize \in Nat \ {0}
      /\ s.ahead \in Seq(Keys)
  BY CollectionsAssumption, LenProperties DEF Scheduler
<1>2. /\ last \in Nat /\ last <= Len(records) /\ (~full => last = Len(records))
      /\ s.cursor <= Len(records) => s.cursor <= last
  BY <1>1
<1>3. Fetched(s) = [s EXCEPT !.cursor = last, !.ahead = s.ahead \o batch, !.server = server]
  BY DEF Fetched
<1>4. server \in {"open", "exhausted"} /\ (server = "exhausted" => last = Len(records))
  BY <1>2
<1> HIDE DEF last, server
<1>5. batch \in Seq(Keys) /\ (s.cursor <= last => Len(batch) = last - s.cursor)
  BY <1>1, <1>2, BatchFacts
<1>6. s.ahead \o batch \in Seq(Keys)
  <2> HIDE DEF batch
  <2>1. QED
    BY <1>1, <1>5, ConcatProperties
<1>7. /\ Fetched(s) \in Scheduler
      /\ Fetched(s).pc = s.pc /\ Fetched(s).jobs = s.jobs
      /\ Fetched(s).found = s.found /\ Fetched(s).disturbed = s.disturbed
      /\ Fetched(s).cursor = last /\ Fetched(s).ahead = s.ahead \o batch
      /\ Fetched(s).server = server
  <2> DEFINE ahead == s.ahead \o batch
  <2>1. ahead \in Seq(Keys)
    BY <1>6
  <2>2. Fetched(s) = [s EXCEPT !.cursor = last, !.ahead = ahead, !.server = server]
    BY <1>3
  <2> HIDE DEF ahead
  <2>3. /\ Fetched(s) \in Scheduler
        /\ Fetched(s).pc = s.pc /\ Fetched(s).jobs = s.jobs
        /\ Fetched(s).found = s.found /\ Fetched(s).disturbed = s.disturbed
        /\ Fetched(s).cursor = last /\ Fetched(s).ahead = ahead
        /\ Fetched(s).server = server
    BY <1>2, <1>4, <2>1, <2>2 DEF Scheduler
  <2>4. QED
    BY <2>3 DEF ahead
<1>8. batch = [i \in 1 .. last - s.cursor |-> records[s.cursor + i].key]
  OBVIOUS
<1> HIDE DEF batch
<1>9. QED
  BY <1>2, <1>4, <1>5, <1>7, <1>8

\* The load begins with a new cursor.
LEMMA NewCursor ==
  ASSUME TypeOK, NEW s, s = [NoScheduler EXCEPT !.pc = "loading", !.found = KeysOf(records)]
  PROVE  s \in Scheduler
<1>1. \A i \in DOMAIN records : records[i] \in Record
  BY ElementOfSeq, LenProperties DEF TypeOK
<1>2. KeysOf(records) \subseteq Keys
  BY <1>1 DEF KeysOf, Record
<1>3. QED
  BY <1>2, EmptySeq DEF NoScheduler, Scheduler

LEMMA SchedulerTypes ==
  ASSUME TypeOK, SchedulerStep
  PROVE  scheduler' \in Scheduler
<1>0. scheduler \in Scheduler /\ records \in Seq(Record)
  BY DEF TypeOK
<1>1. /\ NoScheduler \in Scheduler
      /\ \A p \in {"counted", "running"} : [NoScheduler EXCEPT !.pc = p] \in Scheduler
  BY EmptySeq DEF NoScheduler, Scheduler
<1>2. CASE SchedulerStart \/ ScheduleEnd
  BY <1>1, <1>2 DEF SchedulerStart, ScheduleEnd
<1>3. CASE OpenCursor
  BY <1>0, <1>3, NewCursor, FetchedIs DEF OpenCursor
<1>4. CASE FetchMore
  BY <1>0, <1>4, FetchedIs DEF FetchMore
<1>5. CASE CursorFails
  BY <1>0, <1>1, <1>5 DEF CursorFails, Scheduler
<1>6. CASE ScheduleNext
  <2>1. scheduler.ahead \in Seq(Keys) /\ scheduler.ahead # <<>>
    BY <1>0, <1>6 DEF ScheduleNext, Scheduler
  <2>2. Head(scheduler.ahead) \in Keys /\ Tail(scheduler.ahead) \in Seq(Keys)
    BY <2>1, HeadTailProperties
  <2>3. QED
    BY <1>0, <1>1, <1>6, <2>2 DEF ScheduleNext, Scheduler
<1>7. QED
  BY <1>2, <1>3, <1>4, <1>5, <1>6 DEF SchedulerStep

LEMMA SchedulerSteps ==
  ASSUME IndexInv, SchedulerStep
  PROVE  IndexInv'
<1>0. TypeOK /\ faults \in 0 .. MaxFaults /\ MaxFaults \in Nat
  BY CollectionsAssumption DEF IndexInv, TypeOK
<1>1. UNCHANGED <<collection, operations, loader>>
  BY DEF SchedulerStep, SchedulerStart, OpenCursor, FetchMore, CursorFails, ScheduleNext,
     ScheduleEnd
<1>2. faults' \in 0 .. MaxFaults
  <2>1. faults' = faults \/ (faults < MaxFaults /\ faults' = faults + 1)
    BY DEF SchedulerStep, SchedulerStart, OpenCursor, FetchMore, CursorFails, ScheduleNext,
       ScheduleEnd
  <2>2. QED
    BY <1>0, <2>1
<1>3. DataOK'
  BY <1>1, <1>2, UnchangedData
<1>4. ProcessesOK'
  BY <1>0, <1>1, SchedulerTypes DEF ProcessesOK, TypeOK
<1>5. QED
  BY <1>1, <1>3, <1>4, DataStep

LEMMA WriteStep ==
  ASSUME IndexInv, NEW k \in Keys, Write(k)
  PROVE  IndexInv'
<1> DEFINE r == <<[key |-> k, slot |-> 0]>>
<1>1. r \in Seq(Record)
  BY DEF Record
<1>2. Storable(r) /\ Inserted(r) /\ UNCHANGED <<operations, loader, scheduler, faults>>
  BY DEF Write
<1>3. DataOK'
  <2> HIDE DEF r
  <2>1. QED
    BY <1>1, <1>2, InsertedData DEF IndexInv, TypeOK
<1>4. ProcessesOK'
  BY <1>2 DEF ProcessesOK, IndexInv, TypeOK
<1>5. QED
  BY <1>1, <1>2, <1>3, <1>4, DataStep

-----------------------------------------------------------------------------
LEMMA InitIndex == Init => IndexInv
<1> SUFFICES ASSUME Init PROVE IndexInv
  OBVIOUS
<1>1. todo \in [Actors -> Seq(Calls)] /\ records \in Seq(Record)
  BY EmptySeq DEF Init
<1>2. NewLoader \in Loader /\ NoScheduler \in Scheduler /\ 0 \in 0 .. MaxFaults
  <2>1. Lines \in Nat /\ PerSecond \in Nat \ {0} /\ MaxFaults \in Nat
    BY CollectionsAssumption
  <2>2. QED
    BY <2>1, EmptySeq DEF NewLoader, Loader, LoaderStates, NoScheduler, Scheduler
<1>3. TypeOK
  BY <1>1, <1>2 DEF Init, TypeOK
<1>4. NoDuplicates /\ IndexKept
  BY DEF Init, NoDuplicates, IndexKept
<1>5. IndexFollows /\ IdleIsEmpty
  BY DEF Init, IndexFollows, IdleIsEmpty
<1>6. QED
  BY <1>3, <1>4, <1>5 DEF IndexInv

LEMMA StepIndex == IndexInv /\ [Next]_vars => IndexInv'
<1> SUFFICES ASSUME IndexInv, [Next]_vars PROVE IndexInv'
  OBVIOUS
<1>1. CASE UNCHANGED vars
  <2>1. DataOK'
    BY <1>1, UnchangedData DEF vars, IndexInv, TypeOK
  <2>2. ProcessesOK'
    BY <1>1 DEF vars, ProcessesOK, IndexInv, TypeOK
  <2>3. QED
    BY <1>1, <2>1, <2>2, DataStep DEF vars
<1>2. CASE Next
  BY <1>2, BeginSteps, CallSteps, WriteStep, LoaderSteps, SchedulerSteps DEF Next
<1>3. QED
  BY <1>1, <1>2

-----------------------------------------------------------------------------
\* Seconds and requests within a second count the lines of the file.
LEMMA Quotient ==
  ASSUME NEW q \in Nat, NEW p \in Nat \ {0}, NEW r \in 0 .. p - 1
  PROVE  (q * p + r) \div p = q
OBVIOUS

LEMMA ConcatAppend ==
  ASSUME NEW S, NEW s \in Seq(S), NEW t \in Seq(S), NEW x \in S
  PROVE  s \o Append(t, x) = Append(s \o t, x)
OBVIOUS

LEMMA ConcatEmpty ==
  ASSUME NEW S, NEW s \in Seq(S)
  PROVE  s \o <<>> = s /\ <<>> \o s = s
OBVIOUS

\* The next record of the file prolongs what was read of it.
LEMMA FilePrefix ==
  ASSUME NEW n \in Nat, Lines \in Nat, n < Lines, NEW s,
         s = [i \in 1 .. n |-> FileRecords[i]], s \in Seq(Record), FileRecords[n + 1] \in Record
  PROVE  Append(s, FileRecords[n + 1]) = [i \in 1 .. n + 1 |-> FileRecords[i]]
<1>1. Len(s) = n /\ DOMAIN s = 1 .. n
  BY LenProperties
<1>2. ASSUME NEW x, x = FileRecords[n + 1], x \in Record
      PROVE  Append(s, x) = [i \in 1 .. n + 1 |-> FileRecords[i]]
  <2>1. Append(s, x) \in Seq(Record) /\ Len(Append(s, x)) = n + 1
        /\ \A i \in 1 .. n : Append(s, x)[i] = s[i]
        /\ Append(s, x)[n + 1] = x
    BY <1>1, <1>2, AppendProperties
  <2>2. \A i \in 1 .. n + 1 : Append(s, x)[i] = FileRecords[i]
    BY <1>2, <2>1
  <2>3. Append(s, x) = [i \in 1 .. n + 1 |-> Append(s, x)[i]]
    BY <2>1
  <2>4. QED
    BY <2>2, <2>3
<1>3. QED
  BY <1>2

-----------------------------------------------------------------------------
LoaderOK(l) == Counted(loader[l]) /\ WorksAlone(l) /\ LoadedSoFar(l)

\* Steps of a loader, save its start, are those of one that works.
LEMMA StepsOfWorking ==
  ASSUME TypeOK, NEW l \in Loaders, LoaderStep(l), ~LoaderStart(l)
  PROVE  loader[l].pc \in Working /\ \E new : Set(l, new)
BY DEF LoaderStep, DeleteOwn, ReadLine, EndOfFile, ScanFails, NothingToFlush, SaveRecords,
   SaveDuplicate, LoaderFails, LoaderEnds, Saving, Working

\* No loader's step undoes what is known of another: if that one is at work, it
\* is not alone, or no longer.
LEMMA OtherLoaders ==
  ASSUME TypeOK, LoadInv, NEW l \in Loaders, NEW k \in Loaders \ {l}, LoaderStep(l)
  PROVE  LoaderOK(k)'
<1>0. loader \in [Loaders -> Loader] /\ Counted(loader[k]) /\ WorksAlone(k)
  BY DEF TypeOK, LoadInv
<1>1. CASE LoaderStart(l)
  <2>1. loader'[k] = [loader[k] EXCEPT !.alone = FALSE] /\ loader[k] \in Loader
    BY <1>0, <1>1 DEF LoaderStart
  <2>2. /\ loader'[k].pc = loader[k].pc /\ loader'[k].line = loader[k].line
        /\ loader'[k].slot = loader[k].slot /\ loader'[k].buffer = loader[k].buffer
        /\ loader'[k].inSecond = loader[k].inSecond /\ ~loader'[k].alone
        /\ loader'[k].scanErr = loader[k].scanErr
    BY <2>1 DEF Loader
  <2>3. Counted(loader'[k])
    BY <1>0, <2>2 DEF Counted
  <2>4. WorksAlone(k)' /\ LoadedSoFar(k)'
    BY <1>1, <2>2 DEF LoaderStart, WorksAlone, LoadedSoFar
  <2>5. QED
    BY <2>3, <2>4 DEF LoaderOK
<1>2. CASE ~LoaderStart(l)
  <2>1. loader[l].pc \in Working /\ loader'[k] = loader[k] /\ name' = name
    <3>1. loader[l].pc \in Working /\ \E new : Set(l, new)
      BY <1>2, StepsOfWorking
    <3>2. name' = name
      BY <1>2 DEF LoaderStep, DeleteOwn, ReadLine, EndOfFile, ScanFails, NothingToFlush,
         SaveRecords, SaveDuplicate, LoaderFails, LoaderEnds, Inserted
    <3>3. QED
      BY <1>0, <3>1, <3>2 DEF Set
  <2>2. loader[k].pc \in Working => name = "checks" /\ ~loader[k].alone
    BY <1>0, <2>1 DEF WorksAlone
  <2>3. WorksAlone(k)' /\ LoadedSoFar(k)'
    BY <2>1, <2>2 DEF WorksAlone, LoadedSoFar
  <2>4. QED
    BY <1>0, <2>1, <2>3 DEF LoaderOK
<1>3. QED
  BY <1>1, <1>2

\* A loader that stays at work has the others where they were.
LEMMA StillAlone ==
  ASSUME TypeOK, LoadInv, NEW l \in Loaders, NEW new, Set(l, new), name' = name,
         loader[l].pc \in Working, new.pc \in Working => new.alone = loader[l].alone
  PROVE  WorksAlone(l)'
<1>1. loader \in [Loaders -> Loader] /\ WorksAlone(l)
  BY DEF TypeOK, LoadInv
<1>2. loader'[l] = new /\ \A k \in Loaders \ {l} : loader'[k] = loader[k]
  BY <1>1 DEF Set
<1>3. QED
  BY <1>1, <1>2 DEF WorksAlone

LEMMA OwnDelete ==
  ASSUME TypeOK, LoadInv, NEW l \in Loaders, DeleteOwn(l)
  PROVE  LoaderOK(l)'
<1>0. loader \in [Loaders -> Loader] /\ loader[l] \in Loader /\ Counted(loader[l])
  BY DEF TypeOK, LoadInv
<1>1. /\ loader[l].pc = "deleting" /\ records' = <<>> /\ name' = name
      /\ Set(l, [loader[l] EXCEPT !.pc = "reading"])
  BY DEF DeleteOwn
<1>2. /\ loader'[l].pc = "reading" /\ loader'[l].line = loader[l].line
      /\ loader'[l].slot = loader[l].slot /\ loader'[l].buffer = loader[l].buffer
      /\ loader'[l].inSecond = loader[l].inSecond
  BY <1>0, <1>1 DEF Set, Loader
<1>3. Counted(loader'[l])
  BY <1>0, <1>1, <1>2 DEF Counted, Working
<1>4. WorksAlone(l)'
  <2>1. [loader[l] EXCEPT !.pc = "reading"].alone = loader[l].alone
    BY <1>0 DEF Loader
  <2>2. QED
    BY <1>1, <2>1, StillAlone DEF Working
<1>5. LoadedSoFar(l)'
  <2>1. loader'[l].buffer = <<>> /\ loader'[l].line = 0 /\ records' = <<>>
    BY <1>0, <1>1, <1>2 DEF Counted
  <2>2. <<>> \o <<>> = <<>>
    BY EmptySeq, ConcatEmpty
  <2>3. [i \in 1 .. 0 |-> FileRecords[i]] = <<>>
    OBVIOUS
  <2>4. records' \o loader'[l].buffer = [i \in 1 .. loader'[l].line |-> FileRecords[i]]
    BY <2>1, <2>2, <2>3
  <2>5. QED
    BY <2>4 DEF LoadedSoFar, FileRecords
<1>6. QED
  BY <1>3, <1>4, <1>5 DEF LoaderOK

LEMMA FileRecord ==
  ASSUME NEW n \in Nat, n < Lines
  PROVE  FileRecords[n + 1] = [key |-> n, slot |-> n \div PerSecond]
<1>1. n + 1 \in 1 .. Lines /\ (n + 1) - 1 = n
  BY CollectionsAssumption
<1>2. PICK i \in 1 .. Lines : i = n + 1 /\ i - 1 = n
  BY <1>1
<1>3. FileRecords[i] = [key |-> i - 1, slot |-> (i - 1) \div PerSecond]
  BY DEF FileRecords
<1>4. QED
  BY <1>2, <1>3

\* The second and the place in it of the next line.
LEMMA NextLine ==
  ASSUME NEW s \in Loader, Counted(s), s.pc = "reading", s.line < Lines,
         NEW slot, slot = IF s.inSecond >= PerSecond THEN s.slot + 1 ELSE s.slot
  PROVE  /\ FileRecords[s.line + 1] = [key |-> s.line, slot |-> slot]
         /\ s.line + 1 = slot * PerSecond
                            + (IF s.inSecond >= PerSecond THEN 1 ELSE s.inSecond + 1)
<1>0. /\ Lines \in Nat /\ PerSecond \in Nat \ {0} /\ s.line \in Nat /\ s.slot \in Nat
      /\ s.inSecond \in 0 .. PerSecond
  BY CollectionsAssumption DEF Loader
<1>1. s.line = s.slot * PerSecond + s.inSecond
  BY DEF Counted, Working
<1>2. CASE s.inSecond >= PerSecond
  <2>1. s.inSecond = PerSecond /\ slot = s.slot + 1
    BY <1>0, <1>2
  <2>2. s.line = slot * PerSecond + 0
    BY <1>0, <1>1, <2>1
  <2>3. s.line \div PerSecond = slot
    <3>1. 0 \in 0 .. PerSecond - 1 /\ slot \in Nat
      BY <1>0, <2>1
    <3>2. QED
      BY <1>0, <2>2, <3>1, Quotient
  <2>4. FileRecords[s.line + 1] = [key |-> s.line, slot |-> slot]
    BY <1>0, <2>3, FileRecord
  <2>5. QED
    BY <1>0, <1>2, <2>2, <2>4
<1>3. CASE ~(s.inSecond >= PerSecond)
  <2>1. s.inSecond \in 0 .. PerSecond - 1 /\ slot = s.slot
    BY <1>0, <1>3
  <2>2. s.line \div PerSecond = slot
    <3>1. s.line = slot * PerSecond + s.inSecond /\ slot \in Nat
      BY <1>0, <1>1, <2>1
    <3>2. QED
      BY <1>0, <2>1, <3>1, Quotient
  <2>3. FileRecords[s.line + 1] = [key |-> s.line, slot |-> slot]
    BY <1>0, <2>2, FileRecord
  <2>4. QED
    BY <1>0, <1>1, <1>3, <2>1, <2>3
<1>4. QED
  BY <1>2, <1>3

LEMMA OwnRead ==
  ASSUME TypeOK, LoadInv, NEW l \in Loaders, ReadLine(l)
  PROVE  LoaderOK(l)'
<1>a. /\ loader \in [Loaders -> Loader] /\ records \in Seq(Record)
      /\ Counted(loader[l]) /\ LoadedSoFar(l)
  BY DEF TypeOK, LoadInv
<1>b. /\ loader[l].buffer \in Seq(Record) /\ loader[l].line \in Nat
      /\ loader[l].inSecond \in Nat
  BY <1>a, CollectionsAssumption DEF Loader
<1>0. /\ loader \in [Loaders -> Loader] /\ loader[l] \in Loader /\ Counted(loader[l])
      /\ LoadedSoFar(l) /\ records \in Seq(Record)
      /\ loader[l].buffer \in Seq(Record) /\ Lines \in Nat /\ PerSecond \in Nat \ {0}
      /\ loader[l].line \in Nat /\ loader[l].inSecond \in Nat
  BY <1>a, <1>b, CollectionsAssumption
<1> DEFINE full == loader[l].inSecond >= PerSecond
           slot == IF full THEN loader[l].slot + 1 ELSE loader[l].slot
           next == [key |-> loader[l].line, slot |-> slot]
<1>1. /\ loader[l].pc = "reading" /\ loader[l].line < Lines
      /\ UNCHANGED <<collection, operations, scheduler, faults>>
  BY DEF ReadLine
<1>2. /\ loader'[l].pc \in {"saving", "reading"}
      /\ loader'[l].line = loader[l].line + 1
      /\ loader'[l].inSecond = IF full THEN 1 ELSE loader[l].inSecond + 1
      /\ loader'[l].slot = slot
      /\ loader'[l].buffer = Append(loader[l].buffer, next)
      /\ loader'[l].alone = loader[l].alone
      /\ \A k \in Loaders \ {l} : loader'[k] = loader[k]
  BY <1>0 DEF ReadLine, Set, Loader
<1>3. /\ FileRecords[loader[l].line + 1] = next
      /\ loader[l].line + 1 = slot * PerSecond + (IF full THEN 1 ELSE loader[l].inSecond + 1)
  BY <1>0, <1>1, NextLine
<1>4. next \in Record
  <2>1. slot \in Nat
    BY <1>0 DEF Loader
  <2>2. loader[l].line \in Keys
    BY <1>0, <1>1 DEF Keys
  <2>3. QED
    BY <2>1, <2>2 DEF Record
<1> HIDE DEF next
<1>5. Counted(loader'[l])
  <2>1. loader'[l].line = loader'[l].slot * PerSecond + loader'[l].inSecond
    BY <1>2, <1>3
  <2>2. loader'[l].inSecond # 0
    BY <1>0, <1>2
  <2>3. QED
    BY <1>2, <2>1, <2>2 DEF Counted
<1>6. WorksAlone(l)'
  <2>1. WorksAlone(l)
    BY DEF LoadInv
  <2>2. QED
    BY <1>1, <1>2, <2>1 DEF WorksAlone, Working
<1>7. LoadedSoFar(l)'
  <2> SUFFICES ASSUME loader[l].alone
               PROVE  records' \o loader'[l].buffer
                         = [i \in 1 .. loader'[l].line |-> FileRecords[i]]
    BY <1>2 DEF LoadedSoFar, FileRecords
  <2>1. records \o loader[l].buffer = [i \in 1 .. loader[l].line |-> FileRecords[i]]
    BY <1>0, <1>1 DEF LoadedSoFar, Working
  <2>2. records \o loader[l].buffer \in Seq(Record)
    BY <1>0, ConcatProperties
  <2>3. records' \o loader'[l].buffer = Append(records \o loader[l].buffer, next)
    <3>1. records' = records /\ loader'[l].buffer = Append(loader[l].buffer, next)
      BY <1>1, <1>2
    <3>2. records \in Seq(Record) /\ loader[l].buffer \in Seq(Record)
      BY <1>0
    <3>3. records \o Append(loader[l].buffer, next) = Append(records \o loader[l].buffer, next)
      <4> DEFINE buffer == loader[l].buffer
      <4>1. records \in Seq(Record) /\ buffer \in Seq(Record) /\ next \in Record
        BY <1>4, <3>2
      <4> HIDE DEF buffer
      <4>2. records \o Append(buffer, next) = Append(records \o buffer, next)
        BY <4>1, ConcatAppend
      <4>3. QED
        BY <4>2 DEF buffer
    <3>4. QED
      BY <3>1, <3>3
  <2>4. Append(records \o loader[l].buffer, FileRecords[loader[l].line + 1])
           = [i \in 1 .. loader[l].line + 1 |-> FileRecords[i]]
    BY <1>0, <1>1, <1>3, <1>4, <2>1, <2>2, FilePrefix
  <2>5. QED
    BY <1>2, <1>3, <2>3, <2>4
<1>8. QED
  BY <1>5, <1>6, <1>7 DEF LoaderOK

LEMMA OwnSave ==
  ASSUME TypeOK, LoadInv, NEW l \in Loaders, SaveRecords(l)
  PROVE  LoaderOK(l)'
<1>0. /\ loader \in [Loaders -> Loader] /\ loader[l] \in Loader /\ Counted(loader[l])
      /\ LoadedSoFar(l) /\ records \in Seq(Record) /\ loader[l].buffer \in Seq(Record)
  BY DEF TypeOK, LoadInv, Loader
<1>1. /\ loader[l].pc \in {"saving", "flushing"} /\ name' = name
      /\ records' = records \o loader[l].buffer
  BY DEF SaveRecords, Saving, Inserted
<1>2. CASE loader[l].pc = "flushing"
  <2>1. loader'[l] = Succeeded
    BY <1>0, <1>2 DEF SaveRecords, Set
  <2>2. loader'[l].pc = "done" /\ loader'[l].inSecond = 0 /\ loader'[l].line = 0
    BY <2>1 DEF Succeeded, NewLoader
  <2>3. QED
    BY <2>2 DEF LoaderOK, Counted, WorksAlone, LoadedSoFar, Working
<1>3. CASE loader[l].pc = "saving"
  <2>1. Set(l, [loader[l] EXCEPT !.buffer = <<>>, !.pc = "reading"])
    BY <1>3 DEF SaveRecords
  <2>2. /\ loader'[l].pc = "reading" /\ loader'[l].line = loader[l].line
        /\ loader'[l].slot = loader[l].slot /\ loader'[l].buffer = <<>>
        /\ loader'[l].inSecond = loader[l].inSecond /\ loader'[l].alone = loader[l].alone
        /\ \A k \in Loaders \ {l} : loader'[k] = loader[k]
    BY <1>0, <2>1 DEF Set, Loader
  <2>3. Counted(loader'[l])
    BY <1>0, <1>3, <2>2 DEF Counted, Working
  <2>4. WorksAlone(l)'
    BY <1>1, <1>3, <2>2 DEF LoadInv, WorksAlone, Working
  <2>5. LoadedSoFar(l)'
    <3> SUFFICES ASSUME loader[l].alone
                 PROVE  records' \o loader'[l].buffer
                           = [i \in 1 .. loader'[l].line |-> FileRecords[i]]
      BY <2>2 DEF LoadedSoFar, FileRecords
    <3>1. records \o loader[l].buffer = [i \in 1 .. loader[l].line |-> FileRecords[i]]
      BY <1>0, <1>3 DEF LoadedSoFar, Working
    <3>2. records' \in Seq(Record)
      BY <1>0, <1>1, ConcatProperties
    <3>3. records' \o <<>> = records'
      BY <3>2, ConcatEmpty
    <3>4. QED
      BY <1>1, <2>2, <3>1, <3>3
  <2>6. QED
    BY <2>3, <2>4, <2>5 DEF LoaderOK
<1>4. QED
  BY <1>1, <1>2, <1>3

\* The loop ends at the end of the file, or as if it were.
LEMMA OwnEnd ==
  ASSUME TypeOK, LoadInv, NEW l \in Loaders, EndOfFile(l) \/ ScanFails(l)
  PROVE  LoaderOK(l)'
<1>0. /\ loader \in [Loaders -> Loader] /\ loader[l] \in Loader /\ Counted(loader[l])
      /\ LoadedSoFar(l)
  BY DEF TypeOK, LoadInv
<1>1. loader[l].pc = "reading" /\ UNCHANGED <<collection, operations, scheduler>>
  BY DEF EndOfFile, ScanFails
<1>2. /\ loader'[l].pc = "flushing" /\ loader'[l].line = loader[l].line
      /\ loader'[l].slot = loader[l].slot /\ loader'[l].buffer = loader[l].buffer
      /\ loader'[l].inSecond = loader[l].inSecond /\ loader'[l].alone = loader[l].alone
      /\ loader'[l].scanErr \/ loader'[l].line = Lines
      /\ \A k \in Loaders \ {l} : loader'[k] = loader[k]
  <2>1. CASE EndOfFile(l)
    BY <1>0, <2>1 DEF EndOfFile, Set, Loader
  <2>2. CASE ScanFails(l)
    BY <1>0, <2>2 DEF ScanFails, Set, Loader
  <2>3. QED
    BY <2>1, <2>2
<1>3. Counted(loader'[l])
  BY <1>0, <1>1, <1>2 DEF Counted, Working
<1>4. WorksAlone(l)'
  BY <1>1, <1>2 DEF LoadInv, WorksAlone, Working
<1>5. LoadedSoFar(l)'
  BY <1>0, <1>1, <1>2 DEF LoadedSoFar, Working, FileRecords
<1>6. QED
  BY <1>3, <1>4, <1>5 DEF LoaderOK

LEMMA OwnStart ==
  ASSUME TypeOK, LoadInv, NEW l \in Loaders, LoaderStart(l)
  PROVE  LoaderOK(l)'
<1>0. loader \in [Loaders -> Loader]
  BY CollectionsAssumption DEF TypeOK
<1> DEFINE others == {k \in Loaders \ {l} : loader[k].pc \in Working}
<1>1. loader'[l] = [NewLoader EXCEPT !.pc = "deleting", !.alone = (others = {})]
      /\ name' = "checks"
  BY DEF LoaderStart
<1>2. \A k \in Loaders \ {l} : loader'[k].pc = loader[k].pc
  BY <1>0 DEF LoaderStart, Loader
<1>3. /\ loader'[l].pc = "deleting" /\ loader'[l].line = 0 /\ loader'[l].slot = 0
      /\ loader'[l].buffer = <<>> /\ loader'[l].inSecond = 0
      /\ loader'[l].alone = (others = {})
  BY <1>1 DEF NewLoader
<1>4. Counted(loader'[l])
  <2>1. 0 = 0 * PerSecond + 0
    BY CollectionsAssumption
  <2>2. QED
    BY <1>3, <2>1 DEF Counted
<1>5. WorksAlone(l)'
  BY <1>1, <1>2, <1>3 DEF WorksAlone
<1>6. LoadedSoFar(l)'
  BY <1>3 DEF LoadedSoFar
<1>7. QED
  BY <1>4, <1>5, <1>6 DEF LoaderOK

LEMMA OwnFailure ==
  ASSUME TypeOK, NEW l \in Loaders, Set(l, NewLoader) \/ Set(l, Succeeded)
  PROVE  LoaderOK(l)'
<1>1. loader'[l] \in {NewLoader, Succeeded}
  BY DEF Set, TypeOK
<1>2. loader'[l].pc \in {"off", "done"} /\ loader'[l].inSecond = 0 /\ loader'[l].line = 0
  BY <1>1 DEF NewLoader, Succeeded
<1>3. QED
  BY <1>2 DEF LoaderOK, Counted, WorksAlone, LoadedSoFar, Working

LEMMA LoaderLoads ==
  ASSUME TypeOK, LoadInv, NEW l \in Loaders, LoaderStep(l)
  PROVE  \A k \in Loaders : LoaderOK(k)'
<1>1. LoaderOK(l)'
  <2>1. /\ SaveDuplicate(l) \/ LoaderFails(l) => Set(l, NewLoader)
        /\ NothingToFlush(l) => Set(l, Succeeded)
    BY DEF SaveDuplicate, LoaderFails, LoaderEnds, NothingToFlush
  <2>2. QED
    BY <2>1, OwnStart, OwnDelete, OwnRead, OwnSave, OwnEnd, OwnFailure DEF LoaderStep
<1>2. QED
  BY <1>1, OtherLoaders

-----------------------------------------------------------------------------
\* Steps that leave the records and the loaders alone.
LEMMA LoadersUntouched ==
  ASSUME LoadInv, UNCHANGED <<name, records, loader>>
  PROVE  \A l \in Loaders : LoaderOK(l)'
BY DEF LoadInv, LoaderOK, Counted, WorksAlone, LoadedSoFar, FileRecords

LEMMA DropLoads ==
  ASSUME TypeOK, LoadInv, NEW a \in Actors, Drop(a), NEW l \in Loaders
  PROVE  LoaderOK(l)'
<1>1. \A k \in Loaders :
         /\ loader'[k].pc = loader[k].pc /\ loader'[k].line = loader[k].line
         /\ loader'[k].slot = loader[k].slot /\ loader'[k].buffer = loader[k].buffer
         /\ loader'[k].inSecond = loader[k].inSecond /\ ~loader'[k].alone
         /\ loader'[k].scanErr = loader[k].scanErr
  BY DEF Drop, TypeOK, Loader
<1>2. name' = name
  BY DEF Drop, CallDone
<1>3. Counted(loader'[l])
  BY <1>1 DEF LoadInv, Counted
<1>4. WorksAlone(l)' /\ LoadedSoFar(l)'
  BY <1>1, <1>2 DEF LoadInv, WorksAlone, LoadedSoFar
<1>5. QED
  BY <1>3, <1>4 DEF LoaderOK

LEMMA WriteLoads ==
  ASSUME LoadInv, NEW k \in Keys, Write(k), NEW l \in Loaders
  PROVE  LoaderOK(l)'
<1>1. name # "checks" /\ UNCHANGED <<name, loader>>
  BY DEF Write, Inserted
<1>2. loader[l].pc \notin Working
  BY <1>1 DEF LoadInv, WorksAlone
<1>3. QED
  BY <1>1, <1>2 DEF LoadInv, LoaderOK, Counted, WorksAlone, LoadedSoFar

LEMMA BeginUntouched ==
  ASSUME AdminCreate \/ AdminTruncate \/ AdminDrop \/ Up \/ Down \/ CollectorBoot
  PROVE  UNCHANGED <<name, records, loader, scheduler>>
BY DEF AdminCreate, AdminTruncate, AdminDrop, Up, Down, CollectorBoot, Begin

LEMMA CallUntouched ==
  ASSUME NEW a \in Actors, CallStep(a), ~Drop(a)
  PROVE  UNCHANGED <<name, records, loader, scheduler>>
BY DEF CallStep, Create, CreateIndex, CreateOtherIndex, Refused, CallFails, Abort, CallDone

\* Insertions come after what the cursor has sent.
LEMMA InsertsAfterCursor ==
  ASSUME TypeOK, ScheduledSoFar, UNCHANGED scheduler, NEW rs \in Seq(Record),
         records' = records \o rs
  PROVE  ScheduledSoFar'
<1> SUFFICES ASSUME scheduler.pc = "loading", ~scheduler.disturbed
             PROVE  Sound(scheduler)'
  BY DEF ScheduledSoFar
<1> DEFINE given == scheduler.cursor - Len(scheduler.ahead)
<1>1. /\ records \in Seq(Record) /\ scheduler.cursor \in Nat /\ scheduler.ahead \in Seq(Keys)
      /\ Len(scheduler.ahead) \in Nat /\ DOMAIN scheduler.ahead = 1 .. Len(scheduler.ahead)
  BY LenProperties DEF TypeOK, Scheduler
<1>2. /\ Len(records) <= Len(records') /\ Len(records) \in Nat /\ Len(records') \in Nat
      /\ DOMAIN records = 1 .. Len(records) /\ DOMAIN records' = 1 .. Len(records')
      /\ \A i \in 1 .. Len(records) : records'[i] = records[i]
  BY <1>1, ConcatProperties, LenProperties
<1>3. Sound(scheduler)
  BY DEF ScheduledSoFar
<1>4. given \in Nat /\ given <= scheduler.cursor /\ scheduler.cursor <= Len(records)
  BY <1>1, <1>3 DEF Sound
<1>5. \A n \in 0 .. Len(records) :
         {records'[i].key : i \in 1 .. n} = {records[i].key : i \in 1 .. n}
  BY <1>2
<1>6. KeysOf(records) \subseteq KeysOf(records')
  BY <1>2 DEF KeysOf
<1>7. \A i \in DOMAIN scheduler.ahead : given + i \in 1 .. Len(records)
  BY <1>1, <1>2, <1>4
<1>8. /\ {records'[i].key : i \in 1 .. given} = {records[i].key : i \in 1 .. given}
      /\ {records'[i].key : i \in 1 .. scheduler.cursor}
            = {records[i].key : i \in 1 .. scheduler.cursor}
  BY <1>1, <1>2, <1>4, <1>5
<1>9. scheduler.cursor <= Len(records')
  BY <1>1, <1>2, <1>4
<1>10. \A i \in DOMAIN scheduler.ahead : scheduler.ahead[i] = records'[given + i].key
  BY <1>2, <1>3, <1>7 DEF Sound
<1>11. QED
  BY <1>3, <1>4, <1>6, <1>8, <1>9, <1>10 DEF Sound

LEMMA LoaderSchedules ==
  ASSUME TypeOK, ScheduledSoFar, NEW l \in Loaders, LoaderStep(l)
  PROVE  ScheduledSoFar'
<1>0. records \in Seq(Record) /\ loader[l].buffer \in Seq(Record)
  BY DEF TypeOK, Loader
<1>u. ASSUME UNCHANGED <<records, scheduler>> PROVE ScheduledSoFar'
  BY <1>u DEF ScheduledSoFar, Sound, KeysOf
<1>1. CASE LoaderStart(l) \/ ReadLine(l) \/ EndOfFile(l) \/ ScanFails(l) \/ NothingToFlush(l)
  BY <1>u, <1>1 DEF LoaderStart, ReadLine, EndOfFile, ScanFails, NothingToFlush
<1>2. CASE DeleteOwn(l)
  <2>1. /\ scheduler'.pc = scheduler.pc
        /\ scheduler'.disturbed = (scheduler.disturbed \/ scheduler.pc = "loading")
    BY <1>2 DEF DeleteOwn, TypeOK, Scheduler
  <2>2. QED
    BY <2>1 DEF ScheduledSoFar
<1>3. CASE SaveRecords(l)
  BY <1>0, <1>3, InsertsAfterCursor DEF SaveRecords, Inserted
<1>4. ASSUME NEW n \in 0 .. Len(loader[l].buffer), LoaderEnds(l, n)
      PROVE  ScheduledSoFar'
  <2>1. SubSeq(loader[l].buffer, 1, n) \in Seq(Record)
    BY <1>0, SubSeqProperties, LenProperties
  <2>2. QED
    BY <1>4, <2>1, InsertsAfterCursor DEF LoaderEnds, Inserted
<1>5. CASE SaveDuplicate(l)
  <2>1. \E n \in 0 .. Len(loader[l].buffer) - 1 : LoaderEnds(l, n)
    BY <1>5 DEF SaveDuplicate
  <2>2. QED
    BY <1>0, <1>4, <2>1, LenProperties
<1>6. CASE LoaderFails(l)
  <2>1. \/ \E n \in 1 .. Len(loader[l].buffer) : LoaderEnds(l, n)
        \/ UNCHANGED <<collection, scheduler>>
    BY <1>6 DEF LoaderFails
  <2>2. CASE \E n \in 1 .. Len(loader[l].buffer) : LoaderEnds(l, n)
    BY <1>0, <1>4, <2>2, LenProperties
  <2>3. CASE UNCHANGED <<collection, scheduler>>
    BY <1>u, <2>3
  <2>4. QED
    BY <2>1, <2>2, <2>3
<1>7. QED
  BY <1>1, <1>2, <1>3, <1>5, <1>6 DEF LoaderStep

LEMMA DropSchedules ==
  ASSUME TypeOK, NEW a \in Actors, Drop(a)
  PROVE  ScheduledSoFar'
BY DEF Drop, TypeOK, Scheduler, ScheduledSoFar

\* A batch continues what was sent before.
LEMMA FetchSound ==
  ASSUME TypeOK, NEW s \in Scheduler, Sound(s)
  PROVE  Sound(Fetched(s))
<1>0. records \in Seq(Record)
  BY DEF TypeOK
<1>1. PICK last \in Nat, batch \in Seq(Keys) :
         /\ last <= Len(records)
         /\ batch = [i \in 1 .. last - s.cursor |-> records[s.cursor + i].key]
         /\ s.cursor <= Len(records) => s.cursor <= last /\ Len(batch) = last - s.cursor
         /\ Fetched(s) \in Scheduler
         /\ Fetched(s).pc = s.pc /\ Fetched(s).jobs = s.jobs
         /\ Fetched(s).found = s.found /\ Fetched(s).disturbed = s.disturbed
         /\ Fetched(s).cursor = last /\ Fetched(s).ahead = s.ahead \o batch
         /\ Fetched(s).server # "killed"
         /\ Fetched(s).server = "exhausted" => last = Len(records)
  BY <1>0, FetchedIs
<1> DEFINE n == Len(s.ahead)
           given == s.cursor - n
<1>2. /\ s.ahead \in Seq(Keys) /\ n \in Nat /\ s.cursor \in Nat /\ given \in Nat
      /\ s.cursor <= Len(records) /\ Len(records) \in Nat
      /\ s.found \subseteq KeysOf(records) /\ s.jobs = {records[i].key : i \in 1 .. given}
      /\ DOMAIN s.ahead = 1 .. n
      /\ \A i \in 1 .. n : s.ahead[i] = records[given + i].key
  BY <1>0, LenProperties DEF Sound, Scheduler
<1>3. s.cursor <= last /\ Len(batch) = last - s.cursor
  BY <1>1, <1>2
<1>4. /\ Len(s.ahead \o batch) = n + (last - s.cursor)
      /\ DOMAIN (s.ahead \o batch) = 1 .. n + (last - s.cursor)
      /\ \A i \in 1 .. n + (last - s.cursor) :
            (s.ahead \o batch)[i] = IF i <= n THEN s.ahead[i] ELSE batch[i - n]
  <2>1. PICK b, d : b = batch /\ d = s.ahead
    OBVIOUS
  <2>2. b \in Seq(Keys) /\ d \in Seq(Keys)
    BY <1>2, <2>1
  <2>3. Len(b) = last - s.cursor /\ Len(d) = n
    BY <1>3, <2>1
  <2>4. /\ d \o b \in Seq(Keys) /\ Len(d \o b) = Len(d) + Len(b)
        /\ \A i \in 1 .. Len(d) + Len(b) :
              (d \o b)[i] = IF i <= Len(d) THEN d[i] ELSE b[i - Len(d)]
    BY <2>2, ConcatProperties
  <2>5. DOMAIN (d \o b) = 1 .. Len(d \o b)
    BY <2>4, LenProperties
  <2>6. QED
    BY <2>1, <2>3, <2>4, <2>5
<1>5. last - Len(s.ahead \o batch) = given
  <2>1. last - (n + (last - s.cursor)) = s.cursor - n
    BY <1>2
  <2>2. QED
    BY <1>4, <2>1
<1>6. \A i \in 1 .. n + (last - s.cursor) : (s.ahead \o batch)[i] = records[given + i].key
  <2> SUFFICES ASSUME NEW i \in 1 .. n + (last - s.cursor)
               PROVE  (s.ahead \o batch)[i] = records[given + i].key
    OBVIOUS
  <2>1. CASE i <= n
    <3>1. i \in 1 .. n
      BY <1>2, <2>1
    <3>2. QED
      BY <1>2, <1>4, <2>1, <3>1
  <2>2. CASE ~(i <= n)
    <3>0. PICK m \in Nat, c \in Nat : m = n /\ c = s.cursor
      BY <1>2
    <3>1. i \in Int /\ i <= m + (last - c) /\ m < i
      BY <2>2, <3>0
    <3>2. i - m \in 1 .. last - c /\ c + (i - m) = (c - m) + i
      BY <3>1
    <3>3. i - n \in 1 .. last - s.cursor /\ s.cursor + (i - n) = given + i
      BY <3>0, <3>2
    <3>4. batch[i - n] = records[s.cursor + (i - n)].key
      BY <1>1, <3>3
    <3>5. QED
      BY <1>4, <2>2, <3>3, <3>4
  <2>3. QED
    BY <2>1, <2>2
<1>7. last = Len(records) => s.found \subseteq {records[i].key : i \in 1 .. last}
  BY <1>0, <1>2, LenProperties DEF KeysOf
<1>8. PICK f : f = Fetched(s)
  OBVIOUS
<1>9. /\ f.cursor = last /\ f.cursor - Len(f.ahead) = given /\ f.jobs = s.jobs
      /\ f.found = s.found /\ f.server # "killed"
      /\ f.server = "exhausted" => last = Len(records)
      /\ \A i \in DOMAIN f.ahead : f.ahead[i] = records[given + i].key
  BY <1>1, <1>4, <1>5, <1>6, <1>8
<1>10. Sound(f)
  BY <1>1, <1>2, <1>7, <1>9 DEF Sound
<1>11. QED
  BY <1>8, <1>10

\* The first record ahead gets its job.
LEMMA NextSound ==
  ASSUME TypeOK, Sound(scheduler), scheduler.ahead # <<>>,
         NEW k, k = Head(scheduler.ahead), NEW s,
         s = [scheduler EXCEPT !.ahead = Tail(@), !.jobs = @ \cup {k}]
  PROVE  /\ Sound(s)
         /\ \E c \in 1 .. Len(records) :
               /\ k = records[c].key
               /\ scheduler.jobs = {records[i].key : i \in 1 .. c - 1}
<1> DEFINE ahead == scheduler.ahead
           n == Len(ahead)
           given == scheduler.cursor - n
<1>1. /\ records \in Seq(Record) /\ scheduler \in Scheduler /\ ahead \in Seq(Keys)
      /\ Len(records) \in Nat /\ n \in Nat /\ scheduler.cursor \in Nat
      /\ DOMAIN ahead = 1 .. n
  BY LenProperties DEF TypeOK, Scheduler
<1>2. /\ n >= 1 /\ k = ahead[1] /\ Tail(ahead) \in Seq(Keys) /\ Len(Tail(ahead)) = n - 1
      /\ DOMAIN Tail(ahead) = 1 .. n - 1
      /\ \A i \in 1 .. n - 1 : Tail(ahead)[i] = ahead[i + 1]
  BY <1>1, HeadTailProperties, LenProperties
<1>3. /\ given \in Nat /\ scheduler.cursor <= Len(records)
      /\ scheduler.jobs = {records[i].key : i \in 1 .. given}
      /\ \A i \in 1 .. n : ahead[i] = records[given + i].key
      /\ scheduler.found \subseteq KeysOf(records)
      /\ scheduler.server = "exhausted" =>
            scheduler.found \subseteq {records[i].key : i \in 1 .. scheduler.cursor}
      /\ scheduler.server # "killed"
  BY <1>1 DEF Sound
<1>4. given + 1 \in 1 .. Len(records) /\ given + 1 - 1 = given
  BY <1>1, <1>2, <1>3
<1>5. k = records[given + 1].key
  BY <1>1, <1>2, <1>3
<1>6. /\ s.cursor = scheduler.cursor /\ s.ahead = Tail(ahead) /\ s.found = scheduler.found
      /\ s.server = scheduler.server /\ s.jobs = scheduler.jobs \cup {k}
  BY <1>1 DEF Scheduler
<1> HIDE DEF ahead
<1>7. s.cursor - Len(s.ahead) = given + 1
  BY <1>1, <1>2, <1>6 DEF ahead
<1>8. s.jobs = {records[i].key : i \in 1 .. given + 1}
  <2>1. 1 .. given + 1 = (1 .. given) \cup {given + 1}
    BY <1>3
  <2>2. {records[i].key : i \in 1 .. given + 1}
           = {records[i].key : i \in 1 .. given} \cup {records[given + 1].key}
    BY <2>1
  <2>3. QED
    BY <1>3, <1>5, <1>6, <2>2
<1>9. \A i \in DOMAIN s.ahead : s.ahead[i] = records[given + 1 + i].key
  <2> SUFFICES ASSUME NEW i \in 1 .. n - 1 PROVE Tail(ahead)[i] = records[given + 1 + i].key
    BY <1>2, <1>6
  <2>1. PICK m \in Nat, g \in Nat : m = n /\ g = given
    BY <1>1, <1>3
  <2>2. i \in 1 .. m - 1
    BY <2>1
  <2>3. i + 1 \in 1 .. m /\ g + (i + 1) = g + 1 + i
    BY <2>2
  <2>4. i + 1 \in 1 .. n /\ given + (i + 1) = given + 1 + i
    BY <2>1, <2>3
  <2>5. QED
    BY <1>2, <1>3, <2>4
<1>10. given + 1 \in Nat
  BY <1>3
<1>11. Sound(s)
  BY <1>3, <1>6, <1>7, <1>8, <1>9, <1>10 DEF Sound
<1>12. PICK c \in 1 .. Len(records) : c = given + 1
  BY <1>4
<1>13. k = records[c].key /\ scheduler.jobs = {records[i].key : i \in 1 .. c - 1}
  <2>1. PICK g \in Nat : g = given /\ c = g + 1
    BY <1>3, <1>12
  <2>2. c - 1 = g
    BY <2>1
  <2>3. QED
    BY <1>3, <1>5, <1>12, <2>1, <2>2
<1>14. QED
  BY <1>11, <1>13

\* Nothing is sent yet.
LEMMA NewSound ==
  ASSUME TypeOK, NEW s, s = [NoScheduler EXCEPT !.pc = "loading", !.found = KeysOf(records)]
  PROVE  Sound(s)
<1>1. /\ s.cursor = 0 /\ s.ahead = <<>> /\ s.jobs = {} /\ s.found = KeysOf(records)
      /\ s.server = "open"
  BY DEF NoScheduler
<1>2. Len(s.ahead) = 0 /\ DOMAIN s.ahead = {} /\ Len(records) \in Nat
  BY <1>1, EmptySeq, LenProperties DEF TypeOK
<1>3. {records[i].key : i \in 1 .. 0} = {}
  OBVIOUS
<1>4. QED
  BY <1>1, <1>2, <1>3 DEF Sound

LEMMA SchedulerSchedules ==
  ASSUME TypeOK, ScheduledSoFar, SchedulerStep
  PROVE  ScheduledSoFar'
<1>0. scheduler \in Scheduler /\ UNCHANGED records
  BY DEF TypeOK, SchedulerStep, SchedulerStart, OpenCursor, FetchMore, CursorFails,
     ScheduleNext, ScheduleEnd
<1>1. ASSUME scheduler'.pc = "loading" /\ ~scheduler'.disturbed
              => \E s : scheduler' = s /\ Sound(s)
      PROVE  ScheduledSoFar'
  BY <1>0, <1>1 DEF ScheduledSoFar, Sound, KeysOf
<1>2. CASE SchedulerStart \/ ScheduleEnd
  <2>1. scheduler'.pc # "loading"
    BY <1>2 DEF SchedulerStart, ScheduleEnd, NoScheduler
  <2>2. QED
    BY <1>1, <2>1
<1>3. CASE OpenCursor
  <2>1. PICK s : s = [NoScheduler EXCEPT !.pc = "loading", !.found = KeysOf(records)]
    OBVIOUS
  <2>2. s \in Scheduler /\ Sound(s)
    BY <2>1, NewCursor, NewSound
  <2>3. scheduler' = Fetched(s) /\ Sound(Fetched(s))
    BY <1>3, <2>1, <2>2, FetchSound DEF OpenCursor
  <2>4. QED
    BY <1>1, <2>3
<1>4. CASE FetchMore
  <2>1. scheduler' = Fetched(scheduler) /\ scheduler.pc = "loading"
        /\ scheduler'.disturbed = scheduler.disturbed
    BY <1>0, <1>4, FetchedIs DEF FetchMore, AsksForMore, TypeOK
  <2>2. ~scheduler.disturbed => Sound(Fetched(scheduler))
    BY <1>0, <2>1, FetchSound DEF ScheduledSoFar
  <2>3. QED
    BY <1>1, <2>1, <2>2
<1>5. CASE CursorFails
  <2>1. scheduler'.pc = "down" \/ scheduler'.disturbed
    <3>1. CASE scheduler' = NoScheduler
      BY <3>1 DEF NoScheduler
    <3>2. CASE scheduler' = [scheduler EXCEPT !.server = "killed", !.disturbed = TRUE]
      <4>1. scheduler'.disturbed = TRUE
        BY <1>0, <3>2 DEF TypeOK, Scheduler
      <4>2. QED
        BY <4>1
    <3>3. QED
      BY <1>5, <3>1, <3>2 DEF CursorFails
  <2>2. QED
    BY <1>1, <2>1
<1>6. CASE ScheduleNext
  <2>1. PICK s : s = [scheduler EXCEPT !.ahead = Tail(@),
                                       !.jobs = @ \cup {Head(scheduler.ahead)}]
    OBVIOUS
  <2>2. /\ scheduler' = s \/ scheduler'.pc = "down"
        /\ scheduler.pc = "loading" /\ scheduler.ahead # <<>>
    BY <1>6, <2>1 DEF ScheduleNext, NoScheduler
  <2>3. s.disturbed = scheduler.disturbed
    BY <1>0, <2>1 DEF Scheduler
  <2>4. ~scheduler.disturbed => Sound(s)
    BY <2>1, <2>2, NextSound DEF ScheduledSoFar
  <2>5. QED
    BY <1>1, <2>2, <2>3, <2>4
<1>7. QED
  BY <1>2, <1>3, <1>4, <1>5, <1>6 DEF SchedulerStep

LEMMA InitLoad == Init => LoadInv
<1> SUFFICES ASSUME Init PROVE LoadInv
  OBVIOUS
<1>1. \A l \in Loaders : loader[l].pc = "off" /\ loader[l].inSecond = 0 /\ loader[l].line = 0
  BY DEF Init, NewLoader
<1>2. scheduler.pc = "down"
  BY DEF Init, NoScheduler
<1>3. QED
  BY <1>1, <1>2 DEF LoadInv, Counted, WorksAlone, LoadedSoFar, ScheduledSoFar, Working

LEMMA StepLoad == TypeOK /\ LoadInv /\ [Next]_vars => LoadInv'
<1> SUFFICES ASSUME TypeOK, LoadInv, [Next]_vars PROVE LoadInv'
  OBVIOUS
<1>0. ScheduledSoFar
  BY DEF LoadInv
<1>1. \A l \in Loaders : LoaderOK(l)'
  <2>1. CASE AdminCreate \/ AdminTruncate \/ AdminDrop \/ Up \/ Down \/ CollectorBoot
    BY <2>1, BeginUntouched, LoadersUntouched
  <2>2. ASSUME NEW a \in Actors, CallStep(a) PROVE \A l \in Loaders : LoaderOK(l)'
    BY <2>2, CallUntouched, LoadersUntouched, DropLoads
  <2>3. ASSUME NEW k \in Keys, Write(k) PROVE \A l \in Loaders : LoaderOK(l)'
    BY <2>3, WriteLoads
  <2>4. ASSUME NEW l \in Loaders, LoaderStep(l) PROVE \A k \in Loaders : LoaderOK(k)'
    BY <2>4, LoaderLoads
  <2>5. CASE SchedulerStep
    BY <2>5, LoadersUntouched DEF SchedulerStep, SchedulerStart, OpenCursor, FetchMore,
       CursorFails, ScheduleNext, ScheduleEnd
  <2>6. CASE UNCHANGED vars
    BY <2>6, LoadersUntouched DEF vars
  <2>7. QED
    BY <2>1, <2>2, <2>3, <2>4, <2>5, <2>6 DEF Next
<1>2. ScheduledSoFar'
  <2>0. ASSUME UNCHANGED <<records, scheduler>> PROVE ScheduledSoFar'
    BY <1>0, <2>0 DEF ScheduledSoFar, Sound, KeysOf
  <2>1. CASE AdminCreate \/ AdminTruncate \/ AdminDrop \/ Up \/ Down \/ CollectorBoot
    BY <2>0, <2>1, BeginUntouched
  <2>2. ASSUME NEW a \in Actors, CallStep(a) PROVE ScheduledSoFar'
    BY <2>0, <2>2, CallUntouched, DropSchedules
  <2>3. ASSUME NEW k \in Keys, Write(k) PROVE ScheduledSoFar'
    <3>1. PICK r : r = <<[key |-> k, slot |-> 0]>>
      OBVIOUS
    <3>2. r \in Seq(Record)
      BY <3>1 DEF Record
    <3>3. records' = records \o r /\ UNCHANGED scheduler
      BY <2>3, <3>1 DEF Write, Inserted
    <3>4. QED
      BY <1>0, <3>2, <3>3, InsertsAfterCursor
  <2>4. ASSUME NEW l \in Loaders, LoaderStep(l) PROVE ScheduledSoFar'
    BY <1>0, <2>4, LoaderSchedules
  <2>5. CASE SchedulerStep
    BY <1>0, <2>5, SchedulerSchedules
  <2>6. CASE UNCHANGED vars
    BY <2>0, <2>6 DEF vars
  <2>7. QED
    BY <2>1, <2>2, <2>3, <2>4, <2>5, <2>6 DEF Next
<1>3. QED
  BY <1>1, <1>2 DEF LoadInv, LoaderOK

(***************************************************************************)
(* The types, the shape of the operations, the index and the uniqueness of *)
(* the keys hold together: an index that is built after every creation is  *)
(* what IndexKept rests on.  So does what is stored and scheduled half-way *)
(* through a load and a boot.                                              *)
(***************************************************************************)
THEOREM CollectionsInvariant == Spec => []CollectionsInv
<1>1. IndexInv => TypeOK
  BY DEF IndexInv
<1>2. QED
  BY <1>1, InitIndex, StepIndex, InitLoad, StepLoad, PTL DEF Spec, CollectionsInv

(***************************************************************************)
(* However admin, migrations, the collector's boot, loaders and failures   *)
(* interleave, a collection lacks its unique index only for one of the     *)
(* three reasons that bare records (dbhelper.go:188-245).                  *)
(***************************************************************************)
THEOREM IndexIsKept == Spec => []IndexKept
<1>1. CollectionsInv => IndexKept
  BY DEF CollectionsInv, IndexInv
<1>2. QED
  BY <1>1, CollectionsInvariant, PTL

\* What the last step of a load finds.
LEMMA LoadEnds ==
  ASSUME TypeOK, LoadInv, [Next]_vars, NEW l \in Loaders, loader[l].pc # "done",
         loader'[l].pc = "done", loader[l].alone
  PROVE  /\ records' = [i \in 1 .. loader[l].line |-> FileRecords[i]]
         /\ loader[l].scanErr \/ records' = FileRecords
<1>0. /\ loader \in [Loaders -> Loader] /\ Counted(loader[l]) /\ LoadedSoFar(l)
      /\ records \in Seq(Record)
  BY DEF TypeOK, LoadInv
<1>f. FileRecords = [i \in 1 .. Lines |-> FileRecords[i]]
  BY DEF FileRecords
<1>1. LoaderStep(l)
  <2>1. ASSUME UNCHANGED loader PROVE FALSE
    BY <2>1
  <2>2. ASSUME NEW a \in Actors, Drop(a) PROVE FALSE
    BY <1>0, <2>2 DEF Drop, Loader
  <2>3. ASSUME NEW k \in Loaders \ {l}, LoaderStep(k) PROVE FALSE
    <3>1. CASE LoaderStart(k)
      BY <1>0, <3>1 DEF LoaderStart, Loader
    <3>2. CASE ~LoaderStart(k)
      BY <1>0, <2>3, <3>2, StepsOfWorking DEF Set
    <3>3. QED
      BY <3>1, <3>2
  <2>4. \A k \in Keys : ~Write(k)
    BY <2>1 DEF Write
  <2>5. ~SchedulerStep
    BY <2>1 DEF SchedulerStep, SchedulerStart, OpenCursor, FetchMore, CursorFails,
       ScheduleNext, ScheduleEnd
  <2>6. QED
    BY <2>1, <2>2, <2>3, <2>4, <2>5, BeginUntouched, CallUntouched DEF Next, vars
<1>2. CASE SaveRecords(l)
  <2>1. loader[l].pc = "flushing"
    BY <1>0, <1>2 DEF SaveRecords, Saving, Set
  <2>2. records' = records \o loader[l].buffer
    BY <1>2 DEF SaveRecords, Inserted
  <2>3. QED
    BY <1>0, <1>f, <2>1, <2>2 DEF LoadedSoFar, Counted, Working
<1>3. CASE NothingToFlush(l)
  <2>1. loader[l].pc = "flushing" /\ loader[l].buffer = <<>> /\ records' = records
    BY <1>3 DEF NothingToFlush
  <2>2. records \o <<>> = records
    BY <1>0, ConcatEmpty
  <2>3. QED
    BY <1>0, <1>f, <2>1, <2>2 DEF LoadedSoFar, Counted, Working
<1>4. CASE LoaderStart(l)
  BY <1>0, <1>4 DEF LoaderStart, NewLoader
<1>5. CASE DeleteOwn(l)
  BY <1>0, <1>5 DEF DeleteOwn, Set, Loader
<1>6. CASE ReadLine(l)
  BY <1>0, <1>6 DEF ReadLine, Set, Loader
<1>7. CASE SaveDuplicate(l) \/ LoaderFails(l)
  <2>1. Set(l, NewLoader)
    BY <1>7 DEF SaveDuplicate, LoaderFails, LoaderEnds
  <2>2. QED
    BY <1>0, <2>1 DEF Set, NewLoader
<1>8. CASE EndOfFile(l) \/ ScanFails(l)
  <2>1. PICK new : new.pc = "flushing" /\ Set(l, new)
    <3>1. loader[l] \in Loader
      BY <1>0
    <3>2. CASE EndOfFile(l)
      BY <3>1, <3>2 DEF EndOfFile, Loader
    <3>3. CASE ScanFails(l)
      BY <3>1, <3>3 DEF ScanFails, Loader
    <3>4. QED
      BY <1>8, <3>2, <3>3
  <2>2. QED
    BY <1>0, <2>1 DEF Set
<1>9. QED
  BY <1>1, <1>2, <1>3, <1>4, <1>5, <1>6, <1>7, <1>8 DEF LoaderStep

(***************************************************************************)
(* For a file and a batch of any size, and after whatever loads, drops and *)
(* failures: a load that succeeds, with no other load or drop since it     *)
(* began, leaves the checks of the lines it has read and no more, in the   *)
(* seconds that were asked for; these are all lines of the file unless the *)
(* scanner met an error (readAndWrite, cmd/bulk_loader/main.go:44-136).    *)
(***************************************************************************)
THEOREM LoadsAreComplete == Spec => LoadComplete
<1>1. CollectionsInv /\ [Next]_vars =>
         [\A l \in Loaders :
             loader[l].pc # "done" /\ loader'[l].pc = "done" /\ loader[l].alone
             => /\ records' = [i \in 1 .. loader[l].line |-> FileRecords[i]]
                /\ loader[l].scanErr \/ records' = FileRecords]_vars
  BY LoadEnds DEF CollectionsInv, IndexInv
<1>2. QED
  BY <1>1, CollectionsInvariant, PTL DEF Spec, LoadComplete

\* What the last step of a boot finds.
LEMMA BootEnds ==
  ASSUME IndexInv, LoadInv, [Next]_vars, scheduler.pc = "loading",
         scheduler'.pc \in {"running", "down"}, unique, ~scheduler.disturbed
  PROVE  /\ scheduler'.pc = "running"
         /\ scheduler.found \subseteq scheduler.jobs
         /\ scheduler.jobs \subseteq KeysOf(records)
<1>0. /\ TypeOK /\ scheduler \in Scheduler /\ records \in Seq(Record)
      /\ Sound(scheduler) /\ scheduler.cursor \in Nat
      /\ Distinct(records) /\ DOMAIN records = 1 .. Len(records) /\ Len(records) \in Nat
  BY LenProperties DEF IndexInv, TypeOK, Scheduler, NoDuplicates, LoadInv, ScheduledSoFar
<1>1. ScheduleNext \/ ScheduleEnd
  <2>1. ASSUME scheduler'.pc = scheduler.pc PROVE FALSE
    BY <2>1
  <2>2. \A a \in Actors : ~Drop(a)
    BY <1>0 DEF Drop, Scheduler
  <2>3. \A k \in Keys : ~Write(k)
    BY <2>1 DEF Write
  <2>4. \A l \in Loaders : ~LoaderStep(l)
    BY <1>0, <2>1 DEF LoaderStep, LoaderStart, DeleteOwn, ReadLine, EndOfFile, ScanFails,
       NothingToFlush, SaveRecords, SaveDuplicate, LoaderFails, LoaderEnds, Scheduler
  <2>5. ~SchedulerStart /\ ~OpenCursor
    BY <2>1, NewCursor, FetchedIs, <1>0 DEF SchedulerStart, OpenCursor, NoScheduler
  <2>6. ~FetchMore
    BY <1>0, <2>1, FetchedIs DEF FetchMore
  <2>7. ~CursorFails
    BY <1>0, <2>1 DEF CursorFails, Scheduler
  <2>8. QED
    BY <2>1, <2>2, <2>3, <2>4, <2>5, <2>6, <2>7, BeginUntouched, CallUntouched
    DEF Next, SchedulerStep, vars
<1>2. CASE ScheduleNext
  <2>1. PICK k : k = Head(scheduler.ahead)
    OBVIOUS
  <2>2. k \in scheduler.jobs /\ scheduler.ahead # <<>>
    BY <1>0, <1>2, <2>1 DEF ScheduleNext, Scheduler
  <2>3. PICK c \in 1 .. Len(records) :
           k = records[c].key /\ scheduler.jobs = {records[i].key : i \in 1 .. c - 1}
    BY <1>0, <2>1, <2>2, NextSound
  <2>4. PICK i \in 1 .. c - 1 : records[i].key = records[c].key
    BY <2>2, <2>3
  <2>5. i \in DOMAIN records /\ c \in DOMAIN records /\ i # c
    BY <1>0
  <2>6. QED
    BY <1>0, <2>4, <2>5 DEF Distinct
<1>3. CASE ScheduleEnd
  <2>1. /\ scheduler'.pc = "running" /\ scheduler.ahead = <<>>
        /\ scheduler.server # "open" /\ scheduler.server # "killed"
    BY <1>0, <1>3 DEF ScheduleEnd, NoScheduler, Sound
  <2>2. Len(scheduler.ahead) = 0 /\ scheduler.cursor - 0 = scheduler.cursor
    BY <1>0, <2>1
  <2>3. /\ scheduler.jobs = {records[i].key : i \in 1 .. scheduler.cursor}
        /\ scheduler.found \subseteq {records[i].key : i \in 1 .. scheduler.cursor}
        /\ scheduler.cursor <= Len(records)
    BY <1>0, <2>1, <2>2 DEF Sound, Scheduler
  <2>4. QED
    BY <1>0, <2>1, <2>3 DEF KeysOf
<1>4. QED
  BY <1>1, <1>2, <1>3

(***************************************************************************)
(* However many checks there are, in batches of any size, and whatever     *)
(* loaders insert meanwhile: a scheduler that finds the unique index, and  *)
(* whose cursor nobody cuts or overtakes, comes up with a job for every    *)
(* check that was there when the cursor was opened, and with no job        *)
(* without a check (scheduleChecks, cmd/scheduler/main.go:89-101).         *)
(***************************************************************************)
THEOREM SchedulerLoadsAll == Spec => SchedulerLoads
<1>1. CollectionsInv /\ [Next]_vars =>
         [scheduler.pc = "loading" /\ scheduler'.pc \in {"running", "down"}
          /\ unique /\ ~scheduler.disturbed
          => /\ scheduler'.pc = "running"
             /\ scheduler.found \subseteq scheduler.jobs
             /\ scheduler.jobs \subseteq KeysOf(records)]_vars
  BY BootEnds DEF CollectionsInv
<1>2. QED
  BY <1>1, CollectionsInvariant, PTL DEF Spec, SchedulerLoads
=============================================================================
