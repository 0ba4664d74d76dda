----------------------- MODULE ResponseRetentionProofs -----------------------
(***************************************************************************)
(* That the retention deletes only expired responses, and oldest first,    *)
(* for every retention, batch size, number of responses and of errors.     *)
(***************************************************************************)
EXTENDS ResponseRetention, TLAPS

\* An empty collection and a process that waits satisfy the invariant.
LEMMA InitIInv == Init => IInv
  BY RetentionAssumption DEF Init, IInv, TypeOK, ThresholdPast

\* ThresholdPast is inductive on its own types: only a Tick moves now, and it
\* moves it away from the threshold.
LEMMA NextIInv == IInv /\ [Next]_vars => IInv'
<1> SUFFICES ASSUME IInv, [Next]_vars PROVE IInv'
  OBVIOUS
<1> USE RetentionAssumption DEF IInv, TypeOK, ThresholdPast, Record
<1>1. CASE Tick
  BY <1>1 DEF Tick
<1>2. ASSUME NEW i \in Ids, Insert(i) PROVE IInv'
  BY <1>2 DEF Insert
<1>3. CASE StartClean
  BY <1>3 DEF StartClean
<1>4. CASE Find
  <2>1. PICK rec \in UpTo(unixThreshold) : record' = rec.time
    BY <1>4 DEF Find
  <2>2. rec.time \in Int /\ rec.time <= unixThreshold
    BY <2>1 DEF UpTo
  <2>3. QED
    BY <1>4, <2>1, <2>2 DEF Find
<1>5. CASE FindNone
  BY <1>5 DEF FindNone
<1>6. CASE Delete
  BY <1>6 DEF Delete
<1>7. CASE GiveUp
  BY <1>7 DEF GiveUp
<1>8. CASE UNCHANGED vars
  BY <1>8 DEF vars
<1>9. QED
  BY <1>1, <1>2, <1>3, <1>4, <1>5, <1>6, <1>7, <1>8 DEF Next

\* In every reachable state the state is well typed and neither the threshold of
\* a running clean() nor the time it deletes up to is past the retention limit.
THEOREM RetentionInvariant == Spec => []IInv
<1>1. QED
  BY InitIInv, NextIInv, PTL DEF Spec

\* The two action properties follow from the invariant: only Delete removes
\* records, and it removes those up to the time found.
LEMMA DeletedUpToRecord ==
  ASSUME IInv, Next
  PROVE  \A rec \in records \ records' :
            pc = "delete" /\ records' = records \ UpTo(record) /\ rec.time <= record
<1> USE DEF UpTo
<1>1. CASE Delete
  BY <1>1 DEF Delete
<1>2. CASE ~Delete
  <2>1. records \subseteq records'
    BY <1>2 DEF Next, Tick, Insert, StartClean, Find, FindNone, GiveUp
  <2>2. QED
    BY <2>1
<1>3. QED
  BY <1>1, <1>2

\* No response younger than the retention period is ever deleted.
THEOREM RetentionKeepsFresh == Spec => OnlyExpiredDeleted
<1>1. ASSUME IInv, [Next]_vars
      PROVE  [\A rec \in records \ records' : rec.time <= now - Retention]_vars
  <2>1. CASE Next
    <3> SUFFICES ASSUME NEW rec \in records \ records'
                 PROVE  rec.time <= now - Retention
      OBVIOUS
    <3>1. pc = "delete" /\ rec.time <= record
      BY <1>1, <2>1, DeletedUpToRecord
    <3>2. record <= unixThreshold /\ unixThreshold <= now - Retention
      BY <1>1, <3>1 DEF IInv, ThresholdPast
    <3>3. QED
      BY <1>1, <3>1, <3>2, RetentionAssumption DEF IInv, TypeOK, Record
  <2>2. QED
    BY <1>1, <2>1
<1>2. QED
  BY <1>1, RetentionInvariant, PTL DEF Spec, OnlyExpiredDeleted

\* A delete never leaves a record as old as one it removes.
THEOREM RetentionOldestFirst == Spec => OldestFirst
<1>1. ASSUME IInv, [Next]_vars
      PROVE  [\A rec \in records \ records', kept \in records' : rec.time < kept.time]_vars
  <2>1. CASE Next
    <3> SUFFICES ASSUME NEW rec \in records \ records', NEW kept \in records'
                 PROVE  rec.time < kept.time
      OBVIOUS
    <3>1. records' = records \ UpTo(record) /\ rec.time <= record
      BY <1>1, <2>1, DeletedUpToRecord
    <3>2. kept \in records /\ ~(kept.time <= record)
      BY <3>1 DEF UpTo
    <3>3. rec.time \in Int /\ kept.time \in Int /\ record \in Int
      BY <1>1, <3>2 DEF IInv, TypeOK, Record
    <3>4. QED
      BY <3>1, <3>2, <3>3
  <2>2. QED
    BY <1>1, <2>1
<1>2. QED
  BY <1>1, RetentionInvariant, PTL DEF Spec, OldestFirst
=============================================================================
