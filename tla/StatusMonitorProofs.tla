------------------------- MODULE StatusMonitorProofs -------------------------
(***************************************************************************)
(* Three facts about the status monitor, for every number of checks, of    *)
(* responses and of restarts, and every channel, batch and buffer size: no *)
(* late save of an older status wins; as long as the ids of responses are  *)
(* in the order of their insertion, no response is passed over, whenever a *)
(* process ends and whatever it leaves behind; and as long as nothing is   *)
(* in transit when one ends, every change is detected once.                *)
(***************************************************************************)
EXTENDS StatusMonitor, SequenceTheorems, FiniteSetTheorems, TLAPS

\* The element of a check that was never seen is well typed, and so are the
\* goroutines of a process that starts.
LEMMA FreshTypes ==
  /\ NoStatus \in Status
  /\ Cited(NoStatus)
  /\ \A S : <<>> \in Seq(S)
  BY EmptySeq DEF NoStatus, Status, Cited

\* What a channel holds after a send and after a receive.
LEMMA AppendElements ==
  ASSUME NEW S, NEW s \in Seq(S), NEW e \in S
  PROVE  ToSet(Append(s, e)) = ToSet(s) \cup {e}
<1>1. /\ Append(s, e) \in Seq(S) /\ Len(Append(s, e)) = Len(s) + 1
      /\ \A i \in 1 .. Len(s) : Append(s, e)[i] = s[i]
      /\ Append(s, e)[Len(s) + 1] = e
  BY AppendProperties
<1>2. Len(s) \in Nat /\ DOMAIN s = 1 .. Len(s) /\ DOMAIN Append(s, e) = 1 .. Len(s) + 1
  BY <1>1, LenProperties
<1>3. QED
  BY <1>1, <1>2 DEF ToSet

LEMMA TailElements ==
  ASSUME NEW S, NEW s \in Seq(S), s # <<>>
  PROVE  ToSet(s) = {Head(s)} \cup ToSet(Tail(s))
<1>1. /\ Tail(s) \in Seq(S) /\ Len(Tail(s)) = Len(s) - 1
      /\ \A i \in 1 .. Len(Tail(s)) : Tail(s)[i] = s[i + 1]
      /\ Head(s) = s[1]
  BY HeadTailProperties
<1>2. /\ Len(s) \in Nat \ {0} /\ DOMAIN s = 1 .. Len(s)
      /\ DOMAIN Tail(s) = 1 .. Len(s) - 1
  BY <1>1, LenProperties, EmptySeq
<1>3. \A i \in 1 .. Len(s) : i = 1 \/ (i - 1 \in 1 .. Len(s) - 1 /\ s[i] = Tail(s)[i - 1])
  BY <1>1, <1>2
<1>4. \A i \in 1 .. Len(s) : s[i] \in {Head(s)} \cup ToSet(Tail(s))
  <2> SUFFICES ASSUME NEW i \in 1 .. Len(s), i # 1 PROVE s[i] \in ToSet(Tail(s))
    BY <1>1
  <2>1. i - 1 \in DOMAIN Tail(s) /\ s[i] = Tail(s)[i - 1]
    BY <1>2, <1>3
  <2>2. QED
    BY <2>1 DEF ToSet
<1>5. Head(s) \in ToSet(s)
  BY <1>1, <1>2 DEF ToSet
<1>6. \A i \in 1 .. Len(s) - 1 : i + 1 \in 1 .. Len(s) /\ Tail(s)[i] = s[i + 1]
  BY <1>1, <1>2
<1>7. ToSet(Tail(s)) \subseteq ToSet(s)
  BY <1>2, <1>6 DEF ToSet
<1>8. QED
  BY <1>2, <1>4, <1>5, <1>7 DEF ToSet

\* The initial state is well typed.
LEMMA InitType == Init => TypeOK
<1> SUFFICES ASSUME Init PROVE TypeOK
  OBVIOUS
<1>1. responses \in [Known -> Response] /\ Known = {}
  BY DEF Init, Known
<1>2. /\ statusChanges \in Seq(Change) /\ buffer \in Seq(Change)
      /\ readCh \in Seq(Known) /\ currentCh \in Seq(Checks) /\ changesCh \in Seq(Checks)
  BY FreshTypes DEF Init
<1>3. QED
  BY <1>1, <1>2, FreshTypes, MonitorAssumption DEF Init, TypeOK, Reading, Detecting, Idle

\* An updated element cites the response it was updated from.
LEMMA UpdatedType ==
  ASSUME TypeOK, NEW s \in Status, NEW i \in Known
  PROVE  Updated(s, i) \in Status /\ Updated(s, i).resp = i
<1>1. i \in Nat
  BY MonitorAssumption DEF TypeOK, Ids
<1>2. responses[i] \in Response
  BY DEF TypeOK
<1>3. QED
  BY <1>1, <1>2 DEF Updated, Status, Response

\* The marker is a response id, or 0 for an element that cites none.
LEMMA MarkerType ==
  ASSUME TypeOK, CitesHandled, NEW m \in LastMarker
  PROVE  /\ m \in [id : 0 .. MaxId, op : {"$gt", "$gte"}]
         /\ m.id \in Known \cup {0}
         /\ \/ m.op = "$gt" /\ m.id \in handled \cup {0}
            \/ m.op = "$gte" /\ m.id \in Known /\ \A j \in Known : m.id <= j
<1>1. Known \subseteq 0 .. MaxId /\ handled \subseteq Known /\ 0 \in 0 .. MaxId
  BY MonitorAssumption DEF TypeOK, Ids
<1>2. CASE statusChanges # <<>>
  <2>1. Len(statusChanges) \in DOMAIN statusChanges
    BY <1>2, EmptySeq, LenProperties DEF TypeOK
  <2>2. Last(statusChanges).status.resp \in handled \cup {0}
    BY <2>1 DEF CitesHandled, Cited, Last
  <2>3. m = Reading(Last(statusChanges).status.resp, "$gt")
    BY <1>2 DEF LastMarker
  <2>4. QED
    BY <1>1, <2>2, <2>3 DEF Reading
<1>3. CASE statusChanges = <<>>
  BY <1>1, <1>3 DEF LastMarker, Reading, Oldest
<1>4. QED
  BY <1>2, <1>3

\* What a killed process leaves of its two saves.
LEMMA CrashLeaves ==
  ASSUME TypeOK, Crash
  PROVE  /\ statusChanges' \in Seq(Change)
         /\ statusCurrent' \in [Checks -> Status]
         /\ CitesHandled =>
               /\ \A k \in DOMAIN statusChanges' : statusChanges'[k].status.resp \in handled \cup {0}
               /\ \A c \in Checks : statusCurrent'[c].resp \in handled \cup {0}
<1>1. PICK n \in 0 .. Len(buffer) : statusChanges' = statusChanges \o SubSeq(buffer, 1, n)
  <2>1. Len(buffer) \in Nat
    BY LenProperties DEF TypeOK
  <2>2. PICK n \in 0 .. (IF changes \in {"saving", "last"} THEN Len(buffer) ELSE 0) :
           statusChanges' = statusChanges \o SubSeq(buffer, 1, n)
    BY DEF Crash
  <2>3. n \in 0 .. Len(buffer)
    BY <2>1, <2>2
  <2>4. QED
    BY <2>2, <2>3
<1>2. /\ Len(buffer) \in Nat /\ DOMAIN buffer = 1 .. Len(buffer)
      /\ Len(statusChanges) \in Nat /\ DOMAIN statusChanges = 1 .. Len(statusChanges)
      /\ \A i \in 1 .. n : buffer[i] \in Change
  BY LenProperties, ElementOfSeq DEF TypeOK
<1>3. /\ SubSeq(buffer, 1, n) \in Seq(Change)
      /\ Len(SubSeq(buffer, 1, n)) = n
      /\ \A i \in 1 .. n : SubSeq(buffer, 1, n)[i] = buffer[i]
  BY <1>2, SubSeqProperties
<1>4. /\ statusChanges' \in Seq(Change)
      /\ Len(statusChanges') = Len(statusChanges) + n
      /\ \A i \in 1 .. Len(statusChanges) + n : statusChanges'[i] =
            IF i <= Len(statusChanges) THEN statusChanges[i]
            ELSE SubSeq(buffer, 1, n)[i - Len(statusChanges)]
  BY <1>1, <1>3, ConcatProperties DEF TypeOK
<1>5. CitesHandled =>
        \A k \in DOMAIN statusChanges' : statusChanges'[k].status.resp \in handled \cup {0}
  <2> SUFFICES ASSUME CitesHandled, NEW k \in DOMAIN statusChanges'
               PROVE  statusChanges'[k].status.resp \in handled \cup {0}
    OBVIOUS
  <2>1. k \in 1 .. Len(statusChanges) + n
    BY <1>4, LenProperties
  <2>2. CASE k <= Len(statusChanges)
    BY <1>2, <1>4, <2>1, <2>2 DEF CitesHandled, Cited
  <2>3. CASE ~(k <= Len(statusChanges))
    <3>1. k - Len(statusChanges) \in 1 .. n
      BY <1>2, <2>1, <2>3
    <3>2. statusChanges'[k] = buffer[k - Len(statusChanges)]
      BY <1>3, <1>4, <2>1, <2>3, <3>1
    <3>3. QED
      BY <1>2, <3>1, <3>2 DEF CitesHandled, Cited
  <2>4. QED
    BY <2>2, <2>3
<1>6. /\ statusCurrent' \in [Checks -> Status]
      /\ CitesHandled => \A c \in Checks : statusCurrent'[c].resp \in handled \cup {0}
  <2>1. CASE statusCurrent' = statusCurrent
    BY <2>1 DEF TypeOK, CitesHandled, Cited
  <2>2. CASE statusCurrent' = CurrentSaved /\ current.pc = "saving"
    <3>1. current.status \in Status
      BY <2>2 DEF TypeOK, Idle
    <3>2. QED
      BY <2>2, <3>1 DEF CurrentSaved, TypeOK, CitesHandled, Cited
  <2>3. QED
    BY <2>1, <2>2 DEF Crash
<1>7. QED
  BY <1>4, <1>5, <1>6

-----------------------------------------------------------------------------
\* Every step keeps the types; a marker is a response id because no saved
\* change cites anything else.
LEMMA TypeStep ==
  ASSUME TypeOK, CitesHandled, [Next]_vars
  PROVE  TypeOK'
<1> USE MonitorAssumption
<1>1. ASSUME NEW i \in Ids, NEW r \in Response, ResponseInserted(i, r)
      PROVE  TypeOK'
  <2>1. /\ responses' \in [Known \cup {i} -> Response]
        /\ Known' = Known \cup {i}
    BY <1>1 DEF ResponseInserted, TypeOK, Known
  <2>2. readCh' \in Seq(Known')
    BY <1>1, <2>1, SeqMonotonic DEF ResponseInserted, TypeOK, reader
  <2>3. QED
    BY <1>1, <2>1, <2>2
       DEF ResponseInserted, TypeOK, database, reader, currentWriter, changesWriter
<1> USE DEF Known
<1>2. CASE Start
  <2>1. marker' \in [id : 0 .. MaxId, op : {"$gt", "$gte"}]
    BY <1>2, MarkerType DEF Start
  <2>2. QED
    BY <1>2, <2>1 DEF Start, LastKnownStatus, TypeOK, database, currentWriter, changesWriter
<1>3. CASE FindResponses
  BY <1>3 DEF FindResponses, FirstOf, Found, TypeOK, database, currentWriter, changesWriter, history
<1>4. CASE SendResponse
  <2>1. PICK i \in batch : Send(i)
    BY <1>4 DEF SendResponse, Oldest
  <2>2. i \in Known /\ i \in 0 .. MaxId
    BY DEF TypeOK, Ids
  <2>3. readCh' \in Seq(Known)
    BY <2>1, <2>2, AppendProperties DEF Send, TypeOK
  <2>4. QED
    BY <1>4, <2>1, <2>2, <2>3
       DEF SendResponse, Send, Reading, TypeOK, database, currentWriter, changesWriter, history
<1>5. CASE Detect
  <2> DEFINE i == Head(readCh)
             c == responses[i].check
  <2>1. i \in Known /\ Tail(readCh) \in Seq(Known)
    BY <1>5, HeadTailProperties DEF Detect, TypeOK
  <2>2. c \in Checks
    <3>1. responses[i] \in Response
      BY <2>1 DEF TypeOK
    <3>2. QED
      BY <3>1 DEF Response
  <2>3. /\ statuses' \in [Checks -> Status]
        /\ detector' \in {Detecting} \cup [pc : {"stopped"}, check : {{}}]
                         \cup [pc : {"current", "changes"}, check : Checks]
    <3>1. Updated(statuses[c], i) \in Status
      BY <2>1, <2>2, UpdatedType DEF TypeOK
    <3>2. CASE UNCHANGED <<statuses, detector>>
      BY <3>2 DEF TypeOK
    <3>3. CASE /\ statuses' = [statuses EXCEPT ![c] = Updated(@, i)]
               /\ detector' = [pc |-> "current", check |-> c]
      BY <2>2, <3>1, <3>3 DEF TypeOK
    <3>4. QED
      BY <1>5, <3>2, <3>3 DEF Detect
  <2>4. QED
    BY <1>5, <2>1, <2>3 DEF Detect, TypeOK, database, currentWriter, changesWriter
<1>6. CASE SendCurrent
  <2>1. detector.check \in Checks
    BY <1>6 DEF SendCurrent, TypeOK, Detecting
  <2>2. currentCh' \in Seq(Checks)
    BY <1>6, <2>1, AppendProperties DEF SendCurrent, TypeOK
  <2>3. detector' \in [pc : {"current", "changes"}, check : Checks]
    BY <1>6, <2>1 DEF SendCurrent, TypeOK, Detecting
  <2>4. QED
    BY <1>6, <2>2, <2>3 DEF SendCurrent, TypeOK, database, reader, changesWriter, history
<1>7. CASE SendChange
  <2>1. detector.check \in Checks
    BY <1>7 DEF SendChange, TypeOK, Detecting
  <2>2. changesCh' \in Seq(Checks)
    BY <1>7, <2>1, AppendProperties DEF SendChange, TypeOK
  <2>3. QED
    BY <1>7, <2>2 DEF SendChange, TypeOK, database, reader, currentWriter, history
<1>8. CASE TakeCurrent
  <2>1. Head(currentCh) \in Checks /\ Tail(currentCh) \in Seq(Checks)
    BY <1>8, HeadTailProperties DEF TakeCurrent, TypeOK
  <2>2. current' \in [pc : {"saving"}, check : Checks, status : Status]
    BY <1>8, <2>1 DEF TakeCurrent, TypeOK
  <2>3. QED
    BY <1>8, <2>1, <2>2 DEF TakeCurrent, TypeOK, database, reader, changesWriter, history
<1>9. CASE SaveCurrent
  <2>1. current.status \in Status
    BY <1>9 DEF SaveCurrent, TypeOK, Idle
  <2>2. QED
    BY <1>9, <2>1 DEF SaveCurrent, CurrentSaved, TypeOK, reader, changesWriter, history
<1>10. ASSUME NEW due \in BOOLEAN, BufferChange(due) PROVE TypeOK'
  <2>1. Head(changesCh) \in Checks /\ Tail(changesCh) \in Seq(Checks)
    BY <1>10, HeadTailProperties DEF BufferChange, TypeOK
  <2>2. [check |-> Head(changesCh), status |-> statuses[Head(changesCh)]] \in Change
    BY <2>1 DEF TypeOK, Change
  <2>3. buffer' \in Seq(Change)
    BY <1>10, <2>2, AppendProperties DEF BufferChange, TypeOK
  <2>4. changes' \in {"select", "saving"}
    BY <1>10 DEF BufferChange
  <2>5. QED
    BY <1>10, <2>1, <2>3, <2>4 DEF BufferChange, TypeOK, database, reader, currentWriter, history
<1>11. CASE FlushDue
  BY <1>11 DEF FlushDue, TypeOK, database, reader, currentWriter, history
<1>12. CASE SaveChanges
  <2>1. statusChanges' \in Seq(Change) /\ buffer' \in Seq(Change)
    BY <1>12, ConcatProperties, FreshTypes DEF SaveChanges, TypeOK
  <2>2. QED
    BY <1>12, <2>1 DEF SaveChanges, TypeOK, reader, currentWriter, history
<1>13. CASE Stop
  BY <1>13 DEF Stop, TypeOK, database, reader, currentWriter, changesWriter, history
<1>14. CASE DetectorDone
  <2>1. detector' \in [pc : {"stopped"}, check : {{}}]
    <3>1. detector = Detecting
      BY <1>14 DEF DetectorDone, TypeOK
    <3>2. QED
      BY <1>14, <3>1 DEF DetectorDone, Detecting
  <2>2. QED
    BY <1>14, <2>1 DEF DetectorDone, TypeOK, database, reader, currentWriter, changesWriter, history
<1>15. CASE CurrentDone
  <2>1. current' \in [pc : {"stopped"}, check : {{}}, status : {NoStatus}]
    <3>1. current = Idle
      BY <1>15 DEF CurrentDone, TypeOK
    <3>2. QED
      BY <1>15, <3>1 DEF CurrentDone, Idle
  <2>2. QED
    BY <1>15, <2>1 DEF CurrentDone, TypeOK, database, reader, changesWriter, history
<1>16. CASE ChangesDone
  BY <1>16 DEF ChangesDone, TypeOK, database, reader, currentWriter, history
<1>17. CASE Exit
  <2>1. happened' \subseteq {Interrupted, Skew}
    BY <1>17 DEF Exit, TypeOK
  <2>2. QED
    BY <1>17, <2>1, FreshTypes DEF Exit, Vanish, TypeOK, Reading, database
<1>18. CASE Crash
  <2>1. happened' \subseteq {Interrupted, Skew}
    BY <1>18 DEF Crash, TypeOK
  <2>2. statusChanges' \in Seq(Change) /\ statusCurrent' \in [Checks -> Status]
    BY <1>18, CrashLeaves
  <2>3. Vanish
    BY <1>18 DEF Crash
  <2>4. QED
    BY <2>1, <2>2, <2>3, FreshTypes DEF Vanish, TypeOK, Reading
<1>19. CASE UNCHANGED vars
  BY <1>19 DEF vars, TypeOK, database, reader, currentWriter, changesWriter, history
<1>20. QED
  BY <1>1, <1>2, <1>3, <1>4, <1>5, <1>6, <1>7, <1>8, <1>9, <1>10, <1>11, <1>12, <1>13,
     <1>14, <1>15, <1>16, <1>17, <1>18, <1>19 DEF Next, Goroutines

\* Statuses come from handled responses and are copied from memory to memory
\* and to the database.
LEMMA CitesStep ==
  ASSUME TypeOK, CitesHandled, [Next]_vars
  PROVE  CitesHandled'
<1> USE DEF CitesHandled, Cited
<1>1. CASE Start
  BY <1>1 DEF Start, LastKnownStatus, TypeOK, database, currentWriter, changesWriter
<1>2. CASE Detect
  <2> DEFINE i == Head(readCh)
             c == responses[i].check
  <2>1. i \in Known
    BY <1>2, HeadTailProperties DEF Detect, TypeOK
  <2>2. CASE UNCHANGED <<statuses, detector>>
    BY <1>2, <2>2 DEF Detect, database, currentWriter, changesWriter
  <2>3. CASE statuses' = [statuses EXCEPT ![c] = Updated(@, i)]
    <3>1. c \in Checks
      <4>1. responses[i] \in Response
        BY <2>1 DEF TypeOK
      <4>2. QED
        BY <4>1 DEF Response
    <3>2. Updated(statuses[c], i).resp = i /\ i \in handled'
      BY <1>2, <2>1, <3>1, UpdatedType DEF TypeOK, Detect
    <3>3. \A d \in Checks : Cited(statuses[d])'
      BY <1>2, <2>3, <3>2 DEF TypeOK, Detect
    <3>4. QED
      BY <1>2, <3>3 DEF Detect, database, currentWriter, changesWriter
  <2>4. QED
    BY <1>2, <2>2, <2>3 DEF Detect
<1>3. CASE TakeCurrent
  <2>1. Head(currentCh) \in Checks
    BY <1>3, HeadTailProperties DEF TakeCurrent, TypeOK
  <2>2. QED
    BY <1>3, <2>1 DEF TakeCurrent, database, changesWriter, history
<1>4. CASE SaveCurrent
  <2>1. \A c \in Checks : Cited(statusCurrent[c])'
    BY <1>4 DEF SaveCurrent, CurrentSaved, TypeOK, history
  <2>2. Cited(current.status)'
    BY <1>4 DEF SaveCurrent, Idle, NoStatus
  <2>3. QED
    BY <1>4, <2>1, <2>2 DEF SaveCurrent, changesWriter, history
<1>5. ASSUME NEW due \in BOOLEAN, BufferChange(due) PROVE CitesHandled'
  <2> DEFINE x == [check |-> Head(changesCh), status |-> statuses[Head(changesCh)]]
  <2>1. Head(changesCh) \in Checks
    BY <1>5, HeadTailProperties DEF BufferChange, TypeOK
  <2>2. x \in Change /\ Cited(x.status)
    BY <2>1 DEF TypeOK, Change
  <2>3. \A k \in DOMAIN buffer' : Cited(buffer'[k].status)
    <3>1. /\ buffer' \in Seq(Change) /\ Len(buffer') = Len(buffer) + 1
          /\ \A k \in 1 .. Len(buffer) : buffer'[k] = buffer[k]
          /\ buffer'[Len(buffer) + 1] = x
      BY <1>5, <2>2, AppendProperties DEF BufferChange, TypeOK
    <3>2. DOMAIN buffer = 1 .. Len(buffer) /\ DOMAIN buffer' = 1 .. Len(buffer) + 1
          /\ Len(buffer) \in Nat
      BY <3>1, LenProperties DEF TypeOK
    <3>3. QED
      BY <2>2, <3>1, <3>2
  <2>4. QED
    BY <1>5, <2>3 DEF BufferChange, database, currentWriter, history
<1>6. CASE SaveChanges
  <2>1. \A k \in DOMAIN statusChanges' : Cited(statusChanges'[k].status)
    <3>1. /\ statusChanges' \in Seq(Change)
          /\ Len(statusChanges') = Len(statusChanges) + Len(buffer)
          /\ \A k \in 1 .. Len(statusChanges) + Len(buffer) : statusChanges'[k] =
                IF k <= Len(statusChanges) THEN statusChanges[k]
                ELSE buffer[k - Len(statusChanges)]
      BY <1>6, ConcatProperties DEF SaveChanges, TypeOK
    <3>2. /\ DOMAIN statusChanges' = 1 .. Len(statusChanges) + Len(buffer)
          /\ DOMAIN statusChanges = 1 .. Len(statusChanges) /\ Len(statusChanges) \in Nat
          /\ DOMAIN buffer = 1 .. Len(buffer) /\ Len(buffer) \in Nat
      BY <3>1, LenProperties DEF TypeOK
    <3>3. ASSUME NEW k \in DOMAIN statusChanges' PROVE Cited(statusChanges'[k].status)
      <4>1. k \in 1 .. Len(statusChanges) + Len(buffer) /\ k \in Nat
        BY <3>2
      <4>2. CASE k <= Len(statusChanges)
        <5>1. k \in DOMAIN statusChanges /\ statusChanges'[k] = statusChanges[k]
          BY <3>1, <3>2, <4>1, <4>2
        <5>2. QED
          BY <5>1
      <4>3. CASE ~(k <= Len(statusChanges))
        <5> DEFINE j == k - Len(statusChanges)
        <5>1. j \in DOMAIN buffer
          BY <3>2, <4>1, <4>3
        <5>2. statusChanges'[k] = buffer[j]
          BY <3>1, <4>1, <4>3
        <5>3. QED
          BY <5>1, <5>2
      <4>4. QED
        BY <4>2, <4>3
    <3>4. QED
      BY <3>3
  <2>2. QED
    BY <1>6, <2>1 DEF SaveChanges, currentWriter, history
<1>7. CASE Crash
  <2>1. Vanish
    BY <1>7 DEF Crash
  <2>2. QED
    BY <1>7, <2>1, CrashLeaves DEF Vanish, NoStatus, Idle
<1>8. CASE Exit
  BY <1>8 DEF Exit, Vanish, NoStatus, Idle, database
<1>9. CASE /\ UNCHANGED <<statuses, current, statusChanges, statusCurrent, handled>>
           /\ UNCHANGED buffer
  BY <1>9
<1>10. QED
  <2>1. CASE \E i \in Ids, r \in Response : ResponseInserted(i, r)
    BY <1>9, <2>1 DEF ResponseInserted, database, currentWriter, changesWriter
  <2>2. CASE FindResponses \/ SendResponse \/ SendCurrent \/ SendChange \/ FlushDue
    BY <1>9, <2>2 DEF FindResponses, SendResponse, SendCurrent, SendChange, FlushDue,
                      database, currentWriter, changesWriter, history
  <2>3. CASE Stop \/ DetectorDone \/ ChangesDone
    BY <1>9, <2>3 DEF Stop, DetectorDone, ChangesDone, database, currentWriter, changesWriter, history
  <2>4. CASE CurrentDone
    <3>1. current'.status = current.status
      BY <2>4 DEF CurrentDone, TypeOK, Idle
    <3>2. QED
      BY <2>4, <3>1 DEF CurrentDone, database, changesWriter, history
  <2>5. CASE UNCHANGED vars
    BY <1>9, <2>5 DEF vars, database, currentWriter, changesWriter, history
  <2>6. QED
    BY <1>1, <1>2, <1>3, <1>4, <1>5, <1>6, <1>7, <1>8, <2>1, <2>2, <2>3, <2>4, <2>5
       DEF Next, Goroutines

-----------------------------------------------------------------------------
\* The two steps that can break NoUpdateLost: a change makes every saved status
\* old until its check is sent, and a save may write an older copy.
LEMMA UpdateStep ==
  ASSUME TypeOK, DownIsEmpty, NoUpdateLost, [Next]_vars
  PROVE  NoUpdateLost'
<1> USE DEF NoUpdateLost, InTransit, LastWrite, Running
<1>1. CASE Start
  BY <1>1 DEF Start, LastKnownStatus, TypeOK, DownIsEmpty, database, currentWriter
<1>2. CASE Detect
  <2> DEFINE i == Head(readCh)
             c == responses[i].check
  <2>1. UNCHANGED <<statusCurrent, phase, currentCh, current>> /\ detector.pc = "select"
    BY <1>2 DEF Detect, database, currentWriter
  <2>2. CASE UNCHANGED <<statuses, detector>>
    BY <1>2, <2>1, <2>2 DEF Detect
  <2>3. CASE /\ statuses' = [statuses EXCEPT ![c] = Updated(@, i)]
             /\ detector' = [pc |-> "current", check |-> c]
    <3>1. \A d \in Checks : d # c => statuses'[d] = statuses[d]
      BY <2>3 DEF TypeOK
    <3>2. QED
      BY <1>2, <2>1, <2>3, <3>1 DEF Detect
  <2>4. QED
    BY <1>2, <2>2, <2>3 DEF Detect
<1>3. CASE SendCurrent
  <2>1. detector.check \in Checks
    BY <1>3 DEF SendCurrent, TypeOK, Detecting
  <2>2. ToSet(currentCh') = ToSet(currentCh) \cup {detector.check}
    BY <1>3, <2>1, AppendElements DEF SendCurrent, TypeOK
  <2>3. UNCHANGED <<statusCurrent, phase, statuses, current>>
    BY <1>3 DEF SendCurrent, database
  <2>4. QED
    BY <1>3, <2>2, <2>3 DEF SendCurrent
<1>4. CASE TakeCurrent
  <2> DEFINE c == Head(currentCh)
  <2>1. ToSet(currentCh) = {c} \cup ToSet(currentCh')
    BY <1>4, TailElements DEF TakeCurrent, TypeOK
  <2>2. /\ UNCHANGED <<statusCurrent, phase, statuses, detector>>
        /\ current.pc = "select"
        /\ current'.pc = "saving" /\ current'.check = c /\ current'.status = statuses[c]
    BY <1>4 DEF TakeCurrent, database
  <2>3. QED
    BY <1>4, <2>1, <2>2 DEF TakeCurrent
<1>5. CASE SaveCurrent
  <2>1. /\ UNCHANGED <<phase, statuses, detector, currentCh>>
        /\ current.pc = "saving" /\ current'.pc = "select"
    BY <1>5 DEF SaveCurrent, Idle
  <2>2. \A d \in Checks : LastWrite(d) = statusCurrent'[d]
    BY <1>5 DEF SaveCurrent, CurrentSaved, TypeOK
  <2>3. QED
    BY <1>5, <2>1, <2>2 DEF SaveCurrent
<1>6. CASE Exit \/ Crash
  BY <1>6 DEF Exit, Crash, Vanish
<1>7. CASE UNCHANGED <<statusCurrent, statuses, detector, currentCh, current>> /\ (Running' => Running)
  BY <1>7
<1>8. CASE DetectorDone
  BY <1>8 DEF DetectorDone, database, currentWriter, TypeOK, Detecting
<1>9. CASE CurrentDone
  BY <1>9 DEF CurrentDone, database, TypeOK, Idle
<1>10. CASE SendChange
  BY <1>10 DEF SendChange, database, currentWriter, Detecting
<1>11. QED
  <2>1. CASE \E i \in Ids, r \in Response : ResponseInserted(i, r)
    BY <1>7, <2>1 DEF ResponseInserted, database, currentWriter
  <2>2. CASE FindResponses \/ SendResponse \/ FlushDue \/ SaveChanges
    BY <1>7, <2>2 DEF FindResponses, SendResponse, FlushDue, SaveChanges, database, currentWriter
  <2>3. CASE BufferChange(TRUE) \/ BufferChange(FALSE)
    BY <1>7, <2>3 DEF BufferChange, database, currentWriter
  <2>4. CASE Stop \/ ChangesDone
    BY <1>7, <2>4 DEF Stop, ChangesDone, database, currentWriter
  <2>5. CASE UNCHANGED vars
    BY <1>7, <2>5 DEF vars, database, currentWriter
  <2>6. QED
    BY <1>1, <1>2, <1>3, <1>4, <1>5, <1>6, <1>8, <1>9, <1>10, <2>1, <2>2, <2>3, <2>4, <2>5
       DEF Next, Goroutines

\* Only a running process has anything in its channels.
LEMMA DownStep ==
  ASSUME DownIsEmpty, [Next]_vars
  PROVE  DownIsEmpty'
<1> USE DEF DownIsEmpty, Running
<1>1. CASE Start \/ Stop
  BY <1>1 DEF Start, Stop
<1>2. CASE Exit \/ Crash
  BY <1>2 DEF Exit, Crash, Vanish, Idle
<1>3. CASE \E i \in Ids, r \in Response : ResponseInserted(i, r)
  BY <1>3 DEF ResponseInserted, reader, currentWriter, changesWriter
<1>4. CASE Goroutines
  BY <1>4 DEF Goroutines, FindResponses, SendResponse, Detect, SendCurrent, SendChange,
              TakeCurrent, SaveCurrent, BufferChange, FlushDue, SaveChanges
<1>5. CASE DetectorDone \/ CurrentDone \/ ChangesDone
  BY <1>5 DEF DetectorDone, CurrentDone, ChangesDone
<1>6. CASE UNCHANGED vars
  BY <1>6 DEF vars, reader, currentWriter, changesWriter
<1>7. QED
  BY <1>1, <1>2, <1>3, <1>4, <1>5, <1>6 DEF Next

-----------------------------------------------------------------------------
\* The reader's part of the invariant, without the condition on the ids.
InOrder ==
    /\ \A i \in Known, h \in handled : i < h => i \in handled
    /\ Running => SentUpToMarker /\ BatchInOrder /\ ChannelInOrder

\* The find returns the first of what lies behind the marker.
LEMMA FirstOfFact ==
  ASSUME NEW S, S \subseteq Ids, NEW n \in Nat
  PROVE  /\ FirstOf(S, n) \subseteq S
         /\ \A b \in FirstOf(S, n), i \in S : i < b => i \in FirstOf(S, n)
<1>1. IsFiniteSet(Ids) /\ Ids \subseteq Nat
  <2>1. MaxId \in Nat
    BY MonitorAssumption
  <2>2. IsFiniteSet(1 .. MaxId)
    BY <2>1, FS_Interval
  <2>3. QED
    BY <2>1, <2>2 DEF Ids
<1> SUFFICES ASSUME NEW b \in FirstOf(S, n), NEW i \in S, i < b
             PROVE  i \in FirstOf(S, n)
  BY DEF FirstOf
<1> DEFINE below(k) == {j \in S : j <= k}
<1>2. below(i) \subseteq below(b) /\ below(b) \subseteq Ids
  <2>1. b \in Nat /\ i \in Nat /\ \A j \in S : j \in Nat
    BY <1>1 DEF FirstOf
  <2>2. \A j \in S : j <= i => j <= b
    BY <2>1
  <2>3. QED
    BY <2>2
<1>3. IsFiniteSet(below(b))
  BY <1>1, <1>2, FS_Subset
<1>4. /\ Cardinality(below(i)) \in Nat /\ Cardinality(below(b)) \in Nat
      /\ Cardinality(below(i)) <= Cardinality(below(b))
  BY <1>2, <1>3, FS_Subset, FS_CardinalityType
<1>5. Cardinality(below(b)) <= n
  BY DEF FirstOf
<1>6. Cardinality(below(i)) <= n
  BY <1>4, <1>5
<1>7. QED
  BY <1>6 DEF FirstOf

\* Sending the oldest of the batch: whatever is older lies before the marker.
LEMMA SendStep ==
  ASSUME TypeOK, InOrder, SendResponse
  PROVE  InOrder'
<1>1. PICK m \in Oldest(batch) : Send(m)
  BY DEF SendResponse
<1>2. /\ m \in batch /\ m \in Found /\ m \in Known
      /\ \A j \in batch : m <= j
      /\ \A i \in Found : i < m => FALSE
  <2>1. m \in batch /\ (\A j \in batch : m <= j) /\ batch \subseteq Found
    BY DEF Oldest, InOrder, SendResponse, BatchInOrder
  <2>2. Known \subseteq Nat
    BY MonitorAssumption DEF TypeOK, Ids
  <2>3. QED
    BY <2>1, <2>2 DEF InOrder, SendResponse, BatchInOrder, Found
<1>3. /\ Known \subseteq Nat /\ Known' = Known
      /\ UNCHANGED <<handled, phase>> /\ Running
  BY MonitorAssumption DEF TypeOK, Ids, SendResponse, history, Known
<1>4. /\ marker'.id = m /\ marker'.op = "$gt"
      /\ batch' = batch \ {m} /\ readCh' = Append(readCh, m)
  BY <1>1 DEF Send, Reading
<1>5. Found' = {i \in Known : i > m}
  BY <1>3, <1>4 DEF Found
<1>6. \A i \in Known : i < m => i \in handled \/ i \in ToSet(readCh)
  BY <1>2, <1>3 DEF InOrder, SentUpToMarker
<1>7. ToSet(readCh') = ToSet(readCh) \cup {m}
  BY <1>2, <1>4, AppendElements DEF TypeOK
<1>8. SentUpToMarker'
  <2> SUFFICES ASSUME NEW i \in Known, ~(i > m)
               PROVE  i \in handled \/ i \in ToSet(readCh')
    BY <1>3, <1>5 DEF SentUpToMarker
  <2>1. i = m \/ i < m
    BY <1>2, <1>3
  <2>2. QED
    BY <1>6, <1>7, <2>1
<1>9. BatchInOrder'
  <2>1. \A i \in Found' : i \in Found
    <3>1. marker.id \in Nat /\ m \in Nat
      <4>1. marker.id \in 0 .. MaxId
        BY DEF TypeOK
      <4>2. QED
        BY <1>2, <1>3, <4>1, MonitorAssumption
    <3>2. m > marker.id \/ m = marker.id
      BY <1>2 DEF Found
    <3>3. \A i \in Known : i > m => i > marker.id
      BY <1>3, <3>1, <3>2
    <3>4. QED
      BY <1>5, <3>3 DEF Found
  <2>2. \A b \in batch' : b \in Found'
    <3>1. \A b \in batch : b \in Known
      BY DEF TypeOK
    <3>2. QED
      BY <1>2, <1>3, <1>4, <1>5, <3>1
  <2>3. \A b \in batch', i \in Found' : i < b => i \in batch'
    <3>1. \A b \in batch, i \in Found : i < b => i \in batch
      BY <1>3 DEF InOrder, BatchInOrder
    <3>2. \A i \in Found' : i # m
      BY <1>3, <1>5
    <3>3. QED
      BY <1>4, <2>1, <3>1, <3>2
  <2>4. QED
    BY <2>2, <2>3 DEF BatchInOrder
<1>10. ChannelInOrder'
  <2>1. /\ Len(readCh) \in Nat /\ DOMAIN readCh = 1 .. Len(readCh)
        /\ DOMAIN readCh' = 1 .. Len(readCh) + 1
        /\ \A k \in 1 .. Len(readCh) : readCh'[k] = readCh[k]
        /\ readCh'[Len(readCh) + 1] = m
    BY <1>2, <1>4, AppendProperties, LenProperties DEF TypeOK
  <2> SUFFICES ASSUME NEW k \in DOMAIN readCh', NEW i \in Known, i < readCh'[k], i \notin handled
               PROVE  \E l \in DOMAIN readCh' : l < k /\ readCh'[l] = i
    BY <1>3 DEF ChannelInOrder
  <2>2. CASE k \in DOMAIN readCh
    <3>1. PICK l \in DOMAIN readCh : l < k /\ readCh[l] = i
      BY <1>3, <2>1, <2>2 DEF InOrder, ChannelInOrder
    <3>2. QED
      BY <2>1, <3>1
  <2>3. CASE k = Len(readCh) + 1
    <3>1. i \in ToSet(readCh)
      BY <1>6, <2>1, <2>3
    <3>2. PICK l \in DOMAIN readCh : readCh[l] = i
      BY <3>1 DEF ToSet
    <3>3. QED
      BY <2>1, <2>3, <3>2
  <2>4. QED
    BY <2>1, <2>2, <2>3
<1>11. QED
  BY <1>3, <1>8, <1>9, <1>10 DEF InOrder

\* Handling the first of the channel: what is older has been handled.
LEMMA DetectStep ==
  ASSUME TypeOK, InOrder, Detect
  PROVE  InOrder'
<1> DEFINE m == Head(readCh)
<1>1. /\ Running /\ Known' = Known /\ Known \subseteq Nat
      /\ UNCHANGED <<phase, marker, batch>>
      /\ handled' = handled \cup {m} /\ readCh' = Tail(readCh) /\ readCh # <<>>
  BY MonitorAssumption DEF Detect, TypeOK, Ids, Known
<1>2. /\ Len(readCh) \in Nat \ {0} /\ DOMAIN readCh = 1 .. Len(readCh)
      /\ DOMAIN readCh' = 1 .. Len(readCh) - 1
      /\ \A k \in 1 .. Len(readCh) - 1 : readCh'[k] = readCh[k + 1]
      /\ m = readCh[1] /\ m \in Known
  BY <1>1, HeadTailProperties, LenProperties, EmptySeq DEF TypeOK
<1>3. \A i \in Known : i < m => i \in handled
  BY <1>1, <1>2 DEF InOrder, ChannelInOrder
<1>4. \A i \in Known, h \in handled' : i < h => i \in handled'
  BY <1>1, <1>3 DEF InOrder
<1>5. SentUpToMarker'
  <2>1. ToSet(readCh) = {m} \cup ToSet(readCh')
    BY <1>1, TailElements DEF TypeOK
  <2>2. QED
    BY <1>1, <2>1 DEF InOrder, SentUpToMarker, Found
<1>6. BatchInOrder'
  BY <1>1 DEF InOrder, BatchInOrder, Found
<1>7. ChannelInOrder'
  <2> SUFFICES ASSUME NEW k \in 1 .. Len(readCh) - 1, NEW i \in Known,
                      i < readCh[k + 1], i \notin handled'
               PROVE  \E l \in DOMAIN readCh' : l < k /\ readCh'[l] = i
    BY <1>1, <1>2 DEF ChannelInOrder
  <2>1. k + 1 \in DOMAIN readCh
    BY <1>2
  <2>2. PICK l \in DOMAIN readCh : l < k + 1 /\ readCh[l] = i
    BY <1>1, <2>1 DEF InOrder, ChannelInOrder
  <2>3. l # 1
    BY <1>1, <1>2, <2>2
  <2>4. /\ l - 1 \in 1 .. Len(readCh) - 1 /\ l - 1 < k
        /\ readCh'[l - 1] = i
    BY <1>2, <2>2, <2>3
  <2>5. QED
    BY <1>2, <2>4
<1>8. QED
  BY <1>1, <1>4, <1>5, <1>6, <1>7 DEF InOrder

\* A new response has the greatest id of all, so it lies behind the marker and
\* behind everything that was read.
LEMMA InsertStep ==
  ASSUME TypeOK, InOrder, Running => marker.id \in Known \cup {0},
         NEW i \in Ids, NEW r \in Response, ResponseInserted(i, r), Skew \notin happened'
  PROVE  InOrder'
<1>1. /\ Known' = Known \cup {i} /\ i \notin Known
      /\ UNCHANGED <<phase, marker, batch, readCh, handled>>
  BY DEF ResponseInserted, Known, reader
<1>2. i \in Nat \ {0} /\ Known \subseteq Nat
  BY MonitorAssumption DEF TypeOK, Ids
<1>3. \A j \in Known : j < i
  <2>1. \A j \in Known : ~(i < j)
    BY DEF ResponseInserted
  <2>2. QED
    BY <1>1, <1>2, <2>1
<1>4. handled \subseteq Known /\ batch \subseteq Known
      /\ \A k \in DOMAIN readCh : readCh[k] \in Known
  BY LenProperties, ElementOfSeq DEF TypeOK
<1>5. \A j \in Known', h \in handled' : j < h => j \in handled'
  BY <1>1, <1>2, <1>3, <1>4 DEF InOrder
<1>6. ASSUME Running PROVE SentUpToMarker' /\ BatchInOrder' /\ ChannelInOrder'
  <2>1. Found' = Found \cup {i}
    <3>1. marker.id \in Nat /\ (marker.id \in Known \/ marker.id = 0)
      <4>1. marker.id \in 0 .. MaxId
        BY DEF TypeOK
      <4>2. QED
        BY <1>6, <4>1, MonitorAssumption
    <3>2. i > marker.id
      BY <1>2, <1>3, <3>1
    <3>3. QED
      BY <1>1, <3>2 DEF Found
  <2>2. SentUpToMarker'
    BY <1>1, <1>6, <2>1 DEF InOrder, SentUpToMarker
  <2>3. BatchInOrder'
    BY <1>1, <1>2, <1>3, <1>4, <1>6, <2>1 DEF InOrder, BatchInOrder
  <2>4. ChannelInOrder'
    <3> SUFFICES ASSUME NEW k \in DOMAIN readCh, NEW j \in Known', j < readCh[k]
                 PROVE  j \in handled \/ \E l \in DOMAIN readCh : l < k /\ readCh[l] = j
      BY <1>1 DEF ChannelInOrder
    <3>1. readCh[k] < i /\ readCh[k] \in Nat
      BY <1>2, <1>3, <1>4
    <3>2. j \in Known
      BY <1>1, <1>2, <3>1
    <3>3. QED
      BY <1>6, <3>2 DEF InOrder, ChannelInOrder
  <2>5. QED
    BY <2>2, <2>3, <2>4
<1>7. QED
  BY <1>1, <1>5, <1>6 DEF InOrder, Running

\* A new process begins where everything before was handled.
LEMMA StartStep ==
  ASSUME TypeOK, DownIsEmpty, CitesHandled, InOrder, Start
  PROVE  InOrder' /\ marker'.id \in Known' \cup {0}
<1>1. /\ Known' = Known /\ Known \subseteq Nat \ {0}
      /\ UNCHANGED <<batch, readCh, handled>>
      /\ batch = {} /\ readCh = <<>>
  BY MonitorAssumption DEF Start, TypeOK, Ids, DownIsEmpty, Known
<1>2. /\ marker'.id \in Known \cup {0}
      /\ \/ marker'.op = "$gt" /\ marker'.id \in handled \cup {0}
         \/ marker'.op = "$gte" /\ marker'.id \in Known /\ \A j \in Known : marker'.id <= j
  BY MarkerType DEF Start
<1>3. SentUpToMarker'
  <2> SUFFICES ASSUME NEW i \in Known, i \notin Found' PROVE i \in handled
    BY <1>1 DEF SentUpToMarker
  <2>1. i \in Nat \ {0} /\ marker'.id \in Nat
    <3>1. marker'.id \in 0 .. MaxId
      BY MarkerType DEF Start
    <3>2. QED
      BY <1>1, <3>1, MonitorAssumption
  <2>2. ~(i > marker'.id) /\ ~(marker'.op = "$gte" /\ i = marker'.id)
    BY <1>1 DEF Found
  <2>3. marker'.id \in handled
    BY <1>2, <2>1, <2>2
  <2>4. i = marker'.id \/ i < marker'.id
    BY <2>1, <2>2
  <2>5. QED
    BY <2>3, <2>4 DEF InOrder
<1>4. BatchInOrder' /\ ChannelInOrder'
  BY <1>1 DEF BatchInOrder, ChannelInOrder
<1>5. QED
  BY <1>1, <1>2, <1>3, <1>4 DEF InOrder

\* The invariant of the reader over every step.
LEMMA ReaderStep ==
  ASSUME TypeOK, DownIsEmpty, ReaderInv, [Next]_vars
  PROVE  ReaderInv'
<1>1. CitesHandled'
  BY CitesStep DEF ReaderInv
<1>2. Skew \notin happened' => Skew \notin happened
  BY DEF Next, Goroutines, ResponseInserted, Start, FindResponses, SendResponse, Detect, SendCurrent,
         SendChange, TakeCurrent, SaveCurrent, BufferChange, FlushDue, SaveChanges, Stop,
         DetectorDone, CurrentDone, ChangesDone, Exit, Crash, vars, history
<1>3. Skew \notin happened => InOrder
  BY DEF ReaderInv, NothingPassedOver, InOrder
<1>4. SUFFICES /\ (Running => marker.id \in Known \cup {0})'
               /\ Skew \notin happened' => InOrder'
  BY <1>1 DEF ReaderInv, NothingPassedOver, InOrder
<1>5. Running => marker.id \in Known \cup {0}
  BY DEF ReaderInv
<1>6. ASSUME NEW i \in Ids, NEW r \in Response, ResponseInserted(i, r)
      PROVE  /\ (Running => marker.id \in Known \cup {0})'
             /\ Skew \notin happened' => InOrder'
  <2>1. Known' = Known \cup {i} /\ UNCHANGED <<phase, marker>>
    BY <1>6 DEF ResponseInserted, Known, reader
  <2>2. QED
    BY <1>2, <1>3, <1>5, <1>6, <2>1, InsertStep DEF Running
<1>7. CASE Start
  <2>1. marker'.id \in Known' \cup {0}
    BY <1>7, MarkerType DEF Start, ReaderInv, Known
  <2>2. Skew \notin happened' => InOrder'
    BY <1>2, <1>3, <1>7, StartStep DEF ReaderInv
  <2>3. QED
    BY <2>1, <2>2
<1>8. CASE FindResponses
  <2>1. /\ UNCHANGED <<responses, phase, marker, readCh, handled>>
        /\ batch' = FirstOf(Found, ReadLimit)
    BY <1>8 DEF FindResponses, history
  <2>2. Found \subseteq Ids /\ ReadLimit \in Nat
    BY MonitorAssumption DEF Found, TypeOK
  <2>3. BatchInOrder'
    BY <2>1, <2>2, FirstOfFact DEF BatchInOrder, Found, Known
  <2>4. QED
    BY <1>2, <1>3, <1>5, <2>1, <2>3
       DEF InOrder, SentUpToMarker, ChannelInOrder, Found, Known, Running
<1>9. CASE SendResponse
  <2>1. marker'.id \in Known'
    <3>1. PICK m \in batch : Send(m)
      BY <1>9 DEF SendResponse, Oldest
    <3>2. QED
      BY <1>9, <3>1 DEF Send, Reading, SendResponse, TypeOK, Known
  <2>2. QED
    BY <1>2, <1>3, <1>9, <2>1, SendStep
<1>10. CASE Detect
  <2>1. UNCHANGED <<responses, phase, marker>>
    BY <1>10 DEF Detect
  <2>2. QED
    BY <1>2, <1>3, <1>5, <1>10, <2>1, DetectStep DEF Known, Running
<1>11. CASE Exit \/ Crash
  <2>1. Vanish
    BY <1>11 DEF Exit, Crash
  <2>2. QED
    BY <1>2, <1>3, <2>1 DEF Vanish, InOrder, Running, Known
<1>12. CASE UNCHANGED <<responses, marker, batch, readCh, handled>> /\ (Running' => Running)
  BY <1>2, <1>3, <1>5, <1>12
     DEF InOrder, SentUpToMarker, BatchInOrder, ChannelInOrder, Found, Known
<1>13. QED
  <2>1. CASE SendCurrent \/ SendChange \/ TakeCurrent \/ SaveCurrent \/ FlushDue \/ SaveChanges
    BY <1>12, <2>1 DEF SendCurrent, SendChange, TakeCurrent, SaveCurrent, FlushDue,
                       SaveChanges, reader, history, Running
  <2>2. CASE BufferChange(TRUE) \/ BufferChange(FALSE)
    BY <1>12, <2>2 DEF BufferChange, reader, history, Running
  <2>3. CASE Stop \/ DetectorDone \/ CurrentDone \/ ChangesDone
    BY <1>12, <2>3 DEF Stop, DetectorDone, CurrentDone, ChangesDone, reader, history, Running
  <2>4. CASE UNCHANGED vars
    BY <1>12, <2>4 DEF vars, reader, history, Running
  <2>5. QED
    BY <1>6, <1>7, <1>8, <1>9, <1>10, <1>11, <2>1, <2>2, <2>3, <2>4 DEF Next, Goroutines

-----------------------------------------------------------------------------
(***************************************************************************)
(* Counting.  The changes on their way are counted by their places in a    *)
(* sequence: an append adds a place, a receive takes the first one away.   *)
(***************************************************************************)
Places(s, T) == {k \in DOMAIN s : s[k] \in T}

LEMMA PlacesFinite ==
  ASSUME NEW S, NEW s \in Seq(S), NEW T
  PROVE  IsFiniteSet(Places(s, T)) /\ Cardinality(Places(s, T)) \in Nat
<1>1. Len(s) \in Nat /\ DOMAIN s = 1 .. Len(s)
  BY LenProperties
<1>2. IsFiniteSet(1 .. Len(s))
  BY <1>1, FS_Interval
<1>3. Places(s, T) \in SUBSET (1 .. Len(s))
  BY <1>1 DEF Places
<1>4. QED
  BY <1>2, <1>3, FS_Subset, FS_CardinalityType

LEMMA PlacesAppend ==
  ASSUME NEW S, NEW s \in Seq(S), NEW e \in S, NEW T
  PROVE  Cardinality(Places(Append(s, e), T)) =
            Cardinality(Places(s, T)) + (IF e \in T THEN 1 ELSE 0)
<1> DEFINE n == Len(s) + 1
<1>1. /\ Append(s, e) \in Seq(S) /\ Len(Append(s, e)) = n
      /\ \A i \in 1 .. Len(s) : Append(s, e)[i] = s[i]
      /\ Append(s, e)[n] = e
  BY AppendProperties
<1>2. /\ Len(s) \in Nat /\ DOMAIN s = 1 .. Len(s) /\ DOMAIN Append(s, e) = 1 .. n
  BY <1>1, LenProperties
<1>3. /\ 1 .. n = (1 .. Len(s)) \cup {n} /\ n \notin 1 .. Len(s)
  BY <1>2
<1> HIDE DEF n
<1>4. n \notin Places(s, T)
  BY <1>2, <1>3 DEF Places
<1>5. CASE e \in T
  <2>1. Places(Append(s, e), T) = Places(s, T) \cup {n}
    BY <1>1, <1>2, <1>3, <1>5 DEF Places
  <2>2. QED
    BY <1>4, <1>5, <2>1, PlacesFinite, FS_AddElement
<1>6. CASE e \notin T
  <2>1. Places(Append(s, e), T) = Places(s, T)
    BY <1>1, <1>2, <1>3, <1>6 DEF Places
  <2>2. QED
    BY <1>6, <2>1, PlacesFinite
<1>7. QED
  BY <1>5, <1>6

LEMMA PlacesTail ==
  ASSUME NEW S, NEW s \in Seq(S), s # <<>>, NEW T
  PROVE  Cardinality(Places(s, T)) =
            Cardinality(Places(Tail(s), T)) + (IF Head(s) \in T THEN 1 ELSE 0)
<1> DEFINE A == Places(s, T) \ {1}
           B == Places(Tail(s), T)
           f == [k \in B |-> k + 1]
<1>1. /\ Tail(s) \in Seq(S) /\ Len(Tail(s)) = Len(s) - 1
      /\ \A i \in 1 .. Len(Tail(s)) : Tail(s)[i] = s[i + 1]
      /\ Head(s) = s[1]
  BY HeadTailProperties
<1>2. /\ Len(s) \in Nat \ {0} /\ DOMAIN s = 1 .. Len(s)
      /\ DOMAIN Tail(s) = 1 .. Len(s) - 1
  BY <1>1, LenProperties, EmptySeq
<1>3. /\ B \subseteq 1 .. Len(s) - 1
      /\ \A k \in 1 .. Len(s) - 1 : k \in B <=> s[k + 1] \in T
  BY <1>1, <1>2 DEF Places
<1>4. A = {k \in 2 .. Len(s) : s[k] \in T}
  <2>1. \A k : (k \in 1 .. Len(s) /\ k # 1) <=> k \in 2 .. Len(s)
    BY <1>2
  <2>2. QED
    BY <1>2, <2>1 DEF Places
<1>5. f \in Bijection(B, A)
  <2>1. \A k \in B : k + 1 \in A
    <3>1. \A k \in B : k \in 1 .. Len(s) - 1 /\ s[k + 1] \in T
      BY <1>3
    <3>2. \A k \in 1 .. Len(s) - 1 : k + 1 \in 2 .. Len(s)
      BY <1>2
    <3>3. QED
      BY <1>4, <3>1, <3>2
  <2>2. \A k, l \in B : k + 1 = l + 1 => k = l
    BY <1>2, <1>3
  <2>3. \A a \in A : \E k \in B : k + 1 = a
    <3> SUFFICES ASSUME NEW a \in A PROVE \E k \in B : k + 1 = a
      OBVIOUS
    <3>1. a \in 2 .. Len(s) /\ s[a] \in T
      BY <1>4
    <3>2. a - 1 \in 1 .. Len(s) - 1 /\ (a - 1) + 1 = a
      BY <1>2, <3>1
    <3>3. a - 1 \in B
      BY <1>3, <3>1, <3>2
    <3>4. QED
      BY <3>2, <3>3
  <2> HIDE DEF A, B
  <2>4. f \in [B -> A] /\ \A k \in B : f[k] = k + 1
    BY <2>1
  <2>5. f \in Injection(B, A)
    BY <2>2, <2>4 DEF Injection, IsInjective
  <2>6. f \in Surjection(B, A)
    BY <2>3, <2>4 DEF Surjection
  <2>7. QED
    BY <2>5, <2>6 DEF Bijection
<1>6. IsFiniteSet(B) /\ IsFiniteSet(Places(s, T)) /\ Cardinality(Places(s, T)) \in Nat
  BY <1>1, PlacesFinite
<1>7. IsFiniteSet(A) /\ Cardinality(A) = Cardinality(B)
  <2>1. ExistsBijection(B, A)
    BY <1>5 DEF ExistsBijection
  <2>2. QED
    BY <1>6, <2>1, FS_Bijection
<1>8. Cardinality(B) \in Nat
  BY <1>6, FS_CardinalityType
<1>9. 1 \in Places(s, T) <=> Head(s) \in T
  BY <1>1, <1>2 DEF Places
<1>10. Cardinality(A) = IF 1 \in Places(s, T) THEN Cardinality(Places(s, T)) - 1
                        ELSE Cardinality(Places(s, T))
  BY <1>6, FS_RemoveElement
<1>11. SUFFICES Cardinality(Places(s, T)) =
                   Cardinality(B) + (IF Head(s) \in T THEN 1 ELSE 0)
  OBVIOUS
<1> HIDE DEF A, B
<1>12. QED
  <2>1. CASE Head(s) \in T
    BY <1>6, <1>7, <1>8, <1>9, <1>10, <2>1
  <2>2. CASE Head(s) \notin T
    BY <1>6, <1>7, <1>8, <1>9, <1>10, <2>2
  <2>3. QED
    BY <2>1, <2>2

-----------------------------------------------------------------------------
\* What ChangesInv says as long as nothing went wrong, but for the reader.
AllAccounted == \A c \in Checks : Accounted(c) = Cardinality(Flips(c))

Right == AllAccounted /\ RememberedIsTrue /\ LatestIsLast

\* The changes on their way, as places.
Of(c) == {x \in Change : x.check = c}

Counted ==
    /\ ChangesMade \in Seq(Change)
    /\ \A c \in Checks :
          /\ Accounted(c) = Cardinality(Places(ChangesMade, Of(c)))
                            + Cardinality(Places(changesCh, {c}))
                            + (IF Pending /\ detector.check = c THEN 1 ELSE 0)
          /\ Cardinality(Places(ChangesMade, Of(c))) \in Nat
          /\ Cardinality(Places(changesCh, {c})) \in Nat

LEMMA PlacesCounted == TypeOK => Counted
<1> SUFFICES ASSUME TypeOK PROVE Counted
  OBVIOUS
<1>1. ChangesMade \in Seq(Change) /\ changesCh \in Seq(Checks)
  BY ConcatProperties DEF ChangesMade, TypeOK
<1>2. \A k \in DOMAIN ChangesMade : ChangesMade[k] \in Change
  BY <1>1, LenProperties, ElementOfSeq
<1>3. \A c \in Checks :
         /\ Places(ChangesMade, Of(c)) = {k \in DOMAIN ChangesMade : ChangesMade[k].check = c}
         /\ Places(changesCh, {c}) = {k \in DOMAIN changesCh : changesCh[k] = c}
  BY <1>2 DEF Places, Of
<1>4. QED
  BY <1>1, <1>3, PlacesFinite DEF Accounted, Counted

LEMMA PlacesCountedNext == TypeOK' => Counted'
  BY PlacesCounted, PTL

\* The history of a check changes only when one of its responses is handled.
LEMMA FlipsKept ==
  ASSUME handled' = handled, \A i \in handled : responses'[i] = responses[i], NEW c
  PROVE  HandledOf(c)' = HandledOf(c) /\ Flips(c)' = Flips(c)
<1>1. \A d : HandledOf(d)' = HandledOf(d)
  BY DEF HandledOf
<1>2. \A i \in handled : Before(i)' = Before(i) /\ Before(i) \subseteq handled
  BY <1>1 DEF Before, HandledOf
<1>3. \A i \in handled : Repeats(i)' <=> Repeats(i)
  BY <1>2 DEF Repeats
<1>4. HandledOf(c) \subseteq handled
  BY DEF HandledOf
<1>5. QED
  BY <1>1, <1>3, <1>4 DEF Flips

\* Most steps move a change along, or nothing at all.
LEMMA Quiet ==
  ASSUME Right,
         handled' = handled, \A i \in handled : responses'[i] = responses[i],
         \A c \in Checks : Remembered'[c] = Remembered[c],
         LatestOnItsWay' = LatestOnItsWay,
         \A c \in Checks : Accounted(c)' = Accounted(c)
  PROVE  Right'
<1>1. \A c \in Checks : HandledOf(c)' = HandledOf(c) /\ Flips(c)' = Flips(c)
  BY FlipsKept
<1>2. AllAccounted'
  BY <1>1 DEF Right, AllAccounted
<1>3. RememberedIsTrue'
  <2>1. \A c \in Checks : HandledOf(c) \subseteq handled
    BY DEF HandledOf
  <2>2. QED
    BY <1>1, <2>1 DEF Right, RememberedIsTrue
<1>4. LatestIsLast'
  BY DEF Right, LatestIsLast
<1>5. QED
  BY <1>2, <1>3, <1>4 DEF Right

\* Nothing that the counts are made of has changed.
LEMMA Still ==
  ASSUME UNCHANGED <<statuses, changesCh, Pending, ChangesMade>>,
         Pending => detector'.check = detector.check
  PROVE  /\ LatestOnItsWay' = LatestOnItsWay
         /\ \A c \in Checks : Accounted(c)' = Accounted(c)
  BY DEF LatestOnItsWay, Accounted

\* A change that is sent: the detector's becomes the last in the channel.
LEMMA SendChangeRight ==
  ASSUME TypeOK, TypeOK', Right, SendChange
  PROVE  Right'
<1> DEFINE e == detector.check
<1>1. /\ Pending /\ ~Pending'
      /\ e \in Checks /\ changesCh \in Seq(Checks)
      /\ changesCh' = Append(changesCh, e)
  BY DEF SendChange, TypeOK, Pending, Detecting
<1>2. /\ UNCHANGED <<responses, handled, phase, statuses, statusCurrent>>
      /\ ChangesMade' = ChangesMade
  BY DEF SendChange, database, history, ChangesMade
<1>3. Counted /\ Counted'
  BY PlacesCounted, PlacesCountedNext
<1>4. \A c \in Checks : Accounted(c)' = Accounted(c)
  <2> SUFFICES ASSUME NEW c \in Checks PROVE Accounted(c)' = Accounted(c)
    OBVIOUS
  <2>1. Cardinality(Places(changesCh', {c})) =
          Cardinality(Places(changesCh, {c})) + (IF e = c THEN 1 ELSE 0)
    BY <1>1, PlacesAppend
  <2>2. Accounted(c) = Cardinality(Places(ChangesMade, Of(c)))
                       + Cardinality(Places(changesCh, {c})) + (IF e = c THEN 1 ELSE 0)
    BY <1>1, <1>3 DEF Counted
  <2>3. Accounted(c)' = Cardinality(Places(ChangesMade, Of(c)))
                        + Cardinality(Places(changesCh', {c})) + 0
    BY <1>1, <1>2, <1>3 DEF Counted
  <2>4. /\ Cardinality(Places(ChangesMade, Of(c))) \in Nat
        /\ Cardinality(Places(changesCh, {c})) \in Nat
    BY <1>3 DEF Counted
  <2>5. QED
    BY <2>1, <2>2, <2>3, <2>4
<1>5. LatestOnItsWay' = LatestOnItsWay
  <2>1. /\ Append(changesCh, e) \in Seq(Checks)
        /\ Len(Append(changesCh, e)) = Len(changesCh) + 1
        /\ Append(changesCh, e)[Len(changesCh) + 1] = e
    BY <1>1, AppendProperties
  <2>2. changesCh' # <<>> /\ Last(changesCh') = e
    <3>1. Len(changesCh) \in Nat
      BY <1>1, LenProperties
    <3>2. QED
      BY <1>1, <2>1, <3>1, EmptySeq DEF Last
  <2>3. QED
    BY <1>1, <1>2, <2>2 DEF LatestOnItsWay
<1>6. QED
  BY <1>2, <1>4, <1>5, Quiet DEF Remembered

\* A change that is taken: the first in the channel becomes the last one made.
LEMMA BufferChangeRight ==
  ASSUME TypeOK, TypeOK', Right, NEW due \in BOOLEAN, BufferChange(due)
  PROVE  Right'
<1> DEFINE h == Head(changesCh)
           x == [check |-> h, status |-> statuses[h]]
<1>1. /\ changesCh \in Seq(Checks) /\ changesCh # <<>> /\ h \in Checks
      /\ changesCh' = Tail(changesCh)
      /\ buffer' = Append(buffer, x)
      /\ UNCHANGED detector
  BY HeadTailProperties DEF BufferChange, TypeOK
<1>2. UNCHANGED <<responses, handled, phase, statuses, statusCurrent, statusChanges>>
  BY DEF BufferChange, database, history
<1>3. x \in Change /\ x.check = h /\ x.status.resp = statuses[h].resp
  BY <1>1 DEF TypeOK, Change
<1> HIDE DEF x
<1>4. ChangesMade' = Append(ChangesMade, x) /\ ChangesMade \in Seq(Change)
  <2>1. /\ statusChanges \in Seq(Change) /\ buffer \in Seq(Change) /\ <<x>> \in Seq(Change)
    BY <1>3 DEF TypeOK
  <2>2. Append(buffer, x) = buffer \o <<x>>
    BY <1>3, <2>1, AppendIsConcat
  <2>3. (statusChanges \o buffer) \o <<x>> = statusChanges \o (buffer \o <<x>>)
    BY <2>1, ConcatAssociative
  <2>4. statusChanges \o buffer \in Seq(Change)
    BY <2>1, ConcatProperties
  <2>5. Append(statusChanges \o buffer, x) = (statusChanges \o buffer) \o <<x>>
    BY <1>3, <2>4, AppendIsConcat
  <2>6. QED
    BY <1>1, <1>2, <2>2, <2>3, <2>4, <2>5 DEF ChangesMade
<1>5. Counted /\ Counted'
  BY PlacesCounted, PlacesCountedNext
<1>6. \A c \in Checks : Accounted(c)' = Accounted(c)
  <2> SUFFICES ASSUME NEW c \in Checks PROVE Accounted(c)' = Accounted(c)
    OBVIOUS
  <2>1. Cardinality(Places(changesCh, {c})) =
          Cardinality(Places(changesCh', {c})) + (IF h = c THEN 1 ELSE 0)
    BY <1>1, PlacesTail
  <2>2. x \in Of(c) <=> h = c
    BY <1>3 DEF Of
  <2>3. Cardinality(Places(ChangesMade', Of(c))) =
          Cardinality(Places(ChangesMade, Of(c))) + (IF h = c THEN 1 ELSE 0)
    BY <1>3, <1>4, <2>2, PlacesAppend
  <2> DEFINE p == IF Pending /\ detector.check = c THEN 1 ELSE 0
  <2>4. Accounted(c) = Cardinality(Places(ChangesMade, Of(c)))
                       + Cardinality(Places(changesCh, {c})) + p
    BY <1>5 DEF Counted
  <2>5. Accounted(c)' = Cardinality(Places(ChangesMade', Of(c)))
                        + Cardinality(Places(changesCh', {c})) + p
    BY <1>1, <1>5 DEF Counted, Pending
  <2>6. /\ Cardinality(Places(ChangesMade, Of(c))) \in Nat
        /\ Cardinality(Places(changesCh', {c})) \in Nat
        /\ p \in Nat
    BY <1>5 DEF Counted
  <2> HIDE DEF p
  <2>7. QED
    BY <2>1, <2>3, <2>4, <2>5, <2>6
<1>7. LatestOnItsWay' = LatestOnItsWay
  <2>1. ChangesMade' # <<>> /\ Last(ChangesMade') = x
    <3>1. /\ Append(ChangesMade, x) \in Seq(Change)
          /\ Len(Append(ChangesMade, x)) = Len(ChangesMade) + 1
          /\ Append(ChangesMade, x)[Len(ChangesMade) + 1] = x
      BY <1>3, <1>4, AppendProperties
    <3>2. Len(ChangesMade) \in Nat
      BY <1>4, LenProperties
    <3>3. QED
      BY <1>4, <3>1, <3>2, EmptySeq DEF Last
  <2>2. /\ Tail(changesCh) \in Seq(Checks)
        /\ Len(Tail(changesCh)) = Len(changesCh) - 1
        /\ \A i \in 1 .. Len(Tail(changesCh)) : Tail(changesCh)[i] = changesCh[i + 1]
        /\ h = changesCh[1]
    BY <1>1, HeadTailProperties
  <2>3. Len(changesCh) \in Nat \ {0}
    BY <1>1, LenProperties, EmptySeq
  <2>4. CASE Tail(changesCh) = <<>>
    <3>1. Len(changesCh) = 1
      <4>1. Len(Tail(changesCh)) = 0
        BY <2>2, <2>4, EmptySeq
      <4>2. Len(changesCh) - 1 = 0
        BY <2>2, <4>1
      <4>3. QED
        BY <2>3, <4>2
    <3>2. Last(changesCh) = h
      BY <2>2, <3>1 DEF Last
    <3>3. QED
      BY <1>1, <1>2, <1>3, <2>1, <2>4, <3>2 DEF LatestOnItsWay, Pending
  <2>5. CASE Tail(changesCh) # <<>>
    <3>1. Len(Tail(changesCh)) \in Nat \ {0}
      BY <2>2, <2>5, LenProperties, EmptySeq
    <3>2. Last(Tail(changesCh)) = Last(changesCh)
      <4>1. Tail(changesCh)[Len(changesCh) - 1] = changesCh[(Len(changesCh) - 1) + 1]
        BY <2>2, <2>3, <3>1
      <4>2. (Len(changesCh) - 1) + 1 = Len(changesCh)
        BY <2>3
      <4>3. QED
        BY <2>2, <4>1, <4>2 DEF Last
    <3>3. QED
      BY <1>1, <1>2, <2>5, <3>2 DEF LatestOnItsWay, Pending
  <2>6. QED
    BY <2>4, <2>5
<1>8. QED
  BY <1>2, <1>6, <1>7, Quiet DEF Remembered

\* What handling the head of the channel does to the history of the checks.
LEMMA DetectFacts ==
  ASSUME TypeOK, ReaderInv, Skew \notin happened, RememberedIsTrue, Detect, ToHandleInOrder,
         NEW m, m = Head(readCh), NEW c, c = responses[m].check
  PROVE  /\ m \in Known /\ m \in Nat /\ c \in Checks /\ Known \subseteq Nat
         /\ handled \subseteq Known /\ handled' = handled \cup {m}
         /\ responses[m].status \in {"OK", "NOK"}
         /\ UNCHANGED <<responses, phase, changesCh, ChangesMade>>
         /\ Remembered = statuses /\ Remembered' = statuses' /\ Running
         /\ ~Pending
         /\ \A d \in Checks : statuses[d] \in Status /\ statuses[d].resp < m
         /\ \A i \in Known : i < m => i \in handled
         /\ \A h \in handled : m < h => m \in handled
<1>1. /\ Running /\ detector.pc = "select"
      /\ UNCHANGED <<responses, phase, changesCh, ChangesMade>>
      /\ readCh # <<>> /\ handled' = handled \cup {m}
  BY DEF Detect, ChangesMade, changesWriter, database
<1>2. Known \subseteq Nat /\ handled \subseteq Known
  BY MonitorAssumption DEF TypeOK, Ids
<1>3. /\ m = readCh[1] /\ m \in Known /\ 1 \in DOMAIN readCh
      /\ DOMAIN readCh = 1 .. Len(readCh)
  BY <1>1, HeadTailProperties, LenProperties, EmptySeq DEF TypeOK
<1>4. m \in ToHandle
  BY <1>3 DEF ToHandle, ToSet
<1>5. c \in Checks /\ responses[m].status \in {"OK", "NOK"}
  <2>1. responses[m] \in Response
    BY <1>3 DEF TypeOK
  <2>2. QED
    BY <2>1 DEF Response
<1>6. \A d \in Checks : statuses[d] \in Status /\ statuses[d].resp < m
  BY <1>4 DEF ToHandleInOrder, TypeOK
<1>7. \A i \in Known : i < m => i \in handled
  <2> SUFFICES ASSUME NEW i \in Known, i < m, i \notin handled PROVE FALSE
    OBVIOUS
  <2>1. PICK l \in DOMAIN readCh : l < 1 /\ readCh[l] = i
    BY <1>1, <1>3 DEF ReaderInv, ChannelInOrder
  <2>2. QED
    BY <1>3, <2>1
<1>8. \A h \in handled : m < h => m \in handled
  BY <1>3 DEF ReaderInv, NothingPassedOver
<1>9. Remembered = statuses /\ Remembered' = statuses' /\ ~Pending
  BY <1>1 DEF Remembered, Running, Pending
<1>10. QED
  BY <1>1, <1>2, <1>3, <1>5, <1>6, <1>7, <1>8, <1>9

\* A response that an earlier process has handled: it changes nothing.
LEMMA DetectAgain ==
  ASSUME TypeOK, ReaderInv, Skew \notin happened, Right, Detect, ToHandleInOrder,
         Head(readCh) \in handled
  PROVE  Right' /\ UNCHANGED statuses
<1>1. PICK m : m = Head(readCh)
  OBVIOUS
<1>2. PICK c : c = responses[m].check
  OBVIOUS
<1>3. /\ c \in Checks /\ handled' = handled
      /\ UNCHANGED <<responses, phase, changesCh, ChangesMade>>
      /\ Remembered = statuses /\ Remembered' = statuses' /\ ~Pending
      /\ m \in Nat /\ statuses[c] \in Status /\ statuses[c].resp < m
  BY <1>1, <1>2, DetectFacts DEF Right
<1>4. m \in HandledOf(c)
  BY <1>1, <1>2 DEF HandledOf
<1>5. statuses[c].resp <= m
  BY <1>3 DEF Status
<1>6. responses[m].status = statuses[c].cur
  BY <1>3, <1>4, <1>5 DEF Right, RememberedIsTrue
<1>7. UNCHANGED <<statuses, detector>>
  BY <1>1, <1>2, <1>6 DEF Detect
<1>8. Pending' = Pending /\ detector'.check = detector.check
  BY <1>7 DEF Pending
<1>9. LatestOnItsWay' = LatestOnItsWay /\ \A d \in Checks : Accounted(d)' = Accounted(d)
  BY <1>3, <1>7, <1>8, Still
<1>10. Right'
  BY <1>3, <1>7, <1>9, Quiet
<1>11. QED
  BY <1>7, <1>10

\* A new response is the last of its check: it is a change if its status is
\* not the remembered one.
LEMMA NewFlips ==
  ASSUME handled \subseteq Nat, UNCHANGED responses, RememberedIsTrue,
         Remembered = statuses, NEW m \in Nat, m \notin handled, handled' = handled \cup {m},
         \A h \in handled : h < m,
         NEW c \in Checks, c = responses[m].check,
         responses[m].status \in {"OK", "NOK"}, statuses[c] \in Status
  PROVE  /\ HandledOf(c)' = HandledOf(c) \cup {m}
         /\ \A d \in Checks : d # c => HandledOf(d)' = HandledOf(d) /\ Flips(d)' = Flips(d)
         /\ m \notin Flips(c)
         /\ Flips(c)' = IF statuses[c].cur = responses[m].status THEN Flips(c)
                        ELSE Flips(c) \cup {m}
<1>1. HandledOf(c)' = HandledOf(c) \cup {m} /\ \A d : d # c => HandledOf(d)' = HandledOf(d)
  BY DEF HandledOf
<1>2. \A i \in handled : Before(i)' = Before(i)
  <2> SUFFICES ASSUME NEW i \in handled PROVE Before(i)' = Before(i)
    OBVIOUS
  <2>1. ~(m < i)
    <3>1. i < m /\ i \in Nat
      OBVIOUS
    <3>2. QED
      BY <3>1
  <2>2. CASE responses[i].check = c
    BY <1>1, <2>1, <2>2 DEF Before
  <2>3. CASE responses[i].check # c
    BY <1>1, <2>3 DEF Before
  <2>4. QED
    BY <2>2, <2>3
<1>3. \A i \in handled : Repeats(i)' <=> Repeats(i)
  <2>1. \A i \in handled : Before(i) \subseteq handled
    BY DEF Before, HandledOf
  <2>2. QED
    BY <1>2, <2>1 DEF Repeats
<1>4. Before(m)' = HandledOf(c)
  <2>1. \A j \in HandledOf(c) : j < m
    BY DEF HandledOf
  <2>2. ~(m < m)
    OBVIOUS
  <2>3. QED
    BY <1>1, <2>1, <2>2 DEF Before
<1>5. Repeats(m)' <=> \E j \in HandledOf(c) : \A k \in HandledOf(c) :
                         j <= k => responses[k].status = responses[m].status
  BY <1>4 DEF Repeats
<1>6. ASSUME Repeats(m)' PROVE statuses[c].cur = responses[m].status
  <2>1. PICK j \in HandledOf(c) : \A k \in HandledOf(c) :
           j <= k => responses[k].status = responses[m].status
    BY <1>5, <1>6
  <2>2. /\ statuses[c].resp \in HandledOf(c)
        /\ \A i \in HandledOf(c) : statuses[c].resp <= i =>
              responses[i].status = statuses[c].cur
    BY <2>1 DEF RememberedIsTrue
  <2>3. j \in Nat /\ statuses[c].resp \in Nat
    BY <2>1, <2>2 DEF HandledOf
  <2>4. CASE j <= statuses[c].resp
    BY <2>1, <2>2, <2>3, <2>4
  <2>5. CASE statuses[c].resp <= j
    <3>1. j <= j
      BY <2>3
    <3>2. QED
      BY <2>1, <2>2, <2>5, <3>1
  <2>6. QED
    BY <2>3, <2>4, <2>5
<1>7. ASSUME statuses[c].cur = responses[m].status PROVE Repeats(m)'
  <2>1. statuses[c].cur # "NONE"
    BY <1>7
  <2>2. /\ statuses[c].resp \in HandledOf(c)
        /\ \A i \in HandledOf(c) : statuses[c].resp <= i =>
              responses[i].status = statuses[c].cur
    BY <2>1 DEF RememberedIsTrue
  <2>3. QED
    BY <1>5, <1>7, <2>2
<1>8. \A d \in Checks : HandledOf(d) \subseteq handled
  BY DEF HandledOf
<1>9. \A d \in Checks : d # c => Flips(d)' = Flips(d)
  BY <1>1, <1>3, <1>8 DEF Flips
<1>10. m \notin Flips(c)
  BY <1>8 DEF Flips
<1>11. Flips(c)' = IF statuses[c].cur = responses[m].status THEN Flips(c)
                   ELSE Flips(c) \cup {m}
  <2>1. CASE statuses[c].cur = responses[m].status
    BY <1>1, <1>3, <1>7, <1>8, <2>1 DEF Flips
  <2>2. CASE statuses[c].cur # responses[m].status
    BY <1>1, <1>3, <1>6, <1>8, <2>2 DEF Flips
  <2>3. QED
    BY <2>1, <2>2
<1>12. QED
  BY <1>1, <1>9, <1>10, <1>11

\* A response that no process has handled.
LEMMA DetectNew ==
  ASSUME TypeOK, TypeOK', ReaderInv, Skew \notin happened, Right, Detect, ToHandleInOrder,
         Head(readCh) \notin handled
  PROVE  /\ Right'
         /\ \A d \in Checks : statuses'[d] = statuses[d] \/ statuses'[d].resp = Head(readCh)
<1>1. PICK m : m = Head(readCh)
  OBVIOUS
<1>2. PICK c : c = responses[m].check
  OBVIOUS
<1>3. /\ m \in Known /\ m \in Nat /\ c \in Checks /\ Known \subseteq Nat
      /\ handled \subseteq Known /\ handled' = handled \cup {m}
      /\ responses[m].status \in {"OK", "NOK"}
      /\ UNCHANGED <<responses, phase, changesCh, ChangesMade>>
      /\ Remembered = statuses /\ Remembered' = statuses' /\ Running
      /\ ~Pending
      /\ \A d \in Checks : statuses[d] \in Status /\ statuses[d].resp < m
      /\ \A h \in handled : m < h => m \in handled
  BY <1>1, <1>2, DetectFacts DEF Right
<1>4. \A h \in handled : h < m
  <2> SUFFICES ASSUME NEW h \in handled PROVE h < m
    OBVIOUS
  <2>1. h \in Nat /\ ~(m < h) /\ h # m
    BY <1>1, <1>3
  <2>2. QED
    BY <1>3, <2>1
<1>5. /\ HandledOf(c)' = HandledOf(c) \cup {m}
      /\ \A d \in Checks : d # c => HandledOf(d)' = HandledOf(d) /\ Flips(d)' = Flips(d)
      /\ m \notin Flips(c)
      /\ Flips(c)' = IF statuses[c].cur = responses[m].status THEN Flips(c)
                     ELSE Flips(c) \cup {m}
  <2>1. RememberedIsTrue /\ handled \subseteq Nat /\ m \notin handled
    BY <1>1, <1>3 DEF Right
  <2>2. QED
    BY <1>2, <1>3, <1>4, <2>1, NewFlips
<1>6. CASE statuses[c].cur = responses[m].status
  <2>1. UNCHANGED <<statuses, detector>>
    BY <1>1, <1>2, <1>6 DEF Detect
  <2>2. Pending' = Pending /\ detector'.check = detector.check
    BY <2>1 DEF Pending
  <2>3. LatestOnItsWay' = LatestOnItsWay /\ \A d \in Checks : Accounted(d)' = Accounted(d)
    BY <1>3, <2>1, <2>2, Still
  <2>4. \A d \in Checks : Flips(d)' = Flips(d)
    BY <1>5, <1>6
  <2>5. AllAccounted'
    BY <2>3, <2>4 DEF AllAccounted, Right
  <2>6. RememberedIsTrue'
    <3> SUFFICES ASSUME NEW d \in Checks
                 PROVE  IF statuses[d].cur = "NONE"
                        THEN statuses[d].resp = 0 /\ HandledOf(d)' = {}
                        ELSE /\ statuses[d].resp \in HandledOf(d)'
                             /\ \A i \in HandledOf(d)' : statuses[d].resp <= i =>
                                   responses[i].status = statuses[d].cur
      BY <1>3, <2>1 DEF RememberedIsTrue
    <3>1. CASE d # c
      BY <1>3, <1>5, <3>1 DEF Right, RememberedIsTrue
    <3>2. CASE d = c
      <4>1. statuses[c].cur # "NONE"
        BY <1>3, <1>6
      <4>2. QED
        BY <1>3, <1>5, <1>6, <3>2, <4>1 DEF Right, RememberedIsTrue
    <3>3. QED
      BY <3>1, <3>2
  <2>7. LatestIsLast'
    BY <1>3, <2>1, <2>3 DEF Right, LatestIsLast
  <2>8. QED
    BY <2>1, <2>5, <2>6, <2>7 DEF Right
<1>7. CASE statuses[c].cur # responses[m].status
  <2>1. /\ statuses' = [statuses EXCEPT ![c] = Updated(@, m)]
        /\ detector' = [pc |-> "current", check |-> c]
    BY <1>1, <1>2, <1>7 DEF Detect
  <2>2. /\ \A d \in Checks : d # c => statuses'[d] = statuses[d]
        /\ statuses'[c].resp = m /\ statuses'[c].cur = responses[m].status
    <3>1. statuses'[c] = Updated(statuses[c], m) /\ \A d \in Checks : d # c => statuses'[d] = statuses[d]
      BY <1>3, <2>1 DEF TypeOK
    <3>2. QED
      BY <3>1 DEF Updated
  <2>3. Pending' /\ detector'.check = c
    BY <2>1 DEF Pending
  <2>4. LatestOnItsWay' = m
    BY <2>2, <2>3 DEF LatestOnItsWay
  <2>5. Counted /\ Counted'
    BY PlacesCounted, PlacesCountedNext
  <2>6. \A d \in Checks : /\ Accounted(d) \in Nat
                          /\ Accounted(d)' = Accounted(d) + (IF d = c THEN 1 ELSE 0)
    <3> SUFFICES ASSUME NEW d \in Checks
                 PROVE  /\ Accounted(d) \in Nat
                        /\ Accounted(d)' = Accounted(d) + (IF d = c THEN 1 ELSE 0)
      OBVIOUS
    <3>1. Accounted(d) = Cardinality(Places(ChangesMade, Of(d)))
                         + Cardinality(Places(changesCh, {d})) + 0
      BY <1>3, <2>5 DEF Counted
    <3>2. Accounted(d)' = Cardinality(Places(ChangesMade, Of(d)))
                          + Cardinality(Places(changesCh, {d})) + (IF c = d THEN 1 ELSE 0)
      BY <1>3, <2>3, <2>5 DEF Counted
    <3>3. /\ Cardinality(Places(ChangesMade, Of(d))) \in Nat
          /\ Cardinality(Places(changesCh, {d})) \in Nat
      BY <2>5 DEF Counted
    <3>4. QED
      BY <3>1, <3>2, <3>3
  <2>7. Cardinality(Flips(c)') = Cardinality(Flips(c)) + 1
    <3>1. IsFiniteSet(Flips(c))
      <4>1. MaxId \in Nat /\ IsFiniteSet(1 .. MaxId)
        BY MonitorAssumption, FS_Interval
      <4>2. Flips(c) \in SUBSET (1 .. MaxId)
        BY DEF Flips, HandledOf, TypeOK, Ids
      <4>3. QED
        BY <4>1, <4>2, FS_Subset
    <3>2. QED
      BY <1>5, <1>7, <3>1, FS_AddElement
  <2>8. AllAccounted'
    <3> SUFFICES ASSUME NEW d \in Checks PROVE Accounted(d)' = Cardinality(Flips(d)')
      BY DEF AllAccounted
    <3>1. Accounted(d) = Cardinality(Flips(d))
      BY DEF Right, AllAccounted
    <3>2. CASE d = c
      BY <2>6, <2>7, <3>1, <3>2
    <3>3. CASE d # c
      <4>1. Accounted(d) \in Nat
        BY <2>6
      <4>2. Accounted(d)' = Accounted(d)
        BY <2>6, <3>3, <4>1
      <4>3. QED
        BY <1>5, <3>1, <3>3, <4>2
    <3>4. QED
      BY <3>2, <3>3
  <2>9. RememberedIsTrue'
    <3> SUFFICES ASSUME NEW d \in Checks
                 PROVE  IF statuses'[d].cur = "NONE"
                        THEN statuses'[d].resp = 0 /\ HandledOf(d)' = {}
                        ELSE /\ statuses'[d].resp \in HandledOf(d)'
                             /\ \A i \in HandledOf(d)' : statuses'[d].resp <= i =>
                                   responses[i].status = statuses'[d].cur
      BY <1>3 DEF RememberedIsTrue
    <3>1. CASE d # c
      BY <1>3, <1>5, <2>2, <3>1 DEF Right, RememberedIsTrue
    <3>2. CASE d = c
      <4>1. statuses'[c].cur # "NONE" /\ statuses'[c].resp \in HandledOf(c)'
        BY <1>3, <1>5, <2>2
      <4>2. \A i \in HandledOf(c)' : m <= i => i = m
        <5> SUFFICES ASSUME NEW i \in HandledOf(c), m <= i PROVE FALSE
          BY <1>5
        <5>1. i \in handled
          BY DEF HandledOf
        <5>2. i < m /\ i \in Nat
          BY <1>3, <1>4, <5>1
        <5>3. QED
          BY <1>3, <5>2
      <4>3. QED
        BY <2>2, <3>2, <4>1, <4>2
    <3>3. QED
      BY <3>1, <3>2
  <2>10. LatestIsLast'
    <3> SUFFICES ASSUME NEW d \in Checks PROVE statuses'[d].resp <= m
      BY <1>3, <2>4 DEF LatestIsLast
    <3>1. statuses[d].resp \in Nat /\ statuses[d].resp < m
      BY <1>3 DEF Status
    <3>2. QED
      BY <1>3, <2>2, <3>1
  <2>11. \A d \in Checks : statuses'[d] = statuses[d] \/ statuses'[d].resp = m
    BY <2>2
  <2>12. QED
    BY <1>1, <2>8, <2>9, <2>10, <2>11 DEF Right
<1>8. QED
  BY <1>6, <1>7

\* What is left in the channel comes after the response that was handled.
LEMMA DetectToHandle ==
  ASSUME TypeOK, Detect, ToHandleInOrder,
         \A d \in Checks : statuses'[d] = statuses[d] \/ statuses'[d].resp = Head(readCh)
  PROVE  ToHandleInOrder'
<1>1. /\ UNCHANGED <<responses, marker>> /\ readCh # <<>> /\ readCh' = Tail(readCh)
  BY DEF Detect
<1>2. /\ Len(readCh) \in Nat \ {0} /\ DOMAIN readCh = 1 .. Len(readCh)
      /\ DOMAIN readCh' = 1 .. Len(readCh) - 1
      /\ \A k \in 1 .. Len(readCh) - 1 : readCh'[k] = readCh[k + 1]
      /\ Head(readCh) = readCh[1]
  BY <1>1, HeadTailProperties, LenProperties, EmptySeq DEF TypeOK
<1>3. Found' = Found
  BY <1>1 DEF Found, Known
<1>4. \A k \in DOMAIN readCh' : k + 1 \in DOMAIN readCh /\ 1 < k + 1 /\ readCh'[k] = readCh[k + 1]
  BY <1>2
<1>5. 1 \in DOMAIN readCh
  BY <1>2
<1>6. \A i \in ToHandle' : i \in ToHandle /\ Head(readCh) < i
  <2> SUFFICES ASSUME NEW i \in ToHandle' PROVE i \in ToHandle /\ Head(readCh) < i
    OBVIOUS
  <2>1. CASE i \in Found
    BY <1>2, <1>5, <2>1 DEF ToHandle, ToHandleInOrder
  <2>2. CASE i \in ToSet(readCh')
    <3>1. PICK k \in DOMAIN readCh' : i = readCh'[k]
      BY <2>2 DEF ToSet
    <3>2. i \in ToSet(readCh)
      BY <1>4, <3>1 DEF ToSet
    <3>3. readCh[1] < readCh[k + 1]
      BY <1>4, <1>5 DEF ToHandleInOrder
    <3>4. QED
      BY <1>2, <1>4, <3>1, <3>2, <3>3 DEF ToHandle
  <2>3. QED
    BY <1>3, <2>1, <2>2 DEF ToHandle
<1>7. \A i \in ToHandle', d \in Checks : statuses'[d].resp < i
  BY <1>6 DEF ToHandleInOrder
<1>8. \A k \in DOMAIN readCh' :
         /\ \A l \in DOMAIN readCh' : k < l => readCh'[k] < readCh'[l]
         /\ \A i \in Found' : readCh'[k] < i
  <2> SUFFICES ASSUME NEW k \in DOMAIN readCh'
               PROVE  /\ \A l \in DOMAIN readCh' : k < l => readCh'[k] < readCh'[l]
                      /\ \A i \in Found' : readCh'[k] < i
    OBVIOUS
  <2>1. \A l \in DOMAIN readCh' : k < l => k + 1 < l + 1
    BY <1>2
  <2>2. QED
    BY <1>3, <1>4, <2>1 DEF ToHandleInOrder
<1>9. QED
  BY <1>7, <1>8 DEF ToHandleInOrder

\* Sending the oldest of the batch keeps what is to be handled in order.
LEMMA SendToHandle ==
  ASSUME TypeOK, InOrder, ToHandleInOrder, SendResponse
  PROVE  ToHandleInOrder'
<1>1. PICK m \in Oldest(batch) : Send(m)
  BY DEF SendResponse
<1>2. /\ UNCHANGED <<responses, statuses>> /\ Running
      /\ marker'.id = m /\ marker'.op = "$gt" /\ readCh' = Append(readCh, m)
  BY <1>1 DEF SendResponse, Send, Reading
<1>3. Known \subseteq Nat
  BY MonitorAssumption DEF TypeOK, Ids
<1>4. m \in batch /\ m \in Known /\ m \in Found /\ \A j \in batch : m <= j
  BY <1>1, <1>2 DEF Oldest, InOrder, BatchInOrder, Found
<1>5. \A i \in Found : m <= i
  <2> SUFFICES ASSUME NEW i \in Found, i < m PROVE FALSE
    BY <1>3, <1>4 DEF Found
  <2>1. i \in batch
    BY <1>2, <1>4 DEF InOrder, BatchInOrder
  <2>2. QED
    BY <1>3, <1>4, <2>1 DEF Found
<1>6. Found' = {i \in Known : i > m}
  BY <1>2 DEF Found, Known
<1>7. \A i \in Found' : i \in Found /\ m < i
  <2> SUFFICES ASSUME NEW i \in Found' PROVE i \in Found /\ m < i
    OBVIOUS
  <2>1. i \in Known /\ m < i /\ i \in Nat /\ m \in Nat
    BY <1>3, <1>4, <1>6
  <2>2. marker.id \in Nat
    <3>1. marker.id \in 0 .. MaxId
      BY DEF TypeOK
    <3>2. QED
      BY <3>1, MonitorAssumption
  <2>3. marker.id <= m
    BY <1>4, <2>1, <2>2 DEF Found
  <2>4. i > marker.id
    BY <2>1, <2>2, <2>3
  <2>5. QED
    BY <2>1, <2>4 DEF Found
<1>8. /\ Len(readCh) \in Nat /\ DOMAIN readCh = 1 .. Len(readCh)
      /\ DOMAIN readCh' = 1 .. Len(readCh) + 1
      /\ \A k \in 1 .. Len(readCh) : readCh'[k] = readCh[k]
      /\ readCh'[Len(readCh) + 1] = m
  BY <1>2, <1>4, AppendProperties, LenProperties DEF TypeOK
<1>9. ToSet(readCh') = ToSet(readCh) \cup {m}
  BY <1>2, <1>4, AppendElements DEF TypeOK
<1>10. \A i \in ToHandle' : i \in ToHandle
  BY <1>4, <1>7, <1>9 DEF ToHandle
<1>11. \A i \in ToHandle', c \in Checks : statuses'[c].resp < i
  BY <1>2, <1>10 DEF ToHandleInOrder
<1>12. ASSUME NEW k \in DOMAIN readCh'
       PROVE  /\ \A l \in DOMAIN readCh' : k < l => readCh'[k] < readCh'[l]
              /\ \A i \in Found' : readCh'[k] < i
  <2>1. CASE k \in 1 .. Len(readCh)
    <3>1. readCh'[k] = readCh[k] /\ k \in DOMAIN readCh
      BY <1>8, <2>1
    <3>2. \A i \in Found' : readCh'[k] < i
      BY <1>7, <3>1 DEF ToHandleInOrder
    <3>3. readCh[k] < m
      BY <1>4, <3>1 DEF ToHandleInOrder
    <3>4. ASSUME NEW l \in DOMAIN readCh', k < l PROVE readCh'[k] < readCh'[l]
      <4>1. CASE l \in 1 .. Len(readCh)
        BY <1>8, <3>1, <3>4, <4>1 DEF ToHandleInOrder
      <4>2. CASE l = Len(readCh) + 1
        BY <1>8, <3>1, <3>3, <4>2
      <4>3. QED
        BY <1>8, <4>1, <4>2
    <3>5. QED
      BY <3>2, <3>4
  <2>2. CASE k = Len(readCh) + 1
    <3>1. \A l \in DOMAIN readCh' : ~(k < l)
      BY <1>8, <2>2
    <3>2. QED
      BY <1>7, <1>8, <2>2, <3>1
  <2>3. QED
    BY <1>8, <2>1, <2>2
<1>13. QED
  BY <1>11, <1>12 DEF ToHandleInOrder

\* A response that is inserted has the greatest id of all.
LEMMA InsertToHandle ==
  ASSUME TypeOK, CitesHandled, Running => marker.id \in Known \cup {0}, Running, ToHandleInOrder,
         NEW i \in Ids, NEW r \in Response, ResponseInserted(i, r), Skew \notin happened'
  PROVE  ToHandleInOrder'
<1>1. /\ Known' = Known \cup {i} /\ i \notin Known
      /\ UNCHANGED <<statuses, marker, readCh>>
  BY DEF ResponseInserted, Known, reader
<1>2. i \in Nat \ {0} /\ Known \subseteq Nat
  BY MonitorAssumption DEF TypeOK, Ids
<1>3. \A j \in Known : j < i
  <2>1. \A j \in Known : ~(i < j)
    BY DEF ResponseInserted
  <2>2. QED
    BY <1>1, <1>2, <2>1
<1>4. handled \subseteq Known /\ \A k \in DOMAIN readCh : readCh[k] \in Known
  BY LenProperties, ElementOfSeq DEF TypeOK
<1>5. \A j \in Found' : j \in Found \/ j = i
  BY <1>1 DEF Found
<1>6. \A c \in Checks : statuses[c].resp < i
  <2>1. \A c \in Checks : statuses[c].resp \in Known \cup {0}
    BY <1>4 DEF CitesHandled, Cited
  <2>2. 0 < i
    BY <1>2
  <2>3. QED
    BY <1>3, <2>1, <2>2
<1>7. \A j \in ToHandle' : j \in ToHandle \/ j = i
  BY <1>1, <1>5 DEF ToHandle
<1>8. \A j \in ToHandle', c \in Checks : statuses'[c].resp < j
  BY <1>1, <1>6, <1>7 DEF ToHandleInOrder
<1>9. \A k \in DOMAIN readCh' :
         /\ \A l \in DOMAIN readCh' : k < l => readCh'[k] < readCh'[l]
         /\ \A j \in Found' : readCh'[k] < j
  BY <1>1, <1>3, <1>4, <1>5 DEF ToHandleInOrder
<1>10. QED
  BY <1>8, <1>9 DEF ToHandleInOrder

\* A new process reads on after the last change, which is the latest of all,
\* or from the oldest response, if no check has changed yet.
LEMMA StartToHandle ==
  ASSUME TypeOK, TypeOK', DownIsEmpty, CitesHandled, LatestIsLast, Start
  PROVE  ToHandleInOrder'
<1>1. /\ statuses' = statusCurrent /\ marker' \in LastMarker
      /\ readCh' = <<>> /\ UNCHANGED responses
      /\ Remembered = statusCurrent
      /\ ~Pending /\ changesCh = <<>> /\ buffer = <<>> /\ statusChanges \in Seq(Change)
  BY DEF Start, LastKnownStatus, DownIsEmpty, Remembered, Pending, Detecting, TypeOK
<1>2. LatestOnItsWay = IF statusChanges # <<>> THEN Last(statusChanges).status.resp ELSE 0
  <2>1. ChangesMade = statusChanges
    BY <1>1, ConcatEmptySeq DEF ChangesMade
  <2>2. QED
    BY <1>1, <2>1 DEF LatestOnItsWay
<1>3. \A c \in Checks : statusCurrent[c].resp \in Nat /\ statusCurrent[c].resp <= LatestOnItsWay
  BY <1>1 DEF LatestIsLast, TypeOK, Status
<1>4. Known \subseteq Nat \ {0}
  BY MonitorAssumption DEF TypeOK, Ids
<1>5. ASSUME NEW i \in Found', NEW c \in Checks PROVE statusCurrent[c].resp < i
  <2>1. i \in Nat \ {0}
    BY <1>1, <1>4, <1>5 DEF Found, Known
  <2>2. CASE statusChanges = <<>>
    BY <1>2, <1>3, <2>1, <2>2
  <2>3. CASE statusChanges # <<>>
    <3>1. marker' = Reading(LatestOnItsWay, "$gt")
      BY <1>1, <1>2, <2>3 DEF LastMarker
    <3>2. marker'.id = LatestOnItsWay /\ marker'.op = "$gt"
      BY <3>1 DEF Reading
    <3>3. i > LatestOnItsWay
      BY <1>5, <3>2 DEF Found
    <3>4. LatestOnItsWay \in Nat
      <4>1. marker'.id \in 0 .. MaxId
        BY DEF TypeOK
      <4>2. QED
        BY <3>2, <4>1, MonitorAssumption
    <3>5. QED
      BY <1>3, <2>1, <3>3, <3>4
  <2>4. QED
    BY <2>2, <2>3
<1>6. DOMAIN readCh' = {} /\ ToSet(readCh') = {}
  BY <1>1 DEF ToSet
<1>7. QED
  BY <1>1, <1>5, <1>6 DEF ToHandleInOrder, ToHandle

\* A process that ends with nothing in transit leaves all it remembered in the
\* database: no update was lost.
LEMMA VanishRight ==
  ASSUME TypeOK, NoUpdateLost, Right, Running, AtRest, Vanish,
         UNCHANGED <<statusChanges, statusCurrent>>
  PROVE  Right'
<1>1. \A c \in Checks : statusCurrent[c] = statuses[c]
  <2> SUFFICES ASSUME NEW c \in Checks PROVE statusCurrent[c] = statuses[c]
    OBVIOUS
  <2>1. ~InTransit(c)
    BY DEF AtRest, NoneWaiting, InTransit, ToSet
  <2>2. LastWrite(c) = statusCurrent[c]
    BY DEF AtRest, LastWrite
  <2>3. QED
    BY <2>1, <2>2 DEF NoUpdateLost
<1>2. \A c \in Checks : Remembered'[c] = Remembered[c]
  BY <1>1 DEF Vanish, Remembered, Running
<1>3. ~Pending /\ ~Pending' /\ changesCh = <<>> /\ changesCh' = <<>> /\ ChangesMade' = ChangesMade
  BY DEF AtRest, NoneWaiting, Vanish, Pending, Detecting, ChangesMade
<1>4. LatestOnItsWay' = LatestOnItsWay
  BY <1>3 DEF LatestOnItsWay
<1>5. \A c \in Checks : Accounted(c)' = Accounted(c)
  BY <1>3 DEF Accounted
<1>6. UNCHANGED <<handled, responses>>
  BY DEF Vanish
<1>7. QED
  BY <1>2, <1>4, <1>5, <1>6, Quiet

\* The writer of the changes has saved all when it has stopped.
LEMMA StoppedStep ==
  ASSUME TypeOK, changes = "stopped" => buffer = <<>>, [Next]_vars
  PROVE  changes' = "stopped" => buffer' = <<>>
<1>1. CASE UNCHANGED <<changes, buffer>>
  BY <1>1
<1>2. CASE \E i \in Ids, r \in Response : ResponseInserted(i, r)
  BY <1>1, <1>2 DEF ResponseInserted, changesWriter
<1>3. CASE Start \/ FindResponses \/ SendResponse \/ Detect \/ SendCurrent \/ SendChange
  BY <1>1, <1>3 DEF Start, FindResponses, SendResponse, Detect, SendCurrent, SendChange, changesWriter
<1>4. CASE TakeCurrent \/ SaveCurrent \/ Stop \/ DetectorDone \/ CurrentDone
  BY <1>1, <1>4 DEF TakeCurrent, SaveCurrent, Stop, DetectorDone, CurrentDone, changesWriter
<1>5. CASE BufferChange(TRUE) \/ BufferChange(FALSE)
  <2>1. changes' \in {"saving", "select"}
    BY <1>5 DEF BufferChange
  <2>2. QED
    BY <2>1
<1>6. CASE FlushDue \/ SaveChanges \/ ChangesDone
  BY <1>6 DEF FlushDue, SaveChanges, ChangesDone
<1>7. CASE Exit \/ Crash
  BY <1>7 DEF Exit, Crash, Vanish
<1>8. CASE UNCHANGED vars
  BY <1>1, <1>8 DEF vars, changesWriter
<1>9. QED
  BY <1>2, <1>3, <1>4, <1>5, <1>6, <1>7, <1>8 DEF Next, Goroutines

\* Every step, as long as nothing goes wrong, moves a change along, makes one
\* where the history of its check has one, or reads on in order.
LEMMA ChangesStep ==
  ASSUME TypeOK, TypeOK', DownIsEmpty, NoUpdateLost, ReaderInv, ChangesInv, [Next]_vars
  PROVE  ChangesInv'
<1>1. changes' = "stopped" => buffer' = <<>>
  BY StoppedStep DEF ChangesInv
<1>2. happened' = {} => happened = {}
  BY DEF Next, Goroutines, ResponseInserted, Start, FindResponses, SendResponse, Detect, SendCurrent,
         SendChange, TakeCurrent, SaveCurrent, BufferChange, FlushDue, SaveChanges, Stop,
         DetectorDone, CurrentDone, ChangesDone, Exit, Crash, vars, history
<1> SUFFICES ASSUME happened' = {} PROVE Right' /\ (Running' => ToHandleInOrder')
  BY <1>1 DEF ChangesInv, ChangesAccounted, Right, AllAccounted
<1>3. /\ Right /\ (Running => ToHandleInOrder)
      /\ Skew \notin happened /\ Skew \notin happened'
  BY <1>2 DEF ChangesInv, ChangesAccounted, Right, AllAccounted
<1>4. InOrder /\ CitesHandled /\ (Running => marker.id \in Known \cup {0})
  BY <1>3 DEF ReaderInv, NothingPassedOver, InOrder
\* Steps that change nothing of this, or only the phase of a running process.
<1>5. ASSUME UNCHANGED <<responses, handled, statuses, statusChanges, buffer, changesCh,
                         marker, readCh>>,
             Running' = Running, phase' = phase \/ Running,
             Running \/ UNCHANGED statusCurrent,
             Pending' = Pending, Pending => detector'.check = detector.check
      PROVE  Right' /\ (Running' => ToHandleInOrder')
  <2>1. \A c \in Checks : Remembered'[c] = Remembered[c]
    BY <1>5 DEF Remembered, Running
  <2>2. ChangesMade' = ChangesMade
    BY <1>5 DEF ChangesMade
  <2>3. LatestOnItsWay' = LatestOnItsWay /\ \A c \in Checks : Accounted(c)' = Accounted(c)
    BY <1>5, <2>2, Still
  <2>4. Right'
    BY <1>3, <1>5, <2>1, <2>3, Quiet
  <2>5. Running' => ToHandleInOrder'
    BY <1>3, <1>5 DEF ToHandleInOrder, ToHandle, Found, Known
  <2>6. QED
    BY <2>4, <2>5
<1>6. ASSUME NEW i \in Ids, NEW r \in Response, ResponseInserted(i, r)
      PROVE  Right' /\ (Running' => ToHandleInOrder')
  <2>1. /\ UNCHANGED <<handled, phase, statuses, statusCurrent, detector, changesCh>>
        /\ ChangesMade' = ChangesMade /\ Remembered' = Remembered /\ Pending' = Pending
    BY <1>6 DEF ResponseInserted, database, changesWriter, ChangesMade, Remembered, Pending
  <2>2. \A h \in handled : responses'[h] = responses[h]
    <3>1. handled \subseteq Known /\ i \notin Known
      BY <1>6 DEF TypeOK, ResponseInserted
    <3>2. QED
      BY <1>6, <3>1 DEF ResponseInserted
  <2>3. LatestOnItsWay' = LatestOnItsWay /\ \A c \in Checks : Accounted(c)' = Accounted(c)
    BY <2>1, Still
  <2>4. Right'
    BY <1>3, <2>1, <2>2, <2>3, Quiet
  <2>5. Running' => ToHandleInOrder'
    BY <1>3, <1>4, <1>6, <2>1, InsertToHandle DEF Running
  <2>6. QED
    BY <2>4, <2>5
<1>7. CASE Start
  <2>1. /\ UNCHANGED <<responses, handled, detector, changesCh>>
        /\ ChangesMade' = ChangesMade /\ Pending' = Pending
        /\ Remembered' = Remembered
    BY <1>7 DEF Start, LastKnownStatus, database, changesWriter, ChangesMade, Pending, Remembered
  <2>2. ~Pending /\ changesCh = <<>>
    BY <1>7 DEF Start, DownIsEmpty, Pending, Detecting
  <2>3. LatestOnItsWay' = LatestOnItsWay /\ \A c \in Checks : Accounted(c)' = Accounted(c)
    BY <2>1, <2>2 DEF LatestOnItsWay, Accounted
  <2>4. Right'
    BY <1>3, <2>1, <2>3, Quiet
  <2>5. ToHandleInOrder'
    BY <1>3, <1>4, <1>7, StartToHandle DEF Right
  <2>6. QED
    BY <2>4, <2>5
<1>8. CASE SendResponse
  <2>1. /\ UNCHANGED <<responses, handled, phase, statuses, statusCurrent, detector, changesCh>>
        /\ ChangesMade' = ChangesMade /\ Remembered' = Remembered /\ Pending' = Pending
    BY <1>8 DEF SendResponse, database, changesWriter, history, ChangesMade, Remembered, Pending
  <2>2. LatestOnItsWay' = LatestOnItsWay /\ \A c \in Checks : Accounted(c)' = Accounted(c)
    BY <2>1, Still
  <2>3. Right'
    BY <1>3, <2>1, <2>2, Quiet
  <2>4. Running /\ ToHandleInOrder
    BY <1>3, <1>8 DEF SendResponse
  <2>5. ToHandleInOrder'
    BY <1>4, <1>8, <2>4, SendToHandle
  <2>6. QED
    BY <2>3, <2>5
<1>9. CASE Detect
  <2>1. ToHandleInOrder
    BY <1>3, <1>9 DEF Detect
  <2>2. Right' /\ \A d \in Checks : statuses'[d] = statuses[d] \/ statuses'[d].resp = Head(readCh)
    <3>1. CASE Head(readCh) \in handled
      BY <1>3, <1>9, <2>1, <3>1, DetectAgain
    <3>2. CASE Head(readCh) \notin handled
      BY <1>3, <1>9, <2>1, <3>2, DetectNew
    <3>3. QED
      BY <3>1, <3>2
  <2>3. ToHandleInOrder'
    BY <1>9, <2>1, <2>2, DetectToHandle
  <2>4. QED
    BY <2>2, <2>3
<1>10. CASE SendChange
  <2>1. ToHandleInOrder'
    BY <1>3, <1>10 DEF SendChange, reader, ToHandleInOrder, ToHandle, Found, Known
  <2>2. QED
    BY <1>3, <1>10, <2>1, SendChangeRight
<1>11. ASSUME NEW due \in BOOLEAN, BufferChange(due) PROVE Right' /\ (Running' => ToHandleInOrder')
  <2>1. ToHandleInOrder'
    BY <1>3, <1>11 DEF BufferChange, reader, ToHandleInOrder, ToHandle, Found, Known
  <2>2. QED
    BY <1>3, <1>11, <2>1, BufferChangeRight
<1>12. CASE SaveChanges
  <2>1. /\ UNCHANGED <<responses, handled, phase, statuses, statusCurrent, detector, changesCh,
                       marker, readCh>>
        /\ Remembered' = Remembered /\ Pending' = Pending /\ Running
    BY <1>12 DEF SaveChanges, reader, history, Remembered, Pending
  <2>2. ChangesMade' = ChangesMade
    <3>1. statusChanges \o buffer \in Seq(Change)
      BY ConcatProperties DEF TypeOK
    <3>2. (statusChanges \o buffer) \o <<>> = statusChanges \o buffer
      BY <3>1, ConcatEmptySeq
    <3>3. QED
      BY <1>12, <3>2 DEF SaveChanges, ChangesMade
  <2>3. LatestOnItsWay' = LatestOnItsWay /\ \A c \in Checks : Accounted(c)' = Accounted(c)
    BY <2>1, <2>2, Still
  <2>4. Right'
    BY <1>3, <2>1, <2>3, Quiet
  <2>5. ToHandleInOrder'
    BY <1>3, <2>1 DEF ToHandleInOrder, ToHandle, Found, Known
  <2>6. QED
    BY <2>4, <2>5
<1>13. CASE Exit \/ Crash
  <2>1. Running /\ Vanish /\ ~Running'
    BY <1>13 DEF Exit, Crash, Vanish, Running
  <2>2. AtRest /\ UNCHANGED <<statusChanges, statusCurrent>>
    <3>1. CASE Exit
      <4>1. buffer = <<>> /\ current.pc = "stopped"
        BY <3>1 DEF Exit, ChangesInv
      <4>2. NoneWaiting
        BY <3>1 DEF Exit
      <4>3. QED
        BY <3>1, <4>1, <4>2 DEF Exit, AtRest, database
    <3>2. CASE Crash
      <4>1. AtRest
        BY <3>2 DEF Crash
      <4>2. buffer = <<>> /\ current.pc # "saving"
        BY <4>1 DEF AtRest
      <4>3. Len(buffer) = 0
        BY <4>2, EmptySeq
      <4>4. PICK n \in 0 .. 0 : statusChanges' = statusChanges \o SubSeq(buffer, 1, n)
        BY <3>2, <4>3 DEF Crash
      <4>5. SubSeq(buffer, 1, 0) = <<>>
        BY <4>2, <4>3 DEF TypeOK
      <4>6. statusChanges' = statusChanges
        <5>1. n = 0
          OBVIOUS
        <5>2. QED
          BY <4>4, <4>5, <5>1, ConcatEmptySeq DEF TypeOK
      <4>7. statusCurrent' = statusCurrent
        BY <3>2, <4>2 DEF Crash
      <4>8. QED
        BY <4>1, <4>6, <4>7
    <3>3. QED
      BY <1>13, <3>1, <3>2
  <2>3. QED
    BY <1>3, <2>1, <2>2, VanishRight
<1>14. CASE FindResponses \/ SendCurrent \/ TakeCurrent \/ SaveCurrent
  <2>1. /\ UNCHANGED <<responses, handled, statuses, statusChanges, buffer, changesCh,
                       marker, readCh, phase>>
        /\ Running
    BY <1>14 DEF FindResponses, SendCurrent, TakeCurrent, SaveCurrent, database, reader,
                 changesWriter, history
  <2>2. Pending' = Pending /\ detector'.check = detector.check
    BY <1>14 DEF FindResponses, SendCurrent, TakeCurrent, SaveCurrent, Pending, TypeOK, Detecting
  <2>3. QED
    BY <1>5, <2>1, <2>2 DEF Running
<1>15. CASE FlushDue \/ Stop \/ CurrentDone \/ ChangesDone
  <2>1. /\ UNCHANGED <<responses, handled, statuses, statusChanges, buffer, changesCh,
                       marker, readCh, detector>>
        /\ Running /\ Running'
    BY <1>15 DEF FlushDue, Stop, CurrentDone, ChangesDone, database, reader,
                 changesWriter, history, Running
  <2>2. QED
    BY <1>5, <2>1 DEF Pending
<1>16. CASE DetectorDone
  <2>1. /\ UNCHANGED <<responses, handled, statuses, statusChanges, buffer, changesCh,
                       marker, readCh, phase>>
        /\ Running
    BY <1>16 DEF DetectorDone, database, reader, changesWriter, history, Running
  <2>2. ~Pending /\ ~Pending'
    BY <1>16 DEF DetectorDone, Pending, TypeOK, Detecting
  <2>3. Running' = Running /\ Pending' = Pending
    <3>1. Running' = Running
      BY <2>1 DEF Running
    <3>2. Pending' = Pending
      BY <2>2 DEF Pending
    <3>3. QED
      BY <3>1, <3>2
  <2>4. QED
    BY <1>5, <2>1, <2>2, <2>3
<1>17. CASE UNCHANGED vars
  <2>1. UNCHANGED <<responses, handled, statuses, statusCurrent, statusChanges, buffer, changesCh,
                    marker, readCh, phase, detector>>
    BY <1>17 DEF vars, database, reader, changesWriter, history
  <2>2. QED
    BY <1>5, <2>1 DEF Running, Pending
<1>18. QED
  BY <1>6, <1>7, <1>8, <1>9, <1>10, <1>11, <1>12, <1>13, <1>14, <1>15, <1>16, <1>17
     DEF Next, Goroutines

-----------------------------------------------------------------------------
\* Before the first response there is nothing to be in order.
LEMMA InitInv == Init => MonitorInv
<1> SUFFICES ASSUME Init PROVE MonitorInv
  OBVIOUS
<1>1. DownIsEmpty /\ NoUpdateLost
  BY DEF Init, DownIsEmpty, NoUpdateLost, Running, Idle
<1>2. ReaderInv
  BY FreshTypes DEF Init, ReaderInv, CitesHandled, Cited, NothingPassedOver, Running, Idle
<1>3. ChangesInv
  <2>1. /\ handled = {} /\ changesCh = <<>> /\ ChangesMade = <<>> /\ ~Pending /\ ~Running
        /\ changes = "select"
    BY FreshTypes, ConcatEmptySeq DEF Init, ChangesMade, Pending, Detecting, Running
  <2>2. \A c \in Checks : HandledOf(c) = {} /\ Flips(c) = {}
    BY <2>1 DEF HandledOf, Flips
  <2>3. \A c \in Checks : Accounted(c) = 0
    <3> SUFFICES ASSUME NEW c \in Checks PROVE Accounted(c) = 0
      OBVIOUS
    <3>1. /\ {k \in DOMAIN ChangesMade : ChangesMade[k].check = c} = {}
          /\ {k \in DOMAIN changesCh : changesCh[k] = c} = {}
      BY <2>1
    <3>2. Accounted(c) = Cardinality({}) + Cardinality({}) + 0
      BY <2>1, <3>1 DEF Accounted
    <3>3. QED
      BY <3>2, FS_EmptySet
  <2>4. ChangesAccounted
    BY <2>2, <2>3, FS_EmptySet DEF ChangesAccounted
  <2>5. \A c \in Checks : Remembered[c] = NoStatus
    BY DEF Init, Remembered
  <2>6. RememberedIsTrue
    BY <2>2, <2>5 DEF RememberedIsTrue, NoStatus
  <2>7. LatestOnItsWay = 0
    BY <2>1 DEF LatestOnItsWay
  <2>8. LatestIsLast
    BY <2>5, <2>7 DEF LatestIsLast, NoStatus
  <2>9. QED
    BY <2>1, <2>4, <2>6, <2>8 DEF ChangesInv
<1>4. QED
  BY <1>1, <1>2, <1>3, InitType DEF MonitorInv

\* In every reachable state all parts of the invariant hold: types, lost updates
\* and the order of reading.
THEOREM MonitorInvariant == Spec => []MonitorInv
<1>1. MonitorInv /\ [Next]_vars => MonitorInv'
  <2> SUFFICES ASSUME MonitorInv, [Next]_vars PROVE MonitorInv'
    OBVIOUS
  <2>1. TypeOK'
    BY TypeStep DEF MonitorInv, ReaderInv
  <2>2. DownIsEmpty' /\ NoUpdateLost' /\ ReaderInv'
    BY UpdateStep, DownStep, ReaderStep DEF MonitorInv
  <2>3. ChangesInv'
    BY <2>1, ChangesStep DEF MonitorInv
  <2>4. QED
    BY <2>1, <2>2, <2>3 DEF MonitorInv
<1>2. QED
  BY <1>1, InitInv, PTL DEF Spec

\* The saved status of a check is the one in memory or will be overwritten by it,
\* at any interleaving of the detector and the writer and over any restart.
THEOREM UpdatesNotLost == Spec => []NoUpdateLost
<1>1. MonitorInv => NoUpdateLost
  BY DEF MonitorInv
<1>2. QED
  BY <1>1, MonitorInvariant, PTL

\* A restart never leaves out a response, whatever the process before it had
\* saved when it ended.
THEOREM ResponsesNotPassedOver == Spec => []NothingPassedOver
<1>1. MonitorInv => NothingPassedOver
  BY DEF MonitorInv, ReaderInv, NothingPassedOver
<1>2. QED
  BY <1>1, MonitorInvariant, PTL

\* Without a loss or a skewed id, the monitor detects every change of a check
\* once, over any number of restarts, and the changes inserted and on their way
\* are as many as there were.
THEOREM ChangesAreAccounted == Spec => []ChangesAccounted
<1>1. MonitorInv => ChangesAccounted
  BY DEF MonitorInv, ChangesInv, ChangesAccounted
<1>2. QED
  BY <1>1, MonitorInvariant, PTL
=============================================================================
