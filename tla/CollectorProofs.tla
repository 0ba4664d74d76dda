---------------------------- MODULE CollectorProofs ----------------------------
(***************************************************************************)
(* About a step of the response collector, for every batch size, channel   *)
(* size and fault: CInv is inductive, a marker leaves the in-flight        *)
(* collection only when its response is in the database, and without a     *)
(* fault a response is in one place only.  From these, with the clocks of  *)
(* CollectorTiming, that a graceful exit saves all if the auto-flush comes *)
(* due before it.                                                          *)
(***************************************************************************)
EXTENDS CollectorTiming, WorkerProofs

\* A collector that has not started satisfies its invariant.
LEMMA CInitInv == CollectorInit => CInv
  BY FreshLinkTypes, EmptySeq
     DEF CollectorInit, CInv, CollectorTypeOK, HandFull, SavedBeforeDeleted, WaitingForMore, Receiver

\* Counting a fault keeps the counters natural numbers.
LEMMA SpendType ==
  ASSUME spent \in [Faults -> Nat], NEW f \in Faults, Spend(f)
  PROVE  spent' \in [Faults -> Nat]
  BY DEF Spend

\* The faults that a collector meets.
LEMMA CollectorFaultNames ==
  {"collectorCrash", "collectorStop", "database", "deaf", "drop", "channel"} \subseteq Faults
  BY DEF Faults

\* The records saved are records of the buffer.
LEMMA FirstSavedFact ==
  ASSUME CInv, BackboneTypeOK, NEW n \in Nat, n <= Len(buffer), FirstSaved(n)
  PROVE  responses' \subseteq Rids /\ responses \subseteq responses'
<1>1. \A i \in 1 .. n : i \in 1 .. Len(buffer)
  <2>1. Len(buffer) \in Nat
    BY LenProperties DEF CInv, CollectorTypeOK
  <2>2. QED
    BY <2>1
<1>2. \A i \in 1 .. n : buffer[i] \in Rids
  BY <1>1, ElementOfSeq DEF CInv, CollectorTypeOK
<1>3. QED
  BY <1>2 DEF FirstSaved, BackboneTypeOK

\* The same when the process ended before the insert did.
LEMMA SavedPartFact ==
  ASSUME CInv, BackboneTypeOK, \E n \in SavedPart : FirstSaved(n)
  PROVE  responses' \subseteq Rids /\ responses \subseteq responses'
<1>1. PICK n \in SavedPart : FirstSaved(n)
  OBVIOUS
<1>2. n \in Nat /\ n <= Len(buffer)
  <2>1. Len(buffer) \in Nat
    BY LenProperties DEF CInv, CollectorTypeOK
  <2>2. QED
    BY <2>1 DEF SavedPart
<1>3. QED
  BY <1>1, <1>2, FirstSavedFact

\* A process that is gone has CollectorInit's memory.
LEMMA VanishFact ==
  ASSUME CInv, BackboneTypeOK, NEW state \in {"down", "failed"},
         NEW rs, rs \subseteq cLink.unacked, Vanish(state, rs),
         responses' \subseteq Rids, spent' \in [Faults -> Nat]
  PROVE  CInv' /\ BackboneTypeOK'
<1>1. CInv'
  BY FreshLinkTypes, EmptySeq
     DEF Vanish, CInv, CollectorTypeOK, HandFull, SavedBeforeDeleted, WaitingForMore, Receiver
<1>2. rs \subseteq ResponseMsgs
  BY DEF CInv, CollectorTypeOK, Link
<1>3. QED
  BY <1>1, <1>2 DEF Vanish, BackboneTypeOK, historyVars

\* Every step of the collector keeps its invariant and the types it shares.
LEMMA CollectorStepInv ==
  ASSUME CInv, BackboneTypeOK, CollectorNext
  PROVE  CInv' /\ BackboneTypeOK'
<1> USE DEF CInv, CollectorTypeOK, HandFull, SavedBeforeDeleted
<1>1. CASE CollectorStart
  <2>1. BackboneTypeOK'
    BY <1>1 DEF CollectorStart, backboneVars, BackboneTypeOK
  <2>2. QED
    BY <1>1, <2>1, FreshLinkTypes DEF CollectorStart, backboneVars
<1>2. CASE CollectorStop
  BY <1>2, SpendType, CollectorFaultNames DEF CollectorStop, BackboneTypeOK, historyVars
<1>3. CASE TakeResponse
  <2>1. Head(cLink.ch) \in Delivery(ResponseMsgs) /\ cLink' \in Link(ResponseMsgs)
    BY <1>3, TakenType DEF TakeResponse
  <2>2. <<Head(cLink.ch)>> \in Seq(Delivery(ResponseMsgs)) /\ <<Head(cLink.ch)>> # <<>>
    BY <2>1
  <2>3. recv' \in Receiver /\ recv'.hand # <<>>
    BY <1>3, <2>2 DEF TakeResponse, Receiving, Receiver
  <2>4. QED
    BY <1>3, <2>1, <2>3 DEF TakeResponse, backboneVars, BackboneTypeOK
<1>4. ASSUME NEW due \in BOOLEAN, HandOver(due) PROVE CInv' /\ BackboneTypeOK'
  <2>1. recv.hand # <<>> /\ recv.hand \in Seq(Delivery(ResponseMsgs))
    BY <1>4 DEF HandOver, Receiver
  <2>2. Head(recv.hand) \in Delivery(ResponseMsgs)
    BY <2>1, HeadTailProperties
  <2>3. Rid(Head(recv.hand).msg) \in Rids
    BY <2>2 DEF Delivery, ResponseMsgs, Rid
  <2>4. buffer' \in Seq(Rids)
    BY <1>4, <2>3, AppendProperties DEF HandOver
  <2>5. recv' \in Receiver /\ recv'.hand = recv.hand
    BY <1>4 DEF HandOver, Receiver
  <2>6. saver' \in {"saving", "select"}
    BY <1>4 DEF HandOver
  <2>7. QED
    BY <1>4, <2>1, <2>4, <2>5, <2>6 DEF HandOver, backboneVars, BackboneTypeOK
<1>5. CASE AckResponse
  <2>1. recv.hand # <<>> /\ recv.hand \in Seq(Delivery(ResponseMsgs))
    BY <1>5 DEF AckResponse, Receiver
  <2>2. Head(recv.hand) \in Delivery(ResponseMsgs)
    BY <2>1, HeadTailProperties
  <2>3. cLink' \in Link(ResponseMsgs)
    BY <1>5, <2>2, AckedType DEF AckResponse
  <2>4. recv' \in Receiver /\ recv'.pc = "select"
    BY <1>5, EmptySeq DEF AckResponse, WaitingForMore, Receiver
  <2>5. QED
    BY <1>5, <2>3, <2>4 DEF AckResponse, backboneVars, BackboneTypeOK
<1>6. CASE AutoFlushDue
  BY <1>6 DEF AutoFlushDue, backboneVars, BackboneTypeOK
<1>7. CASE SaveResponses
  <2>1. Len(buffer) \in Nat /\ DOMAIN buffer = 1 .. Len(buffer)
    BY LenProperties
  <2>2. responses' \subseteq Rids
    BY <1>7, <2>1, FirstSavedFact DEF SaveResponses
  <2>3. ToSet(buffer) \subseteq responses'
    BY <1>7, <2>1 DEF SaveResponses, FirstSaved, ToSet
  <2>4. QED
    BY <1>7, <2>2, <2>3 DEF SaveResponses, BackboneTypeOK, historyVars
<1>8. CASE DeleteMarkers
  BY <1>8, EmptySeq DEF DeleteMarkers, BackboneTypeOK, historyVars
<1>9. CASE SaveDuplicate
  <2>1. PICK n \in 0 .. Len(buffer) - 1 : FirstSaved(n)
    BY <1>9 DEF SaveDuplicate
  <2>2. Len(buffer) \in Nat
    BY LenProperties
  <2>3. n \in Nat /\ n <= Len(buffer)
    BY <2>1, <2>2
  <2>4. responses' \subseteq Rids
    BY <2>1, <2>3, FirstSavedFact
  <2>5. spent' \in [Faults -> Nat]
    BY <1>9 DEF SaveDuplicate, BackboneTypeOK
  <2>6. QED
    BY <1>9, <2>4, <2>5, VanishFact DEF SaveDuplicate, ReturnedByCrash
<1>10. CASE DatabaseFails
  BY <1>10, SavedPartFact, SpendType, CollectorFaultNames, VanishFact
     DEF DatabaseFails, ReturnedByCrash, BackboneTypeOK
<1>11. CASE CollectorCrash
  BY <1>11, SavedPartFact, SpendType, CollectorFaultNames, VanishFact
     DEF CollectorCrash, ReturnedByCrash, BackboneTypeOK
<1>12. CASE CollectorExit
  <2>1. spent' \in [Faults -> Nat]
    BY <1>12 DEF CollectorExit, BackboneTypeOK
  <2>2. ReturnedByClose(cLink) \subseteq cLink.unacked
    BY DEF ReturnedByClose
  <2>3. QED
    BY <1>12, <2>1, <2>2, SavedPartFact, VanishFact DEF CollectorExit
<1>13. CASE CollectorCancel
  BY <1>13, CancelledType DEF CollectorCancel, backboneVars, BackboneTypeOK
<1>14. CASE ReceiverStop
  BY <1>14 DEF ReceiverStop, backboneVars, BackboneTypeOK, Receiver
<1>15. CASE CollectorReconnect
  BY <1>15, ReconnectedType DEF CollectorReconnect, backboneVars, BackboneTypeOK
<1>16. ASSUME NEW m \in ResponsesInTransit, CollectorReceive(m) \/ CollectorSettle(m)
       PROVE  CInv' /\ BackboneTypeOK'
  <2>1. m \in ResponseMsgs
    BY DEF ResponsesInTransit, BackboneTypeOK, Link
  <2>2. CASE CollectorReceive(m)
    BY <2>1, <2>2, ReceivedType DEF CollectorReceive, BackboneTypeOK, historyVars
  <2>3. CASE CollectorSettle(m)
    BY <2>1, <2>3, SettledType DEF CollectorSettle, backboneVars, BackboneTypeOK
  <2>4. QED
    BY <1>16, <2>2, <2>3
<1>17. ASSUME NEW fault \in {"drop", "channel"}, NEW how \in {"closed", "stalled"},
              CollectorCut(fault, how)
       PROVE  CInv' /\ BackboneTypeOK'
  <2>1. cLink' \in Link(ResponseMsgs) /\ ReturnedByCrash(cLink) \subseteq ResponseMsgs
    BY <1>17, CutType DEF CollectorCut, ReturnedByCrash, Link
  <2>2. recv.hand \in Seq(Delivery(ResponseMsgs))
    BY DEF Receiver
  <2>3. /\ Stale(recv.hand) \in Seq(Delivery(ResponseMsgs))
        /\ recv.hand # <<>> => Stale(recv.hand) # <<>>
    BY <2>2, StaleType, EmptySeq
  <2>4. recv' \in Receiver /\ HandFull'
    BY <1>17, <2>3 DEF CollectorCut, Receiver
  <2>5. spent' \in [Faults -> Nat]
    BY <1>17, SpendType, CollectorFaultNames DEF CollectorCut, BackboneTypeOK
  <2>6. QED
    BY <1>17, <2>1, <2>4, <2>5 DEF CollectorCut, BackboneTypeOK, historyVars
<1>18. CASE CollectorStartDeaf
  <2>1. cLink' \in Link(ResponseMsgs)
    BY <1>18, FreshLinkTypes, CancelledType DEF CollectorStartDeaf
  <2>2. spent' \in [Faults -> Nat]
    BY <1>18, SpendType, CollectorFaultNames DEF CollectorStartDeaf, BackboneTypeOK
  <2>3. QED
    BY <1>18, <2>1, <2>2 DEF CollectorStartDeaf, BackboneTypeOK, historyVars
<1>19. QED
  BY <1>1, <1>2, <1>3, <1>4, <1>5, <1>6, <1>7, <1>8, <1>9, <1>10, <1>11, <1>12, <1>13,
     <1>14, <1>15, <1>16, <1>17, <1>18
     DEF CollectorNext, CollectorWork, CollectorFault

\* A step of the collector forgets no response, and clears a marker only if the
\* response is saved; it never does both, save and clear.
LEMMA CollectorClearsSaved ==
  ASSUME CInv, BackboneTypeOK, CollectorNext
  PROVE  /\ responses \subseteq responses' /\ inflight \ inflight' \subseteq responses
         /\ inflight' = inflight \/ (inflight' \subseteq inflight /\ responses' = responses)
<1>1. CASE DeleteMarkers
  BY <1>1 DEF DeleteMarkers, CInv, SavedBeforeDeleted
<1>0. ASSUME inflight' = inflight, responses \subseteq responses'
      PROVE  /\ responses \subseteq responses' /\ inflight \ inflight' \subseteq responses
             /\ inflight' = inflight \/ (inflight' \subseteq inflight /\ responses' = responses)
  <2>1. inflight \ inflight' = {}
    BY <1>0
  <2>2. QED
    BY <1>0, <2>1
<1>2. CASE SaveResponses
  <2>1. inflight' = inflight /\ responses \subseteq responses'
    BY <1>2 DEF SaveResponses, FirstSaved
  <2>2. QED
    BY <1>0, <2>1
<1>3. CASE SaveDuplicate \/ DatabaseFails \/ CollectorCrash \/ CollectorExit
  <2>1. responses \subseteq responses'
    BY <1>3 DEF SaveDuplicate, DatabaseFails, CollectorCrash, CollectorExit, FirstSaved
  <2>2. inflight' = inflight
    BY <1>3 DEF SaveDuplicate, DatabaseFails, CollectorCrash, CollectorExit, Vanish
  <2>3. QED
    BY <1>0, <2>1, <2>2
<1>4. CASE inflight' = inflight /\ responses' = responses
  BY <1>0, <1>4
<1>5. QED
  BY <1>1, <1>2, <1>3, <1>4
     DEF CollectorNext, CollectorWork, CollectorFault, CollectorStart, CollectorStartDeaf, CollectorStop,
         TakeResponse, HandOver, AckResponse, AutoFlushDue, CollectorCancel, ReceiverStop,
         CollectorReconnect, CollectorReceive, CollectorSettle, CollectorCut, backboneVars

-----------------------------------------------------------------------------
\* The collector leaves requests and answers alone.
LEMMA CollectorOutside ==
  ASSUME CollectorNext
  PROVE  /\ requests' = requests /\ routed' = routed /\ answers' = answers
         /\ spent' = spent \/ \E f \in Faults : Spend(f)
<1>1. /\ requests' = requests /\ routed' = routed /\ answers' = answers
  BY DEF CollectorNext, CollectorWork, CollectorFault, CollectorStart, CollectorStartDeaf, CollectorStop,
         TakeResponse, HandOver, AckResponse, AutoFlushDue, CollectorCancel, ReceiverStop,
         CollectorReconnect, CollectorReceive, CollectorSettle, CollectorCut,
         SaveResponses, SaveDuplicate, DeleteMarkers, DatabaseFails, CollectorCrash,
         CollectorExit, Vanish, backboneVars, historyVars
<1>2. spent' = spent \/ \E f \in Faults : Spend(f)
  BY DEF CollectorNext, CollectorWork, CollectorFault, CollectorStart, CollectorStartDeaf, CollectorStop,
         TakeResponse, HandOver, AckResponse, AutoFlushDue, CollectorCancel, ReceiverStop,
         CollectorReconnect, CollectorReceive, CollectorSettle, CollectorCut,
         SaveResponses, SaveDuplicate, DeleteMarkers, DatabaseFails, CollectorCrash,
         CollectorExit, backboneVars, Faults
<1>3. QED
  BY <1>1, <1>2

\* Only what has not happened before this step is unprovoked after it.
LEMMA StaysUnprovoked ==
  ASSUME BackboneTypeOK, CollectorNext, Unprovoked'
  PROVE  /\ Unprovoked
         /\ ~DatabaseFails /\ ~CollectorCrash
         /\ \A fault \in {"drop", "channel"}, how \in {"closed", "stalled"} : ~CollectorCut(fault, how)
<1>1. {"collectorCrash", "database", "drop", "channel"} \subseteq Faults
  BY DEF Faults
<1>2. Unprovoked
  BY <1>1, CollectorOutside, SpendFact DEF BackboneTypeOK, Unprovoked, NoFault
<1>3. \A f \in {"collectorCrash", "database", "drop", "channel"} : ~Spend(f)
  BY <1>1, SpendFact DEF BackboneTypeOK, Unprovoked, NoFault
<1>4. QED
  BY <1>2, <1>3 DEF DatabaseFails, CollectorCrash, CollectorCut

\* The receiver's hand holds one delivery when it has taken one, and none otherwise.
LEMMA HandFacts ==
  ASSUME CInv, HandMatches
  PROVE  /\ recv.pc \in {"handoff", "ack"} =>
              /\ DOMAIN recv.hand = {1} /\ Head(recv.hand) = recv.hand[1]
              /\ Head(recv.hand) \in Delivery(ResponseMsgs)
              /\ HandMsgs = {Head(recv.hand).msg}
         /\ recv.pc \notin {"handoff", "ack"} => recv.hand = <<>> /\ HandMsgs = {}
<1>1. recv.hand \in Seq(Delivery(ResponseMsgs))
  BY DEF CInv, CollectorTypeOK, Receiver
<1>2. CASE recv.pc \in {"handoff", "ack"}
  <2>1. Len(recv.hand) = 1
    BY <1>2 DEF HandMatches
  <2>2. DOMAIN recv.hand = {1} /\ recv.hand # <<>>
    BY <1>1, <2>1, LenProperties
  <2>3. Head(recv.hand) = recv.hand[1] /\ Head(recv.hand) \in Delivery(ResponseMsgs)
    BY <1>1, <2>2, HeadTailProperties
  <2>4. QED
    BY <1>2, <2>2, <2>3 DEF HandMsgs
<1>3. CASE recv.pc \notin {"handoff", "ack"}
  <2>1. recv.hand = <<>>
    BY <1>1, <1>3, EmptySeq DEF HandMatches
  <2>2. DOMAIN recv.hand = {}
    BY <2>1
  <2>3. QED
    BY <1>3, <2>1, <2>2 DEF HandMsgs
<1>4. QED
  BY <1>2, <1>3

\* Having memory, and a delivery in hand, goes with running and with the receiver's
\* place, and stopping with having been told to.
LEMMA CollectorShape ==
  ASSUME CInv, BackboneTypeOK, CollectorOnce, CollectorNext
  PROVE  DownIsEmpty' /\ HandMatches' /\ StopIsCounted'
<1>0. /\ recv \in Receiver /\ cLink \in Link(ResponseMsgs)
      /\ DownIsEmpty /\ HandMatches /\ StopIsCounted
  BY DEF CInv, CollectorTypeOK, CollectorOnce
<1>1. StopIsCounted'
  <2>1. CASE cState' = "stopping" /\ cState # "stopping"
    <3>1. CollectorStop
      BY <2>1 DEF CollectorNext, CollectorWork, CollectorFault, CollectorStart, CollectorStartDeaf,
         TakeResponse, HandOver, AckResponse, AutoFlushDue, CollectorCancel, ReceiverStop,
         CollectorReconnect, CollectorReceive, CollectorSettle, CollectorCut,
         SaveResponses, SaveDuplicate, DeleteMarkers, DatabaseFails, CollectorCrash,
         CollectorExit, Vanish
    <3>2. QED
      BY <3>1, SpendFact, CollectorFaultNames DEF CollectorStop, StopIsCounted, BackboneTypeOK
  <2>2. CASE cState' = "stopping" => cState = "stopping"
    <3>1. spent["collectorStop"] # 0 => spent'["collectorStop"] # 0
      BY CollectorOutside, SpendFact, CollectorFaultNames DEF BackboneTypeOK
    <3>2. QED
      BY <1>0, <2>2, <3>1 DEF StopIsCounted
  <2>3. QED
    BY <2>1, <2>2
<1> SUFFICES DownIsEmpty' /\ HandMatches'
  BY <1>1
<1>2. ASSUME Running', Len(recv'.hand) = IF recv'.pc \in {"handoff", "ack"} THEN 1 ELSE 0
      PROVE  DownIsEmpty' /\ HandMatches'
  BY <1>2 DEF DownIsEmpty, HandMatches
<1>3. ASSUME NEW state, NEW rs, Vanish(state, rs) PROVE DownIsEmpty' /\ HandMatches'
  BY <1>3, EmptySeq DEF Vanish, DownIsEmpty, HandMatches, WaitingForMore
<1>4. ASSUME Running', recv' = recv PROVE DownIsEmpty' /\ HandMatches'
  BY <1>0, <1>4 DEF DownIsEmpty, HandMatches
<1>5. CASE CollectorStart \/ CollectorStartDeaf \/ CollectorStop \/ AutoFlushDue
           \/ SaveResponses \/ DeleteMarkers \/ CollectorCancel
  BY <1>4, <1>5 DEF CollectorStart, CollectorStartDeaf, CollectorStop, AutoFlushDue,
                    SaveResponses, DeleteMarkers, CollectorCancel, Running
<1>6. ASSUME cLink.conn # "closed" \/ cLink.listening \/ cLink.acking # {} PROVE Running
  BY <1>0, <1>6 DEF DownIsEmpty, ClosedLink
<1>7. CASE CollectorReconnect \/ \E m \in ResponsesInTransit : CollectorReceive(m) \/ CollectorSettle(m)
  <2>1. Running /\ recv' = recv /\ cState' = cState
    BY <1>6, <1>7 DEF CollectorReconnect, CanReconnect, CollectorReceive, CanReceive, CollectorSettle
  <2>2. QED
    BY <1>4, <2>1 DEF Running
<1>8. CASE TakeResponse
  <2>1. recv' = Receiving(<<Head(cLink.ch)>>) /\ Running'
    BY <1>8 DEF TakeResponse, Running
  <2>2. recv'.pc = "handoff" /\ Len(recv'.hand) = 1
    BY <2>1 DEF Receiving
  <2>3. QED
    BY <1>2, <2>1, <2>2
<1>9. ASSUME NEW due \in BOOLEAN, HandOver(due) PROVE DownIsEmpty' /\ HandMatches'
  <2>1. Running' /\ recv'.pc = "ack" /\ recv'.hand = recv.hand /\ recv.pc = "handoff"
    BY <1>0, <1>9 DEF HandOver, Running, Receiver
  <2>2. QED
    BY <1>0, <1>2, <2>1 DEF HandMatches
<1>10. CASE AckResponse
  <2>1. Running' /\ recv'.pc = "select" /\ Len(recv'.hand) = 0
    BY <1>10, EmptySeq DEF AckResponse, Running, WaitingForMore
  <2>2. QED
    BY <1>2, <2>1
<1>11. CASE ReceiverStop
  <2>1. Running' /\ recv'.pc = "stopped" /\ recv'.hand = recv.hand /\ recv.pc = "select"
    BY <1>0, <1>11 DEF ReceiverStop, Running, Receiver
  <2>2. QED
    BY <1>0, <1>2, <2>1 DEF HandMatches
<1>12. CASE SaveDuplicate \/ DatabaseFails \/ CollectorCrash \/ CollectorExit
  BY <1>3, <1>12 DEF SaveDuplicate, DatabaseFails, CollectorCrash, CollectorExit
<1>13. ASSUME NEW fault \in {"drop", "channel"}, NEW how \in {"closed", "stalled"},
              CollectorCut(fault, how)
       PROVE  DownIsEmpty' /\ HandMatches'
  <2>1. Running'
    BY <1>6, <1>13 DEF CollectorCut, CanCut, Running
  <2>2. recv'.pc = recv.pc /\ recv'.hand = Stale(recv.hand)
    BY <1>0, <1>13 DEF CollectorCut, Receiver
  <2>3. Len(recv'.hand) = Len(recv.hand)
    BY <1>0, <2>2, StaleType DEF Receiver
  <2>4. QED
    BY <1>0, <1>2, <2>1, <2>2, <2>3 DEF HandMatches
<1>14. QED
  BY <1>5, <1>7, <1>8, <1>9, <1>10, <1>11, <1>12, <1>13
     DEF CollectorNext, CollectorWork, CollectorFault

-----------------------------------------------------------------------------
\* The channel and the receiver's hand, when the link and the hand are as they were.
LEMMA SamePlaces ==
  ASSUME OnePlace, DeliveredOnce(cLink'), cLink'.ch = cLink.ch,
         cLink'.unacked = cLink.unacked, cLink'.acking = cLink.acking,
         recv'.hand = recv.hand, responsesQueue' = responsesQueue
  PROVE  OnePlace'
  BY DEF OnePlace, HandMsgs

\* A message moves from one place to the next: from the queue into the channel, from
\* there into the receiver's hand, and out of it when it is acknowledged.
LEMMA OnePlaceStep ==
  ASSUME CInv, BackboneTypeOK, CollectorOnce, CollectorNext, Unprovoked, Unprovoked'
  PROVE  OnePlace'
<1>0. /\ recv \in Receiver /\ cLink \in Link(ResponseMsgs) /\ responsesQueue \subseteq ResponseMsgs
      /\ OnePlace /\ DownIsEmpty /\ HandMatches /\ DeliveredOnce(cLink)
  BY DEF CInv, CollectorTypeOK, BackboneTypeOK, CollectorOnce, OnePlace
<1>1. ASSUME DeliveredOnce(cLink'), cLink'.ch = <<>>, cLink'.unacked = {}, recv'.hand = <<>>
      PROVE  OnePlace'
  <2>1. DOMAIN cLink'.ch = {} /\ DOMAIN recv'.hand = {}
    BY <1>1
  <2>2. QED
    BY <1>1, <2>1 DEF OnePlace, HandMsgs
<1>2. CASE CollectorStart \/ CollectorStartDeaf
  <2>1. recv'.hand = <<>>
    BY <1>0, <1>2 DEF CollectorStart, CollectorStartDeaf, DownIsEmpty, WaitingForMore
  <2>2. cLink' \in {ConsumingLink, Cancelled(ConsumingLink)}
    BY <1>2 DEF CollectorStart, CollectorStartDeaf
  <2>3. ConsumingLink \in Link(ResponseMsgs)
    BY FreshLinkTypes
  <2>4. /\ ConsumingLink.ch = <<>> /\ ConsumingLink.unacked = {}
        /\ Cancelled(ConsumingLink).ch = <<>> /\ Cancelled(ConsumingLink).unacked = {}
    BY DEF ConsumingLink, ClosedLink, Cancelled
  <2>5. DeliveredOnce(cLink')
    BY <2>2, <2>3, FreshLinkOnce, ConnectionOnce
  <2>6. QED
    BY <1>1, <2>1, <2>2, <2>4, <2>5
<1>3. ASSUME NEW state, NEW rs, Vanish(state, rs) PROVE OnePlace'
  <2>1. cLink' = ClosedLink /\ recv'.hand = <<>>
    BY <1>3 DEF Vanish, WaitingForMore
  <2>2. ClosedLink.ch = <<>> /\ ClosedLink.unacked = {}
    BY DEF ClosedLink
  <2>3. QED
    BY <1>1, <2>1, <2>2, FreshLinkOnce
<1>4. CASE SaveDuplicate \/ CollectorExit
  BY <1>3, <1>4 DEF SaveDuplicate, CollectorExit
<1>5. CASE cLink' = cLink /\ recv'.hand = recv.hand /\ responsesQueue' = responsesQueue
  BY <1>0, <1>5, SamePlaces
<1>6. CASE CollectorStop \/ AutoFlushDue \/ SaveResponses \/ DeleteMarkers \/ ReceiverStop
           \/ \E due \in BOOLEAN : HandOver(due)
  BY <1>0, <1>5, <1>6 DEF CollectorStop, AutoFlushDue, SaveResponses, DeleteMarkers, ReceiverStop,
                          HandOver, Receiver, backboneVars
<1>7. CASE CollectorCancel \/ CollectorReconnect
  <2>1. /\ cLink' \in {Cancelled(cLink), Reconnected(cLink)}
        /\ recv' = recv /\ responsesQueue' = responsesQueue
    BY <1>7 DEF CollectorCancel, CollectorReconnect, backboneVars
  <2>2. /\ cLink'.ch = cLink.ch /\ cLink'.unacked = cLink.unacked /\ cLink'.acking = cLink.acking
    BY <1>0, <2>1 DEF Cancelled, Reconnected, Link
  <2>3. DeliveredOnce(cLink')
    BY <1>0, <2>1, ConnectionOnce
  <2>4. QED
    BY <1>0, <2>1, <2>2, <2>3, SamePlaces
<1>8. ASSUME NEW m \in ResponseMsgs, CollectorReceive(m) PROVE OnePlace'
  <2>1. /\ m \in responsesQueue /\ responsesQueue' = responsesQueue \ {m}
        /\ cLink' = Received(cLink, m) /\ recv' = recv
    BY <1>8 DEF CollectorReceive
  <2>2. m \notin cLink.unacked
    BY <1>0, <2>1 DEF OnePlace
  <2>3. DeliveredOnce(cLink')
    BY <1>0, <2>1, <2>2, ReceivedOnce
  <2>4. /\ cLink'.unacked = cLink.unacked \cup {m} /\ cLink'.acking = cLink.acking
        /\ cLink'.ch = Append(cLink.ch, [msg |-> m, live |-> TRUE])
    BY <1>0, <2>1 DEF Received, Link
  <2>5. \A i \in DOMAIN cLink'.ch :
           \/ cLink'.ch[i].live /\ cLink'.ch[i].msg = m
           \/ i \in DOMAIN cLink.ch /\ cLink'.ch[i] = cLink.ch[i]
    <3>1. cLink.ch \in Seq(Delivery(ResponseMsgs)) /\ [msg |-> m, live |-> TRUE] \in Delivery(ResponseMsgs)
      BY <1>0 DEF Link, Delivery
    <3>2. QED
      BY <2>4, <3>1, AppendProperties, LenProperties
  <2>6. m \notin HandMsgs
    BY <1>0, <2>2 DEF OnePlace
  <2>7. HandMsgs' = HandMsgs
    BY <2>1 DEF HandMsgs
  <2>8. QED
    BY <1>0, <2>1, <2>3, <2>4, <2>5, <2>6, <2>7 DEF OnePlace
<1>9. ASSUME NEW m \in ResponseMsgs, CollectorSettle(m) PROVE OnePlace'
  <2>1. /\ m \in cLink.acking /\ cLink' = Settled(cLink, m)
        /\ recv' = recv /\ responsesQueue' = responsesQueue
    BY <1>9 DEF CollectorSettle, backboneVars
  <2>2. /\ cLink'.unacked = cLink.unacked \ {m} /\ cLink'.acking = cLink.acking \ {m}
        /\ cLink'.ch = cLink.ch /\ DeliveredOnce(cLink')
    BY <1>0, <2>1, SettledOnce DEF Settled, Link
  <2>3. HandMsgs' = HandMsgs
    BY <2>1 DEF HandMsgs
  <2>4. QED
    BY <1>0, <2>1, <2>2, <2>3 DEF OnePlace
<1>10. CASE TakeResponse
  <2> DEFINE d == Head(cLink.ch)
  <2>1. /\ cLink.ch # <<>> /\ recv' = Receiving(<<d>>) /\ responsesQueue' = responsesQueue
        /\ cLink' = [cLink EXCEPT !.ch = Tail(@)]
    BY <1>10 DEF TakeResponse, backboneVars
  <2>2. /\ cLink'.unacked = cLink.unacked /\ cLink'.acking = cLink.acking
        /\ cLink'.ch = Tail(cLink.ch)
    BY <1>0, <2>1 DEF Link
  <2>3. /\ d = cLink.ch[1] /\ 1 \in DOMAIN cLink.ch
        /\ \A i \in DOMAIN Tail(cLink.ch) : i + 1 \in DOMAIN cLink.ch /\ Tail(cLink.ch)[i] = cLink.ch[i + 1]
    <3>1. cLink.ch \in Seq(Delivery(ResponseMsgs))
      BY <1>0 DEF Link
    <3>2. /\ DOMAIN cLink.ch = 1 .. Len(cLink.ch) /\ Len(cLink.ch) \in Nat \ {0}
          /\ DOMAIN Tail(cLink.ch) = 1 .. Len(cLink.ch) - 1
          /\ \A i \in 1 .. Len(cLink.ch) - 1 : Tail(cLink.ch)[i] = cLink.ch[i + 1]
      BY <2>1, <3>1, HeadTailProperties, LenProperties, EmptySeq
    <3>3. QED
      BY <2>1, <3>1, <3>2, HeadTailProperties
  <2>4. d.live /\ \A i \in DOMAIN Tail(cLink.ch) : Tail(cLink.ch)[i].live
    BY <1>0, <2>3 DEF OnePlace
  <2>5. /\ d.msg \in cLink.unacked \ cLink.acking /\ DeliveredOnce(cLink')
        /\ \A i \in DOMAIN Tail(cLink.ch) : Tail(cLink.ch)[i].msg # d.msg
    BY <1>0, <2>1, <2>4, TakenOnce
  <2>6. DOMAIN recv'.hand = {1} /\ recv'.hand[1] = d
    BY <2>1 DEF Receiving
  <2>7. HandMsgs' = {d.msg}
    BY <2>6 DEF HandMsgs
  <2> HIDE DEF d
  <2>8. QED
    BY <1>0, <2>1, <2>2, <2>4, <2>5, <2>6, <2>7 DEF OnePlace
<1>11. CASE AckResponse
  <2>1. recv.pc = "ack" /\ cLink' = Acked(cLink, Head(recv.hand)) /\ recv'.hand = <<>>
        /\ responsesQueue' = responsesQueue
    BY <1>11 DEF AckResponse, WaitingForMore, backboneVars
  <2>2. /\ DOMAIN recv.hand = {1} /\ Head(recv.hand) = recv.hand[1]
        /\ HandMsgs = {Head(recv.hand).msg}
    BY <1>0, <2>1, HandFacts
  <2>3. PICK d : d = Head(recv.hand)
    OBVIOUS
  <2>4. d.live /\ d.msg \in cLink.unacked \ cLink.acking
        /\ \A i \in DOMAIN cLink.ch : cLink.ch[i].msg # d.msg
    BY <1>0, <2>2, <2>3 DEF OnePlace
  <2>5. /\ cLink'.ch = cLink.ch /\ cLink'.unacked = cLink.unacked
        /\ cLink'.acking = cLink.acking \cup {d.msg}
    BY <1>0, <2>1, <2>3, <2>4 DEF Acked, Link
  <2>6. DeliveredOnce(cLink')
    BY <1>0, <2>4, <2>5 DEF DeliveredOnce
  <2>7. DOMAIN recv'.hand = {} /\ HandMsgs' = {}
    BY <2>1 DEF HandMsgs
  <2>8. QED
    BY <1>0, <2>1, <2>5, <2>6, <2>7 DEF OnePlace
<1>12. \A m \in ResponsesInTransit : m \in ResponseMsgs
  BY <1>0 DEF ResponsesInTransit, Link
<1>13. QED
  BY <1>2, <1>4, <1>6, <1>7, <1>8, <1>9, <1>10, <1>11, <1>12, StaysUnprovoked
     DEF CollectorNext, CollectorWork, CollectorFault

\* A record appended to a buffer that does not hold it.
LEMMA DistinctAppend ==
  ASSUME NEW S, NEW s \in Seq(S), NEW x \in S
  PROVE  /\ ToSet(Append(s, x)) = ToSet(s) \cup {x}
         /\ (\A i, j \in DOMAIN s : s[i] = s[j] => i = j) /\ x \notin ToSet(s)
              => \A i, j \in DOMAIN Append(s, x) : Append(s, x)[i] = Append(s, x)[j] => i = j
<1>1. /\ Len(s) \in Nat /\ DOMAIN s = 1 .. Len(s)
      /\ DOMAIN Append(s, x) = 1 .. Len(s) + 1
      /\ \A i \in 1 .. Len(s) : Append(s, x)[i] = s[i]
      /\ Append(s, x)[Len(s) + 1] = x
  BY LenProperties, AppendProperties
<1>2. \A i \in DOMAIN Append(s, x) : i = Len(s) + 1 \/ i \in DOMAIN s
  BY <1>1
<1>3. \A i \in DOMAIN s : i \in DOMAIN Append(s, x) /\ Append(s, x)[i] = s[i]
  BY <1>1
<1>4. Len(s) + 1 \in DOMAIN Append(s, x)
  BY <1>1
<1>5. QED
  BY <1>1, <1>2, <1>3, <1>4 DEF ToSet

\* Nothing changes hands.
LEMMA SameBooks ==
  ASSUME CollectedOnce, ResponsesInTransit' = ResponsesInTransit, HandedOver' = HandedOver,
         buffer' = buffer, responses' = responses, answers' = answers,
         saver' # "deleting" => saver # "deleting", cState' # "failed"
  PROVE  CollectedOnce'
  BY DEF CollectedOnce, Collected

\* Every answer in transit is the first to its request, so that it is known by it.
LEMMA FirstAnswers ==
  ASSUME BackboneTypeOK, CInv, Unprovoked, CollectedOnce,
         NEW m \in ResponsesInTransit, NEW n \in ResponsesInTransit, Rid(m) = Rid(n)
  PROVE  m = n
<1>1. m \in ResponseMsgs /\ n \in ResponseMsgs
  BY DEF BackboneTypeOK, CInv, CollectorTypeOK, ResponsesInTransit, Link
<1>2. m[2] \in Nat \ {0} /\ n[2] \in Nat \ {0} /\ Rid(m) \in Rids
  BY <1>1 DEF ResponseMsgs, Rid
<1>3. m[2] <= answers[Rid(m)] /\ n[2] <= answers[Rid(m)] /\ answers[Rid(m)] <= 1
      /\ answers[Rid(m)] \in Nat
  BY <1>2 DEF CollectedOnce, Unprovoked, BackboneTypeOK
<1>4. m[2] = 1 /\ n[2] = 1
  BY <1>2, <1>3
<1>5. m = <<Rid(m), m[2]>> /\ n = <<Rid(n), n[2]>>
  BY <1>1 DEF ResponseMsgs, Rid
<1>6. QED
  BY <1>4, <1>5

\* An answer is handed over once, stays in the buffer or the database from then on,
\* and none that is already in the database is saved.
LEMMA CollectedOnceStep ==
  ASSUME CInv, BackboneTypeOK, CollectorOnce, CollectorNext, Unprovoked, Unprovoked'
  PROVE  CollectedOnce'
<1>0. /\ recv \in Receiver /\ cLink \in Link(ResponseMsgs) /\ responsesQueue \subseteq ResponseMsgs
      /\ OnePlace /\ CollectedOnce /\ DownIsEmpty /\ HandMatches
      /\ buffer \in Seq(Rids) /\ DOMAIN buffer = 1 .. Len(buffer) /\ Len(buffer) \in Nat
      /\ cState # "failed" /\ answers' = answers
  BY LenProperties, CollectorOutside
     DEF CInv, CollectorTypeOK, BackboneTypeOK, CollectorOnce, CollectedOnce
<1>1. ASSUME responsesQueue' = responsesQueue, cLink'.unacked = cLink.unacked,
             cLink'.acking = cLink.acking, recv'.hand = recv.hand,
             recv'.pc = "ack" <=> recv.pc = "ack"
      PROVE  ResponsesInTransit' = ResponsesInTransit /\ HandedOver' = HandedOver
  BY <1>1 DEF ResponsesInTransit, HandedOver, HandMsgs
<1>2. CASE CollectorStart \/ CollectorStartDeaf
  <2>1. cLink.unacked = {} /\ cLink.acking = {}
    BY <1>0, <1>2 DEF CollectorStart, CollectorStartDeaf, DownIsEmpty, ClosedLink
  <2>2. /\ ConsumingLink.unacked = {} /\ ConsumingLink.acking = {}
        /\ Cancelled(ConsumingLink).unacked = {} /\ Cancelled(ConsumingLink).acking = {}
    BY DEF ConsumingLink, ClosedLink, Cancelled
  <2>3. /\ cLink'.unacked = {} /\ cLink'.acking = {} /\ cState' = "up"
        /\ UNCHANGED <<recv, saver, buffer, responsesQueue, responses>>
    BY <1>2, <2>2 DEF CollectorStart, CollectorStartDeaf, backboneVars
  <2>4. QED
    BY <1>0, <1>1, <2>1, <2>3, SameBooks
<1>3. CASE CollectorStop \/ AutoFlushDue \/ ReceiverStop
  <2>1. /\ UNCHANGED <<cLink, buffer, responsesQueue, responses>> /\ cState' # "failed"
        /\ saver # "deleting" \/ saver' = saver
        /\ recv'.hand = recv.hand /\ (recv'.pc = "ack" <=> recv.pc = "ack")
    BY <1>0, <1>3 DEF CollectorStop, AutoFlushDue, ReceiverStop, Receiver, backboneVars, Running
  <2>2. QED
    BY <1>0, <1>1, <2>1, SameBooks
<1>4. CASE CollectorCancel \/ CollectorReconnect
  <2>1. /\ cLink' \in {Cancelled(cLink), Reconnected(cLink)}
        /\ UNCHANGED <<cState, recv, saver, buffer, responsesQueue, responses>>
    BY <1>4 DEF CollectorCancel, CollectorReconnect, backboneVars
  <2>2. cLink'.unacked = cLink.unacked /\ cLink'.acking = cLink.acking
    BY <1>0, <2>1 DEF Cancelled, Reconnected, Link
  <2>3. QED
    BY <1>0, <1>1, <2>1, <2>2, SameBooks
<1>5. ASSUME NEW m \in ResponseMsgs, CollectorReceive(m) PROVE CollectedOnce'
  <2>1. /\ m \in responsesQueue /\ responsesQueue' = responsesQueue \ {m}
        /\ cLink' = Received(cLink, m)
        /\ UNCHANGED <<cState, recv, saver, buffer, responses>>
    BY <1>5 DEF CollectorReceive
  <2>2. cLink'.unacked = cLink.unacked \cup {m} /\ cLink'.acking = cLink.acking
    BY <1>0, <2>1 DEF Received, Link
  <2>3. ResponsesInTransit' = ResponsesInTransit /\ HandedOver' = HandedOver
    BY <2>1, <2>2 DEF ResponsesInTransit, HandedOver, HandMsgs
  <2>4. QED
    BY <1>0, <2>1, <2>3, SameBooks
<1>6. CASE TakeResponse
  <2>1. /\ recv.pc = "select" /\ recv'.pc = "handoff" /\ cLink' = [cLink EXCEPT !.ch = Tail(@)]
        /\ UNCHANGED <<cState, saver, buffer, responsesQueue, responses>>
    BY <1>6 DEF TakeResponse, Receiving, backboneVars
  <2>2. cLink'.unacked = cLink.unacked /\ cLink'.acking = cLink.acking
    BY <1>0, <2>1 DEF Link
  <2>3. ResponsesInTransit' = ResponsesInTransit /\ HandedOver' = HandedOver
    BY <2>1, <2>2 DEF ResponsesInTransit, HandedOver
  <2>4. QED
    BY <1>0, <2>1, <2>3, SameBooks
<1>7. CASE AckResponse
  <2>1. /\ recv.pc = "ack" /\ cLink' = Acked(cLink, Head(recv.hand)) /\ recv'.pc = "select"
        /\ UNCHANGED <<cState, saver, buffer, responsesQueue, responses>>
    BY <1>7 DEF AckResponse, WaitingForMore, backboneVars
  <2>2. /\ DOMAIN recv.hand = {1} /\ Head(recv.hand) = recv.hand[1]
        /\ HandMsgs = {Head(recv.hand).msg}
    BY <1>0, <2>1, HandFacts
  <2>3. PICK d : d = Head(recv.hand)
    OBVIOUS
  <2>4. d.live
    BY <1>0, <2>2, <2>3 DEF OnePlace
  <2>5. cLink'.unacked = cLink.unacked /\ cLink'.acking = cLink.acking \cup {d.msg}
    BY <1>0, <2>1, <2>3, <2>4 DEF Acked, Link
  <2>6. ResponsesInTransit' = ResponsesInTransit /\ HandedOver' = HandedOver
    BY <2>1, <2>2, <2>3, <2>5 DEF ResponsesInTransit, HandedOver
  <2>7. QED
    BY <1>0, <2>1, <2>6, SameBooks
<1>8. ASSUME NEW due \in BOOLEAN, HandOver(due) PROVE CollectedOnce'
  <2>1. recv.pc = "handoff"
    BY <1>8 DEF HandOver
  <2>2. /\ HandMsgs = {Head(recv.hand).msg} /\ Head(recv.hand) \in Delivery(ResponseMsgs)
    BY <1>0, <2>1, HandFacts
  <2>3. PICK h, x : h = Head(recv.hand).msg /\ x = Rid(h)
    OBVIOUS
  <2>4. /\ saver = "select" /\ saver' # "deleting" /\ buffer' = Append(buffer, x)
        /\ recv'.pc = "ack" /\ recv'.hand = recv.hand
        /\ UNCHANGED <<cState, cLink, responsesQueue, responses>>
    BY <1>0, <1>8, <2>3 DEF HandOver, Receiver, backboneVars
  <2>5. /\ h \in ResponsesInTransit /\ h \notin HandedOver
        /\ ResponsesInTransit' = ResponsesInTransit /\ HandedOver' = HandedOver \cup {h}
    BY <1>0, <2>1, <2>2, <2>3, <2>4 DEF OnePlace, ResponsesInTransit, HandedOver, HandMsgs
  <2>6. x \in Rids /\ h[2] \in Nat \ {0}
    BY <2>2, <2>3 DEF Delivery, ResponseMsgs, Rid
  <2>7. x \notin Collected /\ answers[x] > 0
    <3>1. h[2] <= answers[x] /\ answers[x] \in Nat
      BY <1>0, <2>3, <2>5, <2>6 DEF CollectedOnce, BackboneTypeOK
    <3>2. QED
      BY <1>0, <2>3, <2>5, <2>6, <3>1 DEF CollectedOnce
  <2>8. /\ ToSet(buffer') = ToSet(buffer) \cup {x}
        /\ \A i, j \in DOMAIN buffer' : buffer'[i] = buffer'[j] => i = j
    BY <1>0, <2>4, <2>6, <2>7, DistinctAppend DEF CollectedOnce, Collected
  <2>9. Collected' = Collected \cup {x}
    BY <2>4, <2>8 DEF Collected
  <2>10. \A m \in ResponsesInTransit : Rid(m) = x => m = h
    BY <2>3, <2>5, FirstAnswers, <1>0
  <2>11. \A m \in ResponsesInTransit : Rid(m) \in Collected' <=> m \in HandedOver'
    BY <1>0, <2>3, <2>5, <2>9, <2>10 DEF CollectedOnce
  <2>12. ToSet(buffer') \cap responses' = {}
    BY <1>0, <2>4, <2>7, <2>8 DEF CollectedOnce, Collected
  <2>13. \A r \in Collected' : answers'[r] > 0
    BY <1>0, <2>7, <2>9 DEF CollectedOnce
  <2>14. \A m \in ResponsesInTransit' : m[2] <= answers'[Rid(m)]
    BY <1>0, <2>5 DEF CollectedOnce
  <2>15. QED
    BY <1>0, <2>4, <2>5, <2>8, <2>11, <2>12, <2>13, <2>14 DEF CollectedOnce
<1>9. CASE SaveResponses \/ DeleteMarkers
  <2>1. /\ UNCHANGED <<cState, cLink, recv, responsesQueue>>
        /\ SaveResponses => buffer' = buffer /\ saver' = "deleting"
        /\ DeleteMarkers => buffer' = <<>>
    BY <1>9 DEF SaveResponses, DeleteMarkers
  <2>2. Collected' = Collected
    <3>1. CASE SaveResponses
      <4>1. responses' = responses \cup ToSet(buffer)
        BY <1>0, <3>1 DEF SaveResponses, FirstSaved, ToSet
      <4>2. QED
        BY <2>1, <3>1, <4>1 DEF Collected
    <3>2. CASE DeleteMarkers
      <4>1. ToSet(buffer) \subseteq responses /\ responses' = responses
        BY <3>2 DEF DeleteMarkers, CInv, SavedBeforeDeleted
      <4>2. ToSet(buffer') = {}
        BY <2>1, <3>2 DEF ToSet
      <4>3. QED
        BY <4>1, <4>2 DEF Collected
    <3>3. QED
      BY <1>9, <3>1, <3>2
  <2>3. ResponsesInTransit' = ResponsesInTransit /\ HandedOver' = HandedOver
    BY <1>1, <2>1
  <2>4. /\ \A i, j \in DOMAIN buffer' : buffer'[i] = buffer'[j] => i = j
        /\ saver' # "deleting" => ToSet(buffer') \cap responses' = {}
    BY <1>0, <1>9, <2>1 DEF CollectedOnce, ToSet
  <2>5. QED
    BY <1>0, <2>1, <2>2, <2>3, <2>4 DEF CollectedOnce
<1>10. ASSUME NEW m \in ResponseMsgs, CollectorSettle(m) PROVE CollectedOnce'
  <2>1. /\ m \in cLink.acking /\ cLink' = Settled(cLink, m)
        /\ UNCHANGED <<cState, recv, saver, buffer, responsesQueue, responses>>
    BY <1>10 DEF CollectorSettle, backboneVars
  <2>2. cLink'.unacked = cLink.unacked \ {m} /\ cLink'.acking = cLink.acking \ {m}
    BY <1>0, <2>1, SettledType
  <2>3. m \in cLink.unacked /\ m \notin responsesQueue /\ m \notin HandMsgs
    BY <1>0, <2>1 DEF OnePlace, DeliveredOnce
  <2>4. /\ ResponsesInTransit' = ResponsesInTransit \ {m}
        /\ HandedOver' = HandedOver \ {m}
    BY <2>1, <2>2, <2>3 DEF ResponsesInTransit, HandedOver, HandMsgs
  <2>5. Collected' = Collected
    BY <2>1 DEF Collected
  <2>6. QED
    BY <1>0, <2>1, <2>4, <2>5 DEF CollectedOnce
<1>11. CASE CollectorExit
  <2>1. /\ recv.pc = "stopped" /\ Vanish("down", ReturnedByClose(cLink))
    BY <1>11 DEF CollectorExit
  <2>2. HandMsgs = {} /\ HandedOver = cLink.acking
    BY <1>0, <2>1, HandFacts DEF HandedOver
  <2>3. /\ cState' = "down" /\ cLink' = ClosedLink /\ recv'.pc = "select" /\ saver' = "select"
        /\ buffer' = <<>> /\ responsesQueue' = responsesQueue \cup (cLink.unacked \ cLink.acking)
    BY <2>1 DEF Vanish, WaitingForMore, ReturnedByClose
  <2>4. ClosedLink.unacked = {} /\ ClosedLink.acking = {}
    BY DEF ClosedLink
  <2>5. HandedOver' = {} /\ ResponsesInTransit' \subseteq ResponsesInTransit \ HandedOver
    <3>1. HandedOver' = {}
      BY <2>3, <2>4 DEF HandedOver
    <3>2. responsesQueue \cap cLink.acking = {}
      BY <1>0 DEF OnePlace, DeliveredOnce
    <3>3. QED
      BY <2>2, <2>3, <2>4, <3>1, <3>2 DEF ResponsesInTransit
  <2>6. responses' \subseteq Collected
    <3>1. PICK n \in SavedPart : FirstSaved(n)
      BY <1>11 DEF CollectorExit
    <3>2. \A i \in 1 .. n : i \in DOMAIN buffer
      BY <1>0, <3>1 DEF SavedPart
    <3>3. QED
      BY <3>1, <3>2 DEF FirstSaved, Collected, ToSet
  <2>7. DOMAIN buffer' = {} /\ ToSet(buffer') = {} /\ Collected' = responses'
    BY <2>3 DEF ToSet, Collected
  <2>8. QED
    BY <1>0, <2>3, <2>5, <2>6, <2>7 DEF CollectedOnce
<1>12. ~SaveDuplicate
  <2> SUFFICES ASSUME SaveDuplicate PROVE FALSE
    OBVIOUS
  <2>1. PICK n \in 0 .. Len(buffer) - 1 : ~Storable(n + 1) /\ saver = "saving"
    BY DEF SaveDuplicate
  <2>2. \A i \in 1 .. n + 1 :
           i \in DOMAIN buffer /\ \A j \in 1 .. i - 1 : j \in DOMAIN buffer /\ i # j
    BY <1>0, <2>1
  <2>3. ToSet(buffer) \cap responses = {}
    BY <1>0, <2>1 DEF CollectedOnce
  <2>4. QED
    BY <1>0, <2>1, <2>2, <2>3 DEF Storable, CollectedOnce, ToSet
<1>13. \A m \in ResponsesInTransit : m \in ResponseMsgs
  BY <1>0 DEF ResponsesInTransit, Link
<1>14. QED
  BY <1>2, <1>3, <1>4, <1>5, <1>6, <1>7, <1>8, <1>9, <1>10, <1>11, <1>12, <1>13, StaysUnprovoked
     DEF CollectorNext, CollectorWork, CollectorFault

\* Every step of the collector keeps CollectorOnce.
LEMMA CollectorOnceStep ==
  ASSUME CInv, BackboneTypeOK, CollectorOnce, CollectorNext
  PROVE  CollectorOnce'
<1>1. Unprovoked' => OnePlace' /\ CollectedOnce'
  BY StaysUnprovoked, OnePlaceStep, CollectedOnceStep
<1>2. QED
  BY <1>1, CollectorShape DEF CollectorOnce

\* A collector that has not started has met no answer, and none has been given.
LEMMA CInitOnce == BackboneInit /\ CollectorInit => CollectorOnce /\ AnswersKept
<1> SUFFICES ASSUME BackboneInit, CollectorInit PROVE CollectorOnce /\ AnswersKept
  OBVIOUS
<1>1. ClosedLink.ch = <<>> /\ ClosedLink.unacked = {} /\ ClosedLink.acking = {}
  BY DEF ClosedLink
<1>2. DownIsEmpty /\ HandMatches /\ StopIsCounted
  BY EmptySeq DEF CollectorInit, DownIsEmpty, HandMatches, StopIsCounted, WaitingForMore
<1>3. /\ cLink.ch = <<>> /\ cLink.unacked = {} /\ recv.hand = <<>> /\ responsesQueue = {}
      /\ HandMsgs = {} /\ buffer = <<>> /\ responses = {} /\ cState # "failed"
      /\ DeliveredOnce(cLink)
  BY <1>1, FreshLinkOnce DEF BackboneInit, CollectorInit, WaitingForMore, HandMsgs
<1>4. DOMAIN <<>> = {}
  OBVIOUS
<1>5. OnePlace
  BY <1>3, <1>4 DEF OnePlace
<1>6. CollectedOnce
  BY <1>3, <1>4 DEF CollectedOnce, Collected, ResponsesInTransit, ToSet
<1>7. AnswersKept
  BY DEF BackboneInit, AnswersKept
<1>8. QED
  BY <1>2, <1>5, <1>6, <1>7 DEF CollectorOnce

\* What the others do to the collector: at most a first answer for it to collect.
LEMMA OutsideCollectorOnce ==
  ASSUME BackboneTypeOK, CInv, CollectorOnce, UNCHANGED collectorVars, responses' = responses,
         spent' = spent \/ \E f \in Faults : Spend(f),
         \/ responsesQueue' = responsesQueue /\ answers' = answers
         \/ \E r \in Rids : Answer(r)
  PROVE  CollectorOnce'
<1>1. DownIsEmpty' /\ HandMatches' /\ StopIsCounted'
  <2>1. spent["collectorStop"] # 0 => spent'["collectorStop"] # 0
    BY SpendFact, CollectorFaultNames DEF BackboneTypeOK
  <2>2. QED
    BY <2>1 DEF CollectorOnce, DownIsEmpty, HandMatches, StopIsCounted, collectorVars, Running
<1>2. ASSUME Unprovoked' PROVE OnePlace' /\ CollectedOnce'
  <2>1. NoFault({"collectorCrash", "database", "drop", "channel"})
    <3>1. {"collectorCrash", "database", "drop", "channel"} \subseteq Faults
      BY DEF Faults
    <3>2. QED
      BY <1>2, <3>1, SpendFact DEF BackboneTypeOK, Unprovoked, NoFault
  <2>2. UNCHANGED <<HandMsgs, HandedOver, Collected>>
    BY DEF collectorVars, HandMsgs, HandedOver, Collected
  <2>3. CASE responsesQueue' = responsesQueue /\ answers' = answers
    <3>1. OnePlace /\ CollectedOnce
      BY <1>2, <2>1, <2>3 DEF CollectorOnce, Unprovoked
    <3>2. QED
      BY <2>2, <2>3, <3>1 DEF collectorVars, OnePlace, CollectedOnce, ResponsesInTransit
  <2>4. ASSUME NEW r \in Rids, Answer(r) PROVE OnePlace' /\ CollectedOnce'
    <3>1. /\ answers \in [Rids -> Nat] /\ answers' = [answers EXCEPT ![r] = @ + 1]
          /\ answers'[r] <= 1 /\ answers'[r] = answers[r] + 1
      BY <1>2, <2>4 DEF BackboneTypeOK, Answer, Unprovoked
    <3>2. answers[r] = 0 /\ \A q \in Rids \ {r} : answers'[q] = answers[q]
      BY <3>1
    <3>3. Unprovoked
      BY <1>2, <2>1, <3>1, <3>2 DEF Unprovoked
    <3>4. OnePlace /\ CollectedOnce
      BY <3>3 DEF CollectorOnce
    <3>5. PICK m : m = <<r, 1>>
      OBVIOUS
    <3>6. responsesQueue' = responsesQueue \cup {m}
      BY <2>4, <3>2, <3>5 DEF Answer
    <3>7. \A n \in ResponsesInTransit : Rid(n) \in Rids /\ n[2] \in Nat \ {0}
      BY DEF ResponsesInTransit, BackboneTypeOK, CInv, CollectorTypeOK, Link, ResponseMsgs, Rid
    <3>8. \A n \in ResponsesInTransit : Rid(n) # r
      BY <3>2, <3>4, <3>7 DEF CollectedOnce
    <3>9. Rid(m) = r /\ m[2] = 1
      BY <3>5 DEF Rid
    <3>10. m \notin ResponsesInTransit /\ r \notin Collected
      BY <3>2, <3>4, <3>8, <3>9 DEF CollectedOnce
    <3>11. ResponsesInTransit' = ResponsesInTransit \cup {m}
      BY <3>6 DEF ResponsesInTransit, collectorVars
    <3>12. HandedOver \subseteq ResponsesInTransit
      BY <3>4 DEF HandedOver, OnePlace, DeliveredOnce, ResponsesInTransit
    <3>13. OnePlace'
      BY <2>2, <3>4, <3>6, <3>10 DEF OnePlace, collectorVars, ResponsesInTransit
    <3>14. \A n \in ResponsesInTransit' : n[2] <= answers'[Rid(n)]
      BY <3>1, <3>2, <3>4, <3>7, <3>8, <3>9, <3>11 DEF CollectedOnce
    <3>15. \A q \in Collected : q \in Rids
      BY DEF Collected, ToSet, CInv, CollectorTypeOK, BackboneTypeOK
    <3>16. \A q \in Collected' : answers'[q] > 0
      BY <2>2, <3>2, <3>4, <3>10, <3>15 DEF CollectedOnce
    <3>17. \A n \in ResponsesInTransit' : Rid(n) \in Collected' <=> n \in HandedOver'
      BY <2>2, <3>4, <3>9, <3>10, <3>11, <3>12 DEF CollectedOnce
    <3>18. CollectedOnce'
      BY <3>4, <3>14, <3>16, <3>17 DEF CollectedOnce, collectorVars
    <3>19. QED
      BY <3>13, <3>18
  <2>5. QED
    BY <2>3, <2>4
<1>3. QED
  BY <1>1, <1>2 DEF CollectorOnce

-----------------------------------------------------------------------------
\* What the collector has of an answer is never less than the broker or the database.
LEMMA KeptIsCollected ==
  ASSUME OnePlace, NEW r \in Rids
  PROVE  Delivering(r) \/ InMemory(r) \/ r \in responses
            <=> Delivering(r) \/ r \in Collected
<1>1. ASSUME NEW i \in DOMAIN recv.hand, Rid(recv.hand[i].msg) = r PROVE Delivering(r)
  <2>1. recv.hand[i].msg \in cLink.unacked
    BY DEF OnePlace, HandMsgs
  <2>2. QED
    BY <1>1, <2>1 DEF Delivering, ResponsesInTransit
<1>2. QED
  BY <1>1 DEF InMemory, Collected

\* The collector keeps what it has been given, unless it exits with a batch.
LEMMA CollectorKeepsAnswers ==
  ASSUME CInv, BackboneTypeOK, CollectorOnce, CollectorNext, Unprovoked', AnswersKept,
         CollectorExit => buffer = <<>>
  PROVE  AnswersKept'
<1>0. /\ Unprovoked /\ OnePlace /\ CollectedOnce /\ DownIsEmpty /\ HandMatches
      /\ CollectorOnce' /\ OnePlace' /\ answers' = answers
      /\ cLink \in Link(ResponseMsgs) /\ recv \in Receiver
      /\ buffer \in Seq(Rids) /\ DOMAIN buffer = 1 .. Len(buffer)
  BY StaysUnprovoked, CollectorOnceStep, CollectorOutside, LenProperties
     DEF CollectorOnce, CInv, CollectorTypeOK
<1>1. Collected \subseteq Collected'
  <2>1. CASE CollectorExit
    <3>1. buffer = <<>> /\ responses \subseteq responses'
      BY <2>1 DEF CollectorExit, FirstSaved
    <3>2. QED
      BY <3>1 DEF Collected, ToSet
  <2>2. CASE SaveDuplicate
    <3>1. cState' = "failed"
      BY <2>2 DEF SaveDuplicate, Vanish
    <3>2. QED
      BY <1>0, <3>1 DEF CollectorOnce, CollectedOnce
  <2>3. CASE SaveResponses
    BY <2>3 DEF SaveResponses, FirstSaved, Collected
  <2>4. CASE DeleteMarkers
    BY <2>4 DEF DeleteMarkers, CInv, SavedBeforeDeleted, Collected
  <2>5. ASSUME NEW due \in BOOLEAN, HandOver(due) PROVE Collected \subseteq Collected'
    <3>1. recv.pc = "handoff"
      BY <2>5 DEF HandOver
    <3>2. PICK x : x = Rid(Head(recv.hand).msg)
      OBVIOUS
    <3>3. x \in Rids
      BY <1>0, <3>1, <3>2, HandFacts DEF Delivery, ResponseMsgs, Rid
    <3>4. buffer' = Append(buffer, x) /\ responses' = responses
      BY <2>5, <3>2 DEF HandOver, backboneVars
    <3>5. ToSet(buffer') = ToSet(buffer) \cup {x}
      BY <1>0, <3>3, <3>4, DistinctAppend
    <3>6. QED
      BY <3>4, <3>5 DEF Collected
  <2>6. CASE buffer' = buffer /\ responses' = responses
    BY <2>6 DEF Collected
  <2>7. QED
    BY <2>1, <2>2, <2>3, <2>4, <2>5, <2>6, StaysUnprovoked
       DEF CollectorNext, CollectorWork, CollectorFault, CollectorStart, CollectorStartDeaf, CollectorStop,
           TakeResponse, AckResponse, AutoFlushDue, CollectorCancel, ReceiverStop,
           CollectorReconnect, CollectorReceive, CollectorSettle, backboneVars
<1>2. ResponsesInTransit \subseteq ResponsesInTransit' \cup HandedOver
  <2>1. CASE CollectorStart \/ CollectorStartDeaf
    <3>1. cLink.unacked = {} /\ responsesQueue' = responsesQueue
      BY <1>0, <2>1 DEF CollectorStart, CollectorStartDeaf, DownIsEmpty, ClosedLink, backboneVars
    <3>2. QED
      BY <3>1 DEF ResponsesInTransit
  <2>2. ASSUME NEW m \in ResponsesInTransit, CollectorReceive(m) \/ CollectorSettle(m)
        PROVE  ResponsesInTransit \subseteq ResponsesInTransit' \cup HandedOver
    <3>1. CASE CollectorReceive(m)
      <4>1. /\ responsesQueue' = responsesQueue \ {m}
            /\ cLink'.unacked = cLink.unacked \cup {m}
        BY <1>0, <3>1 DEF CollectorReceive, Received, Link
      <4>2. QED
        BY <4>1 DEF ResponsesInTransit
    <3>2. CASE CollectorSettle(m)
      <4>1. /\ responsesQueue' = responsesQueue /\ m \in cLink.acking
            /\ cLink'.unacked = cLink.unacked \ {m}
        BY <1>0, <3>2 DEF CollectorSettle, Settled, Link, backboneVars
      <4>2. QED
        BY <4>1 DEF ResponsesInTransit, HandedOver
    <3>3. QED
      BY <2>2, <3>1, <3>2
  <2>3. CASE CollectorExit
    BY <2>3 DEF CollectorExit, Vanish, ReturnedByClose, ResponsesInTransit, HandedOver
  <2>4. CASE SaveDuplicate
    BY <2>4 DEF SaveDuplicate, Vanish, ReturnedByCrash, ResponsesInTransit
  <2>5. CASE responsesQueue' = responsesQueue /\ cLink'.unacked = cLink.unacked
    BY <2>5 DEF ResponsesInTransit
  <2>6. CASE CollectorCancel \/ CollectorReconnect \/ TakeResponse \/ AckResponse
    <3>1. cLink'.unacked = cLink.unacked
      BY <1>0, <2>6 DEF CollectorCancel, CollectorReconnect, TakeResponse, AckResponse,
                        Cancelled, Reconnected, Acked, Link
    <3>2. responsesQueue' = responsesQueue
      BY <2>6 DEF CollectorCancel, CollectorReconnect, TakeResponse, AckResponse, backboneVars
    <3>3. QED
      BY <2>5, <3>1, <3>2
  <2>7. QED
    BY <2>1, <2>2, <2>3, <2>4, <2>5, <2>6, StaysUnprovoked
       DEF CollectorNext, CollectorWork, CollectorFault, CollectorStop, HandOver, AutoFlushDue,
           ReceiverStop, SaveResponses, DeleteMarkers, backboneVars
<1>3. ASSUME NEW r \in Rids, answers'[r] > 0
      PROVE  (Delivering(r) \/ InMemory(r) \/ r \in responses)'
  <2>1. Delivering(r) \/ r \in Collected
    BY <1>0, <1>3, KeptIsCollected DEF AnswersKept
  <2>2. ASSUME NEW m \in ResponsesInTransit, Rid(m) = r PROVE Delivering(r)' \/ r \in Collected
    <3>1. CASE m \in ResponsesInTransit'
      BY <2>2, <3>1 DEF Delivering
    <3>2. CASE m \in HandedOver
      BY <1>0, <2>2, <3>2 DEF CollectedOnce
    <3>3. QED
      BY <1>2, <3>1, <3>2
  <2>3. Delivering(r)' \/ r \in Collected'
    BY <1>1, <2>1, <2>2 DEF Delivering
  <2>4. QED
    BY <2>3 DEF InMemory, Collected
<1>4. QED
  BY <1>3 DEF AnswersKept

\* A fresh answer is in the queue, and nobody else takes one away.
LEMMA OutsideKeepsAnswers ==
  ASSUME BackboneTypeOK, AnswersKept, UNCHANGED collectorVars, responses' = responses,
         \/ responsesQueue' = responsesQueue /\ answers' = answers
         \/ \E r \in Rids : Answer(r)
  PROVE  AnswersKept'
<1>1. \A q \in Rids : /\ Delivering(q) => Delivering(q)'
                      /\ InMemory(q) => InMemory(q)'
  BY DEF Answer, Delivering, InMemory, ResponsesInTransit, collectorVars
<1>2. CASE answers' = answers
  BY <1>1, <1>2 DEF AnswersKept
<1>3. ASSUME NEW r \in Rids, Answer(r) PROVE AnswersKept'
  <2>1. <<r, answers[r] + 1>> \in ResponsesInTransit'
    BY <1>3 DEF Answer, ResponsesInTransit
  <2>2. Delivering(r)'
    BY <2>1 DEF Delivering, Rid
  <2>3. \A q \in Rids \ {r} : answers'[q] = answers[q]
    BY <1>3 DEF Answer, BackboneTypeOK
  <2>4. QED
    BY <1>1, <2>2, <2>3 DEF AnswersKept
<1>4. QED
  BY <1>2, <1>3

-----------------------------------------------------------------------------
\* Every timed step is a tick, an answer's arrival or a step of the collector.
LEMMA TimedSteps ==
  ASSUME CTNext
  PROVE  Tick \/ (\E r \in Rids : AnswerArrives(r)) \/ CollectorNext
<1>1. FlushDue \in BOOLEAN
  BY DEF FlushDue
<1>2. QED
  BY <1>1 DEF CTNext, TimedStart, TimedTake, TimedAutoFlush, TimedDelete, TimedReceiverStop, TimedExit,
         TimedSave, Untimed, CollectorNext, CollectorWork, CollectorFault

\* The clocks count within their bounds and agree with the receiver and the buffer.
LEMMA ClocksStep ==
  ASSUME TimingInv, CTNext
  PROVE  ClocksOK' /\ ClocksAgree'
<1>0. /\ {Grace, AutoFlush, ExitDelay} \subseteq Nat
      /\ {sinceSaved, sinceMsg, sinceStop} \subseteq Nat
      /\ ClocksOK /\ ClocksAgree /\ DownIsEmpty /\ recv \in Receiver
  BY TimingAssumption
     DEF TimingInv, ClocksOK, CollectorOnce, CInv, CollectorTypeOK
<1>1. CASE Tick
  <2>1. /\ recv.pc \in {"select", "stopped"} /\ recv' = recv /\ buffer' = buffer
        /\ sinceSaved' = sinceSaved + 1 /\ sinceSaved <= AutoFlush
        /\ sinceMsg' \in {sinceMsg, sinceMsg + 1} /\ sinceMsg' <= Grace + 1
        /\ recv.pc = "stopped" => sinceStop' = sinceStop + 1 /\ sinceStop < ExitDelay
        /\ recv.pc # "stopped" => sinceStop' = sinceStop
    BY <1>0, <1>1 DEF Tick, Quiet, FlushDue, Later, collectorVars, ClocksOK
  <2>2. ClocksOK'
    BY <1>0, <2>1 DEF ClocksOK
  <2>3. ClocksAgree'
    BY <1>0, <2>1 DEF ClocksAgree
  <2>4. QED
    BY <2>2, <2>3
<1>2. ASSUME UNCHANGED clocks PROVE ClocksOK'
  BY <1>0, <1>2 DEF clocks, ClocksOK
<1>3. ASSUME UNCHANGED clocks, recv'.pc = recv.pc, buffer' = buffer PROVE ClocksOK' /\ ClocksAgree'
  BY <1>0, <1>2, <1>3 DEF clocks, ClocksAgree
<1>4. ASSUME FreshClocks, recv'.pc = "select", buffer' = <<>> PROVE ClocksOK' /\ ClocksAgree'
  BY <1>0, <1>4 DEF FreshClocks, ClocksOK, ClocksAgree
<1>5. ASSUME NEW r \in Rids, AnswerArrives(r) PROVE ClocksOK' /\ ClocksAgree'
  BY <1>3, <1>5 DEF AnswerArrives, collectorVars
<1>6. CASE TimedStart
  <2>1. recv'.pc = "select" /\ buffer' = <<>> /\ FreshClocks
    BY <1>0, <1>6 DEF TimedStart, CollectorStart, CollectorStartDeaf, DownIsEmpty, WaitingForMore
  <2>2. QED
    BY <1>4, <2>1
<1>7. CASE TimedTake
  <2>1. /\ recv.pc = "select" /\ recv'.pc = "handoff" /\ buffer' = buffer
        /\ sinceMsg' = 0 /\ sinceSaved' = sinceSaved /\ sinceStop' = sinceStop
    BY <1>7 DEF TimedTake, TakeResponse, Receiving
  <2>2. QED
    BY <1>0, <2>1 DEF ClocksOK, ClocksAgree
<1>8. CASE TimedAutoFlush
  <2>1. /\ recv' = recv /\ buffer' = buffer /\ sinceMsg' = sinceMsg /\ sinceStop' = sinceStop
        /\ sinceSaved' = IF buffer = <<>> THEN 0 ELSE sinceSaved
    BY <1>8 DEF TimedAutoFlush, AutoFlushDue
  <2>2. QED
    BY <1>0, <2>1 DEF ClocksOK, ClocksAgree
<1>9. CASE TimedDelete
  <2>1. /\ recv' = recv /\ buffer' = <<>> /\ sinceMsg' = sinceMsg /\ sinceStop' = sinceStop
        /\ sinceSaved' = 0
    BY <1>9 DEF TimedDelete, DeleteMarkers
  <2>2. QED
    BY <1>0, <2>1 DEF ClocksOK, ClocksAgree
<1>10. CASE TimedReceiverStop
  <2>1. /\ sinceMsg > Grace /\ recv.pc = "select" /\ recv'.pc = "stopped" /\ buffer' = buffer
        /\ UNCHANGED clocks
    BY <1>0, <1>10 DEF TimedReceiverStop, ReceiverStop, Receiver
  <2>2. ClocksAgree'
    BY <1>0, <2>1 DEF ClocksAgree, clocks
  <2>3. QED
    BY <1>2, <2>1, <2>2
<1>11. ASSUME NEW state, NEW rs, Vanish(state, rs), FreshClocks PROVE ClocksOK' /\ ClocksAgree'
  BY <1>4, <1>11 DEF Vanish, WaitingForMore
<1>12. CASE TimedExit
  BY <1>11, <1>12 DEF TimedExit, CollectorExit
<1>13. CASE TimedSave
  BY <1>3, <1>11, <1>13 DEF TimedSave, SaveResponses, SaveDuplicate
<1>14. CASE (DatabaseFails \/ CollectorCrash) /\ FreshClocks
  BY <1>11, <1>14 DEF DatabaseFails, CollectorCrash
<1>15. CASE HandOver(FlushDue) /\ UNCHANGED clocks
  <2>1. recv.pc = "handoff" /\ recv'.pc = "ack"
    BY <1>0, <1>15 DEF HandOver, Receiver
  <2>2. ClocksAgree'
    BY <1>0, <1>15, <2>1 DEF ClocksAgree, clocks
  <2>3. QED
    BY <1>2, <1>15, <2>2
<1>16. CASE AckResponse /\ UNCHANGED clocks
  <2>1. recv.pc = "ack" /\ recv'.pc = "select" /\ buffer' = buffer
    BY <1>16 DEF AckResponse, WaitingForMore
  <2>2. ClocksAgree'
    BY <1>0, <1>16, <2>1 DEF ClocksAgree, clocks
  <2>3. QED
    BY <1>2, <1>16, <2>2
<1>17. CASE /\ CollectorStop \/ CollectorCancel \/ CollectorReconnect
               \/ \E m \in ResponsesInTransit : CollectorReceive(m) \/ CollectorSettle(m)
            /\ UNCHANGED clocks
  BY <1>3, <1>17 DEF CollectorStop, CollectorCancel, CollectorReconnect, CollectorReceive, CollectorSettle
<1>18. CASE (CollectorCut("channel", "stalled") \/ CollectorCut("drop", "closed")) /\ UNCHANGED clocks
  BY <1>0, <1>3, <1>18 DEF CollectorCut, Receiver
<1>19. QED
  BY <1>1, <1>5, <1>6, <1>7, <1>8, <1>9, <1>10, <1>12, <1>13, <1>14, <1>15, <1>16, <1>17, <1>18
     DEF CTNext, Untimed

\* Every step with its clocks keeps what the collector keeps without them.
LEMMA TimedStepInv == TimingInv /\ [CTNext]_ctVars => TimingInv'
<1> SUFFICES ASSUME TimingInv, [CTNext]_ctVars PROVE TimingInv'
  OBVIOUS
<1> USE DEF TimingInv
<1>1. ASSUME UNCHANGED <<backboneVars, collectorVars>>
      PROVE  BackboneTypeOK' /\ CInv' /\ CollectorOnce' /\ \A r \in Rids : answers'[r] <= 1
  <2>1. BackboneTypeOK' /\ \A r \in Rids : answers'[r] <= 1
    BY <1>1 DEF backboneVars, BackboneTypeOK
  <2>2. CInv'
    BY <1>1 DEF backboneVars, collectorVars, CInv, CollectorTypeOK, HandFull, SavedBeforeDeleted
  <2>3. CollectorOnce'
    BY <1>1, OutsideCollectorOnce DEF backboneVars
  <2>4. QED
    BY <2>1, <2>2, <2>3
<1>2. ASSUME NEW r \in Rids, AnswerArrives(r)
      PROVE  BackboneTypeOK' /\ CInv' /\ CollectorOnce' /\ \A q \in Rids : answers'[q] <= 1
  <2>1. /\ answers[r] = 0 /\ answers' = [answers EXCEPT ![r] = @ + 1]
        /\ responsesQueue' = responsesQueue \cup {<<r, 1>>} /\ inflight' = inflight \cup {r}
        /\ UNCHANGED <<requests, responses, routed, spent, collectorVars>>
    BY <1>2 DEF AnswerArrives, Answer
  <2>2. BackboneTypeOK' /\ \A q \in Rids : answers'[q] <= 1
    BY <2>1 DEF BackboneTypeOK, ResponseMsgs
  <2>3. CInv'
    BY <2>1 DEF collectorVars, CInv, CollectorTypeOK, HandFull, SavedBeforeDeleted
  <2>4. CollectorOnce'
    BY <1>2, <2>1, OutsideCollectorOnce DEF AnswerArrives
  <2>5. QED
    BY <2>2, <2>3, <2>4
<1>3. ASSUME CollectorNext
      PROVE  BackboneTypeOK' /\ CInv' /\ CollectorOnce' /\ \A r \in Rids : answers'[r] <= 1
  BY <1>3, CollectorStepInv, CollectorOnceStep, CollectorOutside
<1>4. CASE CTNext
  <2>1. BackboneTypeOK' /\ CInv' /\ CollectorOnce' /\ \A r \in Rids : answers'[r] <= 1
    BY <1>1, <1>2, <1>3, <1>4, TimedSteps DEF Tick
  <2>2. QED
    BY <1>4, <2>1, ClocksStep
<1>5. CASE UNCHANGED ctVars
  <2>1. ClocksOK' /\ ClocksAgree'
    BY <1>5 DEF ctVars, clocks, collectorVars, ClocksOK, ClocksAgree
  <2>2. QED
    BY <1>1, <1>5, <2>1 DEF ctVars
<1>6. QED
  BY <1>4, <1>5

LEMMA TimedInit == CTInit => TimingInv /\ AnswersKept
<1> SUFFICES ASSUME CTInit PROVE TimingInv /\ AnswersKept
  OBVIOUS
<1>1. CInv /\ CollectorOnce /\ AnswersKept
  BY CInitInv, CInitOnce DEF CTInit
<1>2. BackboneTypeOK /\ \A r \in Rids : answers[r] <= 1
  BY DEF CTInit, BackboneInit, BackboneTypeOK
<1>3. ClocksOK /\ ClocksAgree
  BY TimingAssumption DEF CTInit, CollectorInit, ClocksOK, ClocksAgree, WaitingForMore
<1>4. QED
  BY <1>1, <1>2, <1>3 DEF TimingInv

(***************************************************************************)
(* The timed collector keeps all that the untimed one does, its clocks     *)
(* stay within their bounds, and how long it has not saved is no less than *)
(* how long it has received nothing and been about to exit, while records  *)
(* wait in its buffer; for any batch size, periods and faults.             *)
(* (saveResponseInBuffer, receiveResponses)                                *)
(***************************************************************************)
THEOREM TimedInvariant == CTSpec => []TimingInv
<1>1. CTInit => TimingInv
  BY TimedInit
<1>2. QED
  BY <1>1, TimedStepInv, PTL DEF CTSpec

-----------------------------------------------------------------------------
\* Where grace period and sleep outlast the auto-flush, the buffer is empty by the
\* time of the exit: the flush came due first, and time waits for it.
LEMMA ExitsEmpty ==
  ASSUME TimingInv, AutoFlush < Grace + ExitDelay, TimedExit
  PROVE  buffer = <<>>
<1>1. recv.pc = "stopped" /\ sinceStop = ExitDelay
  BY DEF TimedExit, CollectorExit
<1>2. /\ Grace \in Nat /\ AutoFlush \in Nat /\ ExitDelay \in Nat
      /\ sinceSaved \in Nat /\ sinceSaved <= AutoFlush + 1
  BY TimingAssumption DEF TimingInv, ClocksOK
<1>3. buffer # <<>> => sinceSaved > Grace + ExitDelay
  BY <1>1 DEF TimingInv, ClocksAgree
<1>4. QED
  BY <1>2, <1>3

LEMMA GracefulStep ==
  ASSUME AutoFlush < Grace + ExitDelay, TimingInv, TimingInv', [CTNext]_ctVars, GracefulExitSavesAll
  PROVE  GracefulExitSavesAll'
<1> DEFINE Calm == NoFault({"collectorCrash", "database", "drop", "channel"})
<1> SUFFICES ASSUME Calm' PROVE AnswersKept'
  BY DEF GracefulExitSavesAll
<1>0. Unprovoked' /\ BackboneTypeOK /\ CInv /\ CollectorOnce
  BY DEF TimingInv, Unprovoked
<1>1. ASSUME Calm PROVE AnswersKept
  BY <1>1 DEF GracefulExitSavesAll
<1>2. CASE CollectorNext /\ CTNext
  <2>1. AnswersKept
    BY <1>0, <1>1, <1>2, StaysUnprovoked DEF Unprovoked
  <2>2. CollectorExit => buffer = <<>>
    <3> SUFFICES ASSUME CollectorExit PROVE buffer = <<>>
      OBVIOUS
    <3>1. recv.pc = "stopped" /\ cState = "stopping" /\ cState' = "down"
      BY DEF CollectorExit, Vanish
    <3>2. CASE TimedExit
      BY <3>2, ExitsEmpty
    <3>3. CASE Tick \/ \E r \in Rids : AnswerArrives(r)
      BY <3>1, <3>3 DEF Tick, AnswerArrives, collectorVars
    <3>4. CASE DatabaseFails \/ CollectorCrash \/ CollectorCut("channel", "stalled")
               \/ CollectorCut("drop", "closed")
      BY <1>0, <1>2, <3>4, StaysUnprovoked
    <3>5. QED
      BY <1>2, <3>1, <3>2, <3>3, <3>4
         DEF CTNext, TimedStart, TimedTake, TimedAutoFlush, TimedDelete, TimedReceiverStop,
             TimedSave, Untimed, CollectorStart, CollectorStartDeaf, TakeResponse, AutoFlushDue,
             DeleteMarkers, ReceiverStop, SaveResponses, SaveDuplicate, Vanish, HandOver, AckResponse,
             CollectorStop, CollectorCancel, CollectorReconnect, CollectorReceive, CollectorSettle
  <2>3. QED
    BY <1>0, <1>2, <2>1, <2>2, CollectorKeepsAnswers
<1>3. CASE Tick \/ UNCHANGED ctVars
  <2>1. UNCHANGED <<backboneVars, collectorVars>>
    BY <1>3 DEF Tick, ctVars
  <2>2. Calm
    BY <2>1 DEF backboneVars, NoFault
  <2>3. QED
    BY <1>0, <1>1, <2>1, <2>2, OutsideKeepsAnswers DEF backboneVars
<1>4. ASSUME NEW r \in Rids, AnswerArrives(r) PROVE AnswersKept'
  <2>1. Calm
    BY <1>4 DEF AnswerArrives, NoFault
  <2>2. QED
    BY <1>0, <1>1, <1>4, <2>1, OutsideKeepsAnswers DEF AnswerArrives
<1>5. QED
  BY <1>2, <1>3, <1>4, TimedSteps

(***************************************************************************)
(* A graceful exit loses no answer where the grace period and the sleep    *)
(* together outlast the auto-flush, for any such periods, batch and        *)
(* channel sizes, number of answers, stops and restarts, deaf starts       *)
(* included.  With the defaults (5 s, 2 s, 10 s) the hypothesis is false,  *)
(* and the run collector_defaults shows the answer that is lost.           *)
(* (receiveResponses, saveResponseInBuffer, waitingForTheWorldToEnd)       *)
(***************************************************************************)
THEOREM GracefulExits ==
  ASSUME AutoFlush < Grace + ExitDelay
  PROVE  CTSpec => []GracefulExitSavesAll
<1>1. CTInit => GracefulExitSavesAll
  BY TimedInit DEF GracefulExitSavesAll
<1>2. TimingInv /\ TimingInv' /\ [CTNext]_ctVars /\ GracefulExitSavesAll => GracefulExitSavesAll'
  BY GracefulStep
<1>3. QED
  BY <1>1, <1>2, TimedInvariant, PTL DEF CTSpec
=============================================================================
