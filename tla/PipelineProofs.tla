---------------------------- MODULE PipelineProofs ----------------------------
(***************************************************************************)
(* PInv is an invariant of the whole pipeline, so that for any number of   *)
(* checks, regions, worker processes and goroutines, any batch and channel *)
(* size and any faults: no request is lost by the workers short of a crash *)
(* or a lost answer, and a marked request stays in flight until its        *)
(* response is saved.  A step belongs to one process; the other two keep   *)
(* their parts of PInv because it leaves their variables alone.  POnce     *)
(* counts in the same way: extra answers are paid for by faults, and the   *)
(* collector neither fails nor loses a response without one.               *)
(***************************************************************************)
EXTENDS CheckPipeline, WorkerProofs, CollectorProofs

\* A pipeline that has not started satisfies the invariant.
LEMMA InitPInv == Init => PInv
<1> SUFFICES ASSUME Init PROVE PInv
  OBVIOUS
<1>1. WInv
  BY WInitInv DEF Init
<1>2. CInv
  BY CInitInv DEF Init
<1>3. SchedulerTypeOK /\ LostStayInFlight
  BY DEF Init, SchedulerInit, SchedulerTypeOK, LostStayInFlight, Stages
<1>4. WorkersWithin(Asked)
  BY FreshLinkTypes DEF Init, BackboneInit, WorkerInit, WorkersWithin, Stopped, Idle
<1>5. CollectorWithin(Asked)
  BY FreshLinkTypes, EmptySeq DEF Init, BackboneInit, CollectorInit, CollectorWithin, WaitingForMore
<1>6. QED
  BY <1>1, <1>2, <1>3, <1>4, <1>5 DEF PInv, OnlyAsked

\* Whatever step is taken, a fault once counted stays counted.
LEMMA FaultsStay ==
  ASSUME BackboneTypeOK, spent' = spent \/ \E f \in Faults : Spend(f), Lossless'
  PROVE  Lossless
  BY SpendFact, FaultNames DEF BackboneTypeOK, Lossless, NoFault

-----------------------------------------------------------------------------
\* What is in transit stays within a set of requests that is no smaller.
LEMMA SeqMonotone ==
  ASSUME NEW S, NEW T, S \subseteq T, NEW s \in Seq(S)
  PROVE  s \in Seq(T)
<1>1. s \in [1 .. Len(s) -> S] /\ Len(s) \in Nat
  BY LenProperties
<1>2. s \in [1 .. Len(s) -> T]
  BY <1>1
<1>3. QED
  BY <1>1, <1>2, SeqDef

LEMMA LinkMonotone ==
  ASSUME NEW M, NEW N, M \subseteq N, NEW k \in Link(M)
  PROVE  k \in Link(N)
<1>1. k.ch \in Seq(Delivery(M)) /\ Delivery(M) \subseteq Delivery(N)
  BY DEF Link, Delivery
<1>2. k.ch \in Seq(Delivery(N))
  BY <1>1, SeqMonotone
<1>3. QED
  BY <1>2 DEF Link

LEMMA WithinMonotone ==
  ASSUME NEW A, NEW B, A \subseteq B, WorkersWithin(A), CollectorWithin(A)
  PROVE  WorkersWithin(B) /\ CollectorWithin(B)
<1>1. AnswersTo(A) \subseteq AnswersTo(B)
  BY DEF AnswersTo
<1>2. Delivery(AnswersTo(A)) \subseteq Delivery(AnswersTo(B))
  BY <1>1 DEF Delivery
<1>3. WorkersWithin(B)
  BY <1>1, LinkMonotone DEF WorkersWithin
<1>4. cLink \in Link(AnswersTo(B))
  BY <1>1, LinkMonotone DEF CollectorWithin
<1>5. recv.hand \in Seq(Delivery(AnswersTo(B))) /\ buffer \in Seq(B)
  BY <1>2, SeqMonotone DEF CollectorWithin
<1>6. CollectorWithin(B)
  BY <1>1, <1>4, <1>5 DEF CollectorWithin
<1>7. QED
  BY <1>3, <1>6

\* A worker answers what it was asked, and gives back what it did not answer.
LEMMA WorkerStepWithin ==
  ASSUME WInv, NEW A, A \subseteq Rids, WorkersWithin(A), NEW w \in Workers, WorkerNext(w)
  PROVE  WorkersWithin(A)'
<1> USE DEF WorkersWithin
<1>0. /\ wLink[w] \in Link(A) /\ Region[w] \in Bound
      /\ job \in [Workers -> [Goroutines -> Job]]
  BY WorkerAssumption DEF WInv, WorkerTypeOK
<1>1. CASE WorkerStart(w)
  BY <1>1, FreshLinkTypes DEF WorkerStart, SetLink, backboneVars, Idle
<1>2. CASE WorkerStop(w)
  BY <1>2 DEF WorkerStop
<1>3. CASE WorkerCancel(w)
  BY <1>3, <1>0, CancelledType DEF WorkerCancel, SetLink, backboneVars
<1>4. CASE WorkerExit(w)
  <2>1. ReturnedByClose(wLink[w]) \subseteq A
    BY <1>0 DEF ReturnedByClose, Link
  <2>2. QED
    BY <1>4, <1>0, <2>1, FreshLinkTypes DEF WorkerExit, SetLink, Requeue
<1>5. CASE WorkerCrash(w)
  <2>1. ReturnedByCrash(wLink[w]) \subseteq A
    BY <1>0 DEF ReturnedByCrash, Link
  <2>2. \A v \in Workers, g \in Goroutines :
           job'[v][g].pc \in {"check", "publish"} => job'[v][g].rid \in A
    BY <1>5, <1>0 DEF WorkerCrash, Stopped, Idle
  <2>3. QED
    BY <1>5, <1>0, <2>1, <2>2, FreshLinkTypes DEF WorkerCrash, SetLink, Requeue
<1>6. ASSUME NEW fault \in {"drop", "channel"}, NEW how \in {"closed", "stalled"},
             WorkerCut(w, fault, how)
      PROVE  WorkersWithin(A)'
  <2>1. ReturnedByCrash(wLink[w]) \subseteq A
    BY <1>0 DEF ReturnedByCrash, Link
  <2>2. QED
    BY <1>6, <1>0, <2>1, CutType DEF WorkerCut, SetLink, Requeue
<1>7. CASE WorkerReconnect(w)
  BY <1>7, <1>0, ReconnectedType DEF WorkerReconnect, SetLink, backboneVars
<1>8. ASSUME NEW r \in Rids, WorkerReceive(w, r) PROVE WorkersWithin(A)'
  <2>1. r \in A
    BY <1>8, <1>0 DEF WorkerReceive
  <2>2. QED
    BY <1>8, <1>0, <2>1, ReceivedType DEF WorkerReceive, SetLink
<1>9. ASSUME NEW r \in Rids, WorkerSettle(w, r) PROVE WorkersWithin(A)'
  <2>1. r \in A
    BY <1>9, <1>0 DEF WorkerSettle, Link
  <2>2. QED
    BY <1>9, <1>0, <2>1, SettledType DEF WorkerSettle, SetLink, backboneVars
<1>10. ASSUME NEW g \in Goroutines, GoroutineStep(w, g) PROVE WorkersWithin(A)'
  <2>1. CASE Take(w, g)
    <3> DEFINE d == Head(wLink[w].ch)
               k == [wLink[w] EXCEPT !.ch = Tail(@)]
               j == [pc |-> "check", rid |-> d.msg, attempts |-> 0]
    <3>1. d \in Delivery(A) /\ k \in Link(A)
      BY <2>1, <1>0, TakenType DEF Take
    <3>2. Acked(k, d) \in Link(A)
      BY <3>1, AckedType
    <3>3. j.rid \in A
      BY <3>1 DEF Delivery
    <3>4. /\ SetLink(w, Acked(k, d)) /\ (job' = job \/ SetJob(w, g, j))
          /\ requests' = requests /\ responsesQueue' = responsesQueue
      BY <2>1 DEF Take, backboneVars
    <3> HIDE DEF d, k, j
    <3>5. wLink' \in [Workers -> Link(A)]
      BY <3>2, <3>4 DEF SetLink
    <3>6. \A v \in Workers, h \in Goroutines :
             job'[v][h].pc \in {"check", "publish"} => job'[v][h].rid \in A
      <4>1. CASE job' = job
        BY <4>1
      <4>2. CASE SetJob(w, g, j)
        BY <1>0, <3>3, <4>2, OtherJobsKept
      <4>3. QED
        BY <3>4, <4>1, <4>2
    <3>7. QED
      BY <3>4, <3>5, <3>6
  <2>2. CASE Attempt(w, g)
    <3>1. PICK pc \in {"check", "publish"} :
             SetJob(w, g, [job[w][g] EXCEPT !.attempts = job[w][g].attempts + 1, !.pc = pc])
      BY <2>2 DEF Attempt
    <3> DEFINE j == [job[w][g] EXCEPT !.attempts = job[w][g].attempts + 1, !.pc = pc]
    <3>2. job[w][g] \in Job /\ job[w][g].pc = "check"
      BY <1>0, <2>2 DEF Attempt
    <3>3. j.rid \in A
      BY <3>2 DEF Job
    <3>4. SetJob(w, g, j)
      BY <3>1
    <3> HIDE DEF j
    <3>5. \A v \in Workers, h \in Goroutines :
             job'[v][h].pc \in {"check", "publish"} => job'[v][h].rid \in A
      <4>1. /\ job'[w][g] = j
            /\ \A v \in Workers, h \in Goroutines :
                  <<v, h>> # <<w, g>> => job'[v][h] = job[v][h]
        BY <1>0, <3>4, OtherJobsKept
      <4>2. QED
        BY <3>3, <4>1
    <3>6. QED
      BY <2>2, <3>5 DEF Attempt, backboneVars
  <2>3. CASE PublishAnswer(w, g)
    <3>1. job[w][g].rid \in A /\ answers[job[w][g].rid] \in Nat
      BY <2>3 DEF PublishAnswer, WInv, BackboneTypeOK
    <3>2. responsesQueue' \subseteq AnswersTo(A)
      BY <2>3, <3>1 DEF PublishAnswer, Answer, AnswersTo
    <3>3. \A v \in Workers, h \in Goroutines :
             job'[v][h].pc \in {"check", "publish"} => job'[v][h].rid \in A
      BY <1>0, <2>3, OtherJobsKept DEF PublishAnswer, Idle
    <3>4. QED
      BY <2>3, <3>2, <3>3 DEF PublishAnswer
  <2>4. CASE LoseAnswer(w, g) \/ GoroutineStop(w, g)
    <3>1. \A v \in Workers, h \in Goroutines :
             job'[v][h].pc \in {"check", "publish"} => job'[v][h].rid \in A
      BY <1>0, <2>4, OtherJobsKept DEF LoseAnswer, GoroutineStop, Stopped, Idle
    <3>2. QED
      BY <2>4, <3>1 DEF LoseAnswer, GoroutineStop, backboneVars
  <2>5. QED
    BY <1>10, <2>1, <2>2, <2>3, <2>4 DEF GoroutineStep
<1>11. QED
  BY <1>1, <1>2, <1>3, <1>4, <1>5, <1>6, <1>7, <1>8, <1>9, <1>10 DEF WorkerNext

\* A process that is gone leaves what it gave back and what it saved.
LEMMA VanishWithin ==
  ASSUME NEW A, CollectorWithin(A), NEW state, NEW rs, rs \subseteq cLink.unacked,
         Vanish(state, rs), responses' \subseteq A
  PROVE  CollectorWithin(A)'
<1>1. rs \subseteq AnswersTo(A)
  BY DEF CollectorWithin, Link
<1>2. QED
  BY <1>1, FreshLinkTypes, EmptySeq DEF CollectorWithin, Vanish, WaitingForMore

\* What is saved of the buffer is within it.
LEMMA SavedWithin ==
  ASSUME NEW A, CollectorWithin(A), NEW n \in Nat, n <= Len(buffer), FirstSaved(n)
  PROVE  responses' \subseteq A
<1>1. Len(buffer) \in Nat
  BY LenProperties DEF CollectorWithin
<1>2. \A i \in 1 .. n : i \in 1 .. Len(buffer)
  BY <1>1
<1>3. \A i \in 1 .. n : buffer[i] \in A
  BY <1>2, ElementOfSeq DEF CollectorWithin
<1>4. QED
  BY <1>3 DEF FirstSaved, CollectorWithin

\* The collector saves what it received, and gives back what it did not save.
LEMMA CollectorStepWithin ==
  ASSUME CInv, NEW A, A \subseteq Rids, CollectorWithin(A), CollectorNext
  PROVE  CollectorWithin(A)'
<1> DEFINE M == AnswersTo(A)
<1>0. /\ cLink \in Link(M) /\ recv.hand \in Seq(Delivery(M)) /\ buffer \in Seq(A)
      /\ Len(buffer) \in Nat /\ responsesQueue \subseteq M /\ recv \in Receiver
  BY LenProperties DEF CollectorWithin, CInv, CollectorTypeOK
<1> HIDE DEF M
<1>m. M = AnswersTo(A)
  BY DEF M
<1>1. CASE CollectorStart
  BY <1>1, <1>m, FreshLinkTypes DEF CollectorStart, backboneVars, CollectorWithin
<1>2. CASE CollectorStartDeaf
  <2>1. cLink' \in Link(M)
    BY <1>2, FreshLinkTypes, CancelledType DEF CollectorStartDeaf
  <2>2. QED
    BY <1>2, <1>m, <2>1 DEF CollectorStartDeaf, CollectorWithin
<1>3. CASE CollectorStop
  BY <1>3 DEF CollectorStop, CollectorWithin
<1>4. CASE TakeResponse
  <2>1. Head(cLink.ch) \in Delivery(M) /\ cLink' \in Link(M)
    BY <1>0, <1>4, TakenType DEF TakeResponse
  <2>2. recv'.hand \in Seq(Delivery(M))
    BY <1>4, <2>1 DEF TakeResponse, Receiving
  <2>3. QED
    BY <1>4, <1>m, <2>1, <2>2 DEF TakeResponse, backboneVars, CollectorWithin
<1>5. ASSUME NEW due \in BOOLEAN, HandOver(due) PROVE CollectorWithin(A)'
  <2>1. recv.hand # <<>>
    BY <1>5 DEF HandOver, CInv, HandFull
  <2>2. Head(recv.hand) \in Delivery(M)
    BY <1>0, <2>1, HeadTailProperties
  <2>3. Rid(Head(recv.hand).msg) \in A
    BY <2>2, <1>m DEF Delivery, AnswersTo, Rid
  <2>4. buffer' \in Seq(A)
    BY <1>0, <1>5, <2>3, AppendProperties DEF HandOver
  <2>5. recv'.hand = recv.hand
    BY <1>0, <1>5 DEF HandOver, Receiver
  <2>6. QED
    BY <1>5, <2>4, <2>5 DEF HandOver, backboneVars, CollectorWithin
<1>6. CASE AckResponse
  <2>1. recv.hand # <<>>
    BY <1>6 DEF AckResponse, CInv, HandFull
  <2>2. Head(recv.hand) \in Delivery(M)
    BY <1>0, <2>1, HeadTailProperties
  <2>3. cLink' \in Link(M)
    BY <1>0, <1>6, <2>2, AckedType DEF AckResponse
  <2>4. recv'.hand \in Seq(Delivery(M))
    BY <1>6, EmptySeq DEF AckResponse, WaitingForMore
  <2>5. QED
    BY <1>6, <1>m, <2>3, <2>4 DEF AckResponse, backboneVars, CollectorWithin
<1>7. CASE AutoFlushDue
  BY <1>7 DEF AutoFlushDue, backboneVars, CollectorWithin
<1>8. CASE SaveResponses
  <2>1. responses' \subseteq A
    BY <1>0, <1>8, SavedWithin DEF SaveResponses
  <2>2. QED
    BY <1>8, <2>1 DEF SaveResponses, CollectorWithin
<1>9. CASE DeleteMarkers
  BY <1>9, EmptySeq DEF DeleteMarkers, CollectorWithin
<1>10. CASE SaveDuplicate
  <2>1. PICK n \in 0 .. Len(buffer) - 1 : FirstSaved(n)
    BY <1>10 DEF SaveDuplicate
  <2>2. n \in Nat /\ n <= Len(buffer)
    BY <1>0, <2>1
  <2>3. responses' \subseteq A
    BY <2>1, <2>2, SavedWithin
  <2>4. QED
    BY <1>10, <2>3, VanishWithin DEF SaveDuplicate, ReturnedByCrash
<1>11. ASSUME \E n \in SavedPart : FirstSaved(n) PROVE responses' \subseteq A
  <2>1. PICK n \in SavedPart : FirstSaved(n)
    BY <1>11
  <2>2. n \in Nat /\ n <= Len(buffer)
    BY <1>0, <2>1 DEF SavedPart
  <2>3. QED
    BY <2>1, <2>2, SavedWithin
<1>12. CASE DatabaseFails \/ CollectorCrash
  BY <1>11, <1>12, VanishWithin DEF DatabaseFails, CollectorCrash, ReturnedByCrash
<1>13. CASE CollectorExit
  <2>1. ReturnedByClose(cLink) \subseteq cLink.unacked
    BY DEF ReturnedByClose
  <2>2. QED
    BY <1>11, <1>13, <2>1, VanishWithin DEF CollectorExit
<1>14. CASE CollectorCancel
  BY <1>0, <1>m, <1>14, CancelledType DEF CollectorCancel, backboneVars, CollectorWithin
<1>15. CASE ReceiverStop
  <2>1. recv'.hand = recv.hand
    BY <1>0, <1>15 DEF ReceiverStop, Receiver
  <2>2. QED
    BY <1>15, <2>1 DEF ReceiverStop, backboneVars, CollectorWithin
<1>16. CASE CollectorReconnect
  BY <1>0, <1>m, <1>16, ReconnectedType DEF CollectorReconnect, backboneVars, CollectorWithin
<1>17. ASSUME NEW m \in ResponsesInTransit, CollectorReceive(m) \/ CollectorSettle(m)
       PROVE  CollectorWithin(A)'
  <2>1. m \in M
    BY <1>0 DEF ResponsesInTransit, Link
  <2>2. CASE CollectorReceive(m)
    BY <1>0, <1>m, <2>1, <2>2, ReceivedType DEF CollectorReceive, CollectorWithin
  <2>3. CASE CollectorSettle(m)
    BY <1>0, <1>m, <2>1, <2>3, SettledType DEF CollectorSettle, backboneVars, CollectorWithin
  <2>4. QED
    BY <1>17, <2>2, <2>3
<1>18. ASSUME NEW fault \in {"drop", "channel"}, NEW how \in {"closed", "stalled"},
              CollectorCut(fault, how)
       PROVE  CollectorWithin(A)'
  <2>1. cLink' \in Link(M) /\ ReturnedByCrash(cLink) \subseteq M
    BY <1>0, <1>18, CutType DEF CollectorCut, ReturnedByCrash, Link
  <2>2. recv'.hand \in Seq(Delivery(M))
    BY <1>0, <1>18, StaleType DEF CollectorCut, Receiver
  <2>3. responsesQueue' \subseteq M /\ buffer' = buffer /\ responses' = responses
    BY <1>0, <1>18, <2>1 DEF CollectorCut
  <2>4. QED
    BY <1>m, <2>1, <2>2, <2>3 DEF CollectorWithin
<1>19. QED
  BY <1>1, <1>2, <1>3, <1>4, <1>5, <1>6, <1>7, <1>8, <1>9, <1>10, <1>12, <1>13, <1>14,
     <1>15, <1>16, <1>17, <1>18
     DEF CollectorNext, CollectorWork, CollectorFault

-----------------------------------------------------------------------------
\* What a step of the scheduler leaves behind is well typed, and a firing
\* counts as done only once its marker is written.
LEMMA SchedulerTypes ==
  ASSUME BackboneTypeOK, SchedulerTypeOK, LostStayInFlight, SchedulerNext
  PROVE  /\ BackboneTypeOK' /\ SchedulerTypeOK' /\ LostStayInFlight'
         /\ responses' = responses
<1> USE DEF BackboneTypeOK, SchedulerTypeOK, LostStayInFlight, Stage, Stages
<1>1. CASE SchedulerStart \/ Unpause
  BY <1>1 DEF SchedulerStart, Unpause, backboneVars
<1>2. CASE SchedulerCrash
  <2>1. spent' \in [Faults -> Nat]
    BY <1>2, SpendFact DEF SchedulerCrash, Faults
  <2>2. /\ run' \in [Rids -> Stages]
        /\ \A r \in Rids : run'[r] = "done" => run[r] = "done"
    BY <1>2 DEF SchedulerCrash
  <2>3. QED
    BY <1>2, <2>1, <2>2 DEF SchedulerCrash, historyVars
<1>3. ASSUME NEW r \in Rids, Fire(r)
      PROVE  /\ BackboneTypeOK' /\ SchedulerTypeOK' /\ LostStayInFlight'
             /\ responses' = responses
  BY <1>3 DEF Fire, backboneVars
<1>4. ASSUME NEW r \in Rids, PublishRequest(r)
      PROVE  /\ BackboneTypeOK' /\ SchedulerTypeOK' /\ LostStayInFlight'
             /\ responses' = responses
  BY <1>4, RouteFact DEF PublishRequest
<1>5. ASSUME NEW r \in Rids, LoseRequest(r)
      PROVE  /\ BackboneTypeOK' /\ SchedulerTypeOK' /\ LostStayInFlight'
             /\ responses' = responses
  <2>1. spent' \in [Faults -> Nat]
    BY <1>5, SpendFact DEF LoseRequest, Faults
  <2>2. QED
    BY <1>5, <2>1 DEF LoseRequest, historyVars
<1>6. ASSUME NEW r \in Rids, MarkInFlight(r)
      PROVE  /\ BackboneTypeOK' /\ SchedulerTypeOK' /\ LostStayInFlight'
             /\ responses' = responses
  BY <1>6 DEF MarkInFlight, historyVars
<1>7. ASSUME NEW r \in Rids, MarkFails(r)
      PROVE  /\ BackboneTypeOK' /\ SchedulerTypeOK' /\ LostStayInFlight'
             /\ responses' = responses
  <2>1. spent' \in [Faults -> Nat]
    BY <1>7, SpendFact DEF MarkFails, Faults
  <2>2. QED
    BY <1>7, <2>1 DEF MarkFails, historyVars
<1>8. QED
  BY <1>1, <1>2, <1>3, <1>4, <1>5, <1>6, <1>7 DEF SchedulerNext, QueueStep

\* A step of the scheduler only adds to the request queues.
LEMMA SchedulerOutside ==
  ASSUME BackboneTypeOK, SchedulerNext
  PROVE  /\ answers' = answers
         /\ spent' = spent \/ \E f \in Faults : Spend(f)
         /\ \A g \in Bound : requests[g] \subseteq requests'[g]
         /\ \A r \in routed' : r \in routed \/ \E g \in Bound : r \in requests'[g]
<1>1. CASE \E r \in Rids : PublishRequest(r)
  BY <1>1, RouteFact DEF PublishRequest, BackboneTypeOK
<1>2. CASE ~ \E r \in Rids : PublishRequest(r)
  BY <1>2 DEF SchedulerNext, SchedulerStart, Unpause, SchedulerCrash, QueueStep, Fire,
              LoseRequest, MarkInFlight, MarkFails, backboneVars, historyVars, Faults
<1>3. QED
  BY <1>1, <1>2

\* What the scheduler puts into a queue is asked for from then on.
LEMMA SchedulerWithin ==
  ASSUME PInv, SchedulerNext, UNCHANGED <<workerVars, collectorVars>>
  PROVE  OnlyAsked'
<1>1. Asked \subseteq Asked'
  BY DEF SchedulerNext, SchedulerStart, Unpause, SchedulerCrash, QueueStep, Fire, PublishRequest,
         LoseRequest, MarkInFlight, MarkFails, Stage, PInv, SchedulerTypeOK, Asked
<1>2. PICK B : B = Asked'
  OBVIOUS
<1>3. WorkersWithin(B) /\ CollectorWithin(B)
  BY <1>1, <1>2, WithinMonotone DEF PInv, OnlyAsked
<1>4. responsesQueue' = responsesQueue /\ responses' = responses
  BY DEF SchedulerNext, SchedulerStart, Unpause, SchedulerCrash, QueueStep, Fire, PublishRequest,
         LoseRequest, MarkInFlight, MarkFails, backboneVars
<1>5. requests' \in [Bound -> SUBSET B]
  <2>1. ASSUME NEW r \in Rids, PublishRequest(r) PROVE requests' \in [Bound -> SUBSET B]
    <3>1. r \in B
      BY <1>2, <2>1 DEF PublishRequest, Stage, Asked, PInv, SchedulerTypeOK
    <3>2. QED
      BY <1>3, <2>1, <3>1 DEF PublishRequest, Route, WorkersWithin
  <2>2. CASE requests' = requests
    BY <1>3, <2>2 DEF WorkersWithin
  <2>3. QED
    BY <2>1, <2>2 DEF SchedulerNext, SchedulerStart, Unpause, SchedulerCrash, QueueStep, Fire,
                      LoseRequest, MarkInFlight, MarkFails, backboneVars
<1>6. QED
  BY <1>2, <1>3, <1>4, <1>5
     DEF OnlyAsked, WorkersWithin, CollectorWithin, workerVars, collectorVars

\* A step of the scheduler keeps the invariant.
LEMMA SchedulerStepInv ==
  ASSUME PInv, SchedulerNext, UNCHANGED <<workerVars, collectorVars>>
  PROVE  PInv'
<1>1. /\ BackboneTypeOK' /\ SchedulerTypeOK' /\ LostStayInFlight'
      /\ responses' = responses
  BY SchedulerTypes DEF PInv, WInv
<1>2. WInv'
  <2>1. Lossless' => Lossless
    BY SchedulerOutside, FaultsStay DEF PInv, WInv
  <2>2. QED
    BY <1>1, <2>1, SchedulerOutside, OutsideStepInv DEF PInv, WInv
<1>3. CInv'
  BY <1>1 DEF PInv, CInv, CollectorTypeOK, HandFull, SavedBeforeDeleted, collectorVars
<1>4. QED
  BY <1>1, <1>2, <1>3, SchedulerWithin DEF PInv

-----------------------------------------------------------------------------
\* A worker touches neither the markers nor the saved responses.
LEMMA WorkerOutside ==
  ASSUME NEW w \in Workers, WorkerNext(w)
  PROVE  inflight' = inflight /\ responses' = responses
  BY DEF WorkerNext, WorkerStart, WorkerStop, WorkerCancel, WorkerExit, WorkerCrash,
         WorkerCut, WorkerReconnect, WorkerReceive, WorkerSettle, GoroutineStep,
         Take, Attempt, PublishAnswer, LoseAnswer, GoroutineStop, backboneVars

\* What a worker step leaves in transit was in transit.
LEMMA WorkerWithin ==
  ASSUME PInv, NEW w \in Workers, WorkerNext(w), UNCHANGED <<schedulerVars, collectorVars>>
  PROVE  OnlyAsked'
<1>1. PICK A : A = Asked
  OBVIOUS
<1>2. A \subseteq Rids /\ Asked' = A
  BY <1>1 DEF Asked, schedulerVars
<1>3. WorkersWithin(A) /\ CollectorWithin(A)
  BY <1>1 DEF PInv, OnlyAsked
<1>4. WorkersWithin(A)'
  BY <1>2, <1>3, WorkerStepWithin DEF PInv
<1>5. CollectorWithin(A)'
  BY <1>3, <1>4, WorkerOutside DEF WorkersWithin, CollectorWithin, collectorVars
<1>6. QED
  BY <1>2, <1>4, <1>5 DEF OnlyAsked, WorkersWithin, CollectorWithin

\* A step of a worker keeps the invariant.
LEMMA WorkerStepPInv ==
  ASSUME PInv, NEW w \in Workers, WorkerNext(w), UNCHANGED <<schedulerVars, collectorVars>>
  PROVE  PInv'
<1>1. WInv'
  BY WorkerStepInv DEF PInv
<1>2. inflight' = inflight /\ responses' = responses
  BY WorkerOutside
<1>3. SchedulerTypeOK' /\ LostStayInFlight'
  BY <1>2 DEF PInv, SchedulerTypeOK, LostStayInFlight, schedulerVars
<1>4. CInv'
  BY <1>2 DEF PInv, CInv, CollectorTypeOK, HandFull, SavedBeforeDeleted, collectorVars
<1>5. QED
  BY <1>1, <1>3, <1>4, WorkerWithin DEF PInv

-----------------------------------------------------------------------------
\* The collector invents nothing.
LEMMA CollectorStaysWithin ==
  ASSUME PInv, CollectorNext, UNCHANGED <<schedulerVars, workerVars>>
  PROVE  OnlyAsked'
<1>1. PICK A : A = Asked
  OBVIOUS
<1>2. A \subseteq Rids /\ Asked' = A
  BY <1>1 DEF Asked, schedulerVars
<1>3. WorkersWithin(A) /\ CollectorWithin(A)
  BY <1>1 DEF PInv, OnlyAsked
<1>4. CollectorWithin(A)'
  BY <1>2, <1>3, CollectorStepWithin DEF PInv
<1>5. WorkersWithin(A)'
  BY <1>3, <1>4, CollectorOutside DEF WorkersWithin, CollectorWithin, workerVars
<1>6. QED
  BY <1>2, <1>4, <1>5 DEF OnlyAsked, WorkersWithin, CollectorWithin

\* A step of the collector keeps the invariant.
LEMMA CollectorStepPInv ==
  ASSUME PInv, CollectorNext, UNCHANGED <<schedulerVars, workerVars>>
  PROVE  PInv'
<1>1. CInv' /\ BackboneTypeOK'
  BY CollectorStepInv DEF PInv, WInv
<1>2. WInv'
  <2>1. Lossless' => Lossless
    BY CollectorOutside, FaultsStay DEF PInv, WInv
  <2>2. QED
    BY <1>1, <2>1, CollectorOutside, OutsideStepInv DEF PInv
<1>3. SchedulerTypeOK'
  BY DEF PInv, SchedulerTypeOK, schedulerVars
<1>4. LostStayInFlight'
  BY CollectorClearsSaved DEF PInv, WInv, LostStayInFlight, schedulerVars
<1>5. QED
  BY <1>1, <1>2, <1>3, <1>4, CollectorStaysWithin DEF PInv

-----------------------------------------------------------------------------
\* Every step of the pipeline keeps the invariant.
LEMMA NextPInv == PInv /\ [Next]_vars => PInv'
<1> SUFFICES ASSUME PInv, [Next]_vars PROVE PInv'
  OBVIOUS
<1>1. CASE SchedulerNext /\ UNCHANGED <<workerVars, collectorVars>>
  BY <1>1, SchedulerStepInv
<1>2. CASE (\E w \in Workers : WorkerNext(w)) /\ UNCHANGED <<schedulerVars, collectorVars>>
  BY <1>2, WorkerStepPInv
<1>3. CASE CollectorNext /\ UNCHANGED <<schedulerVars, workerVars>>
  BY <1>3, CollectorStepPInv
<1>4. CASE UNCHANGED vars
  <2>1. UNCHANGED <<backboneVars, schedulerVars, workerVars, collectorVars>>
    BY <1>4 DEF vars
  <2>2. BackboneTypeOK' /\ (Lossless' => Lossless)
    BY <2>1 DEF backboneVars, PInv, WInv, BackboneTypeOK, Lossless, NoFault
  <2>3. WInv'
    BY <2>1, <2>2, OutsideStepInv DEF PInv, backboneVars, workerVars
  <2>4. CInv'
    BY <2>1 DEF PInv, CInv, CollectorTypeOK, HandFull, SavedBeforeDeleted,
                collectorVars, backboneVars
  <2>5. SchedulerTypeOK' /\ LostStayInFlight'
    BY <2>1 DEF PInv, SchedulerTypeOK, LostStayInFlight, schedulerVars, backboneVars
  <2>6. OnlyAsked'
    BY <2>1 DEF PInv, OnlyAsked, WorkersWithin, CollectorWithin, Asked,
                backboneVars, schedulerVars, workerVars, collectorVars
  <2>7. QED
    BY <2>3, <2>4, <2>5, <2>6 DEF PInv
<1>5. QED
  BY <1>1, <1>2, <1>3, <1>4 DEF Next

\* The types of every component, and what each relies on, hold in every
\* reachable state of the pipeline.
THEOREM PipelineInvariant == Spec => []PInv
<1>1. QED
  BY InitPInv, NextPInv, PTL DEF Spec

\* A request whose marker was written stays in flight until its response is
\* saved: through crashes of any process, lost connections and messages, failed
\* writes and shutdowns (queue(), saveResponseInBuffer).
THEOREM MarkedStaysInFlight == Spec => []LostStayInFlight
<1>1. PInv => LostStayInFlight
  BY DEF PInv
<1>2. QED
  BY <1>1, PipelineInvariant, PTL

\* In the whole system too, the workers lose no request unless one of them
\* crashes or an answer is lost on the wire.
THEOREM PipelineLosesNoRequest == Spec => []NoRequestLost
<1>1. PInv => NoRequestLost
  BY DEF PInv, WInv
<1>2. QED
  BY <1>1, PipelineInvariant, PTL

-----------------------------------------------------------------------------
\* Nothing has been answered before anything was asked.
LEMMA InitPOnce == Init => POnce /\ NoResponseLost
<1> SUFFICES ASSUME Init PROVE POnce /\ NoResponseLost
  OBVIOUS
<1>1. OnceInv /\ CollectorOnce /\ AnswersKept
  BY WInitOnce, CInitOnce DEF Init
<1>2. routed \subseteq Asked
  BY DEF Init, BackboneInit
<1>3. QED
  BY <1>1, <1>2 DEF POnce, NoResponseLost

\* A firing is published once, so that its request is fresh when it is routed.
LEMMA SchedulerOnce ==
  ASSUME PInv, POnce, SchedulerNext, UNCHANGED <<workerVars, collectorVars>>
  PROVE  POnce'
<1>0. /\ BackboneTypeOK /\ WInv /\ CInv /\ run \in [Rids -> Stages] /\ BackboneTypeOK'
  BY SchedulerStepInv DEF PInv, WInv, SchedulerTypeOK
<1>1. /\ answers' = answers /\ responsesQueue' = responsesQueue /\ responses' = responses
      /\ spent' = spent \/ \E f \in Faults : Spend(f)
  BY <1>0, SchedulerOutside
     DEF SchedulerNext, SchedulerStart, Unpause, SchedulerCrash, QueueStep, Fire, PublishRequest,
         LoseRequest, MarkInFlight, MarkFails, backboneVars
<1>2. CollectorOnce'
  BY <1>0, <1>1, OutsideCollectorOnce DEF POnce
<1>3. Asked \subseteq Asked'
  BY <1>0 DEF SchedulerNext, SchedulerStart, Unpause, SchedulerCrash, QueueStep, Fire, PublishRequest,
         LoseRequest, MarkInFlight, MarkFails, Stage, Asked
<1>4. Disruptions \in Nat /\ Disruptions' \in Nat /\ Disruptions <= Disruptions'
  BY <1>0, <1>1, DisruptionsFact
<1>5. CASE requests' = requests /\ routed' = routed
  <2>1. OnceInv'
    BY <1>0, <1>1, <1>4, <1>5, OutsideOnceStep DEF POnce
  <2>2. QED
    BY <1>2, <1>3, <1>5, <2>1 DEF POnce
<1>6. ASSUME NEW r \in Rids, PublishRequest(r) PROVE POnce'
  <2>1. PICK g \in Regions : Route(r, g)
    BY <1>6 DEF PublishRequest
  <2>2. r \notin routed /\ r \in Asked'
    BY <1>0, <1>6 DEF PublishRequest, POnce, Asked, Stage
  <2>3. routed' \subseteq Asked'
    BY <1>3, <2>1, <2>2 DEF POnce, Route
  <2>4. OnceInv'
    <3>1. CASE g \in Bound
      BY <1>0, <1>1, <1>4, <2>1, <2>2, <3>1, OutsideOnceStep DEF POnce
    <3>2. CASE g \notin Bound
      <4>1. requests' = requests /\ routed' = routed
        BY <2>1, <3>2 DEF Route
      <4>2. QED
        BY <1>0, <1>1, <1>4, <4>1, OutsideOnceStep DEF POnce
    <3>3. QED
      BY <3>1, <3>2
  <2>5. QED
    BY <1>2, <2>3, <2>4 DEF POnce
<1>7. QED
  BY <1>5, <1>6
     DEF SchedulerNext, SchedulerStart, Unpause, SchedulerCrash, QueueStep, Fire,
         LoseRequest, MarkInFlight, MarkFails, backboneVars, historyVars

\* A worker sends the collector at most one more answer, and counts it.
LEMMA WorkerAnswers ==
  ASSUME NEW w \in Workers, WorkerNext(w), WInv
  PROVE  /\ spent' = spent \/ \E f \in Faults : Spend(f)
         /\ \/ responsesQueue' = responsesQueue /\ answers' = answers
            \/ \E r \in Rids : Answer(r)
<1>1. spent' = spent \/ \E f \in Faults : Spend(f)
  BY DEF WorkerNext, WorkerStart, WorkerStop, WorkerCancel, WorkerExit, WorkerCrash,
         WorkerCut, WorkerReconnect, WorkerReceive, WorkerSettle, GoroutineStep,
         Take, Attempt, PublishAnswer, LoseAnswer, GoroutineStop, backboneVars, Faults
<1>2. ASSUME NEW g \in Goroutines, PublishAnswer(w, g) PROVE \E r \in Rids : Answer(r)
  BY <1>2 DEF PublishAnswer, WInv, JobSane
<1>3. QED
  BY <1>1, <1>2
     DEF WorkerNext, WorkerStart, WorkerStop, WorkerCancel, WorkerExit, WorkerCrash,
         WorkerCut, WorkerReconnect, WorkerReceive, WorkerSettle, GoroutineStep,
         Take, Attempt, LoseAnswer, GoroutineStop, backboneVars, historyVars

LEMMA WorkerPOnce ==
  ASSUME PInv, POnce, NEW w \in Workers, WorkerNext(w), UNCHANGED <<schedulerVars, collectorVars>>
  PROVE  POnce'
<1>1. OnceInv'
  BY WorkerOnceStep DEF PInv, POnce
<1>2. CollectorOnce'
  BY WorkerOutside, WorkerAnswers, OutsideCollectorOnce DEF PInv, WInv, POnce
<1>3. routed' \subseteq Asked'
  BY WorkerRouted DEF POnce, Asked, schedulerVars
<1>4. QED
  BY <1>1, <1>2, <1>3 DEF POnce

LEMMA CollectorPOnce ==
  ASSUME PInv, POnce, CollectorNext, UNCHANGED <<schedulerVars, workerVars>>
  PROVE  POnce'
<1>1. CollectorOnce'
  BY CollectorOnceStep DEF PInv, WInv, POnce
<1>2. OnceInv'
  <2>1. Disruptions \in Nat /\ Disruptions' \in Nat /\ Disruptions <= Disruptions'
    BY CollectorOutside, DisruptionsFact DEF PInv, WInv
  <2>2. BackboneTypeOK'
    BY CollectorStepPInv DEF PInv, WInv
  <2>3. QED
    BY <2>1, <2>2, CollectorOutside, OutsideOnceStep DEF PInv, POnce
<1>3. routed' \subseteq Asked'
  BY CollectorOutside DEF POnce, Asked, schedulerVars
<1>4. QED
  BY <1>1, <1>2, <1>3 DEF POnce

\* Every step of the pipeline keeps POnce.
LEMMA NextPOnce == PInv /\ POnce /\ [Next]_vars => POnce'
<1> SUFFICES ASSUME PInv, POnce, [Next]_vars PROVE POnce'
  OBVIOUS
<1>1. CASE UNCHANGED vars
  <2>1. UNCHANGED <<backboneVars, schedulerVars, workerVars, collectorVars>>
    BY <1>1 DEF vars
  <2>2. Disruptions \in Nat /\ Disruptions' = Disruptions /\ BackboneTypeOK'
    BY <2>1, NextPInv, DisruptionsFact DEF PInv, WInv, backboneVars
  <2>3. OnceInv'
    BY <2>1, <2>2, OutsideOnceStep DEF PInv, POnce, backboneVars
  <2>4. CollectorOnce'
    BY <2>1, OutsideCollectorOnce DEF PInv, WInv, POnce, backboneVars
  <2>5. routed' \subseteq Asked'
    BY <2>1 DEF POnce, Asked, schedulerVars, backboneVars
  <2>6. QED
    BY <2>3, <2>4, <2>5 DEF POnce
<1>2. QED
  BY <1>1, SchedulerOnce, WorkerPOnce, CollectorPOnce DEF Next

(***************************************************************************)
(* Across the whole pipeline every copy and every answer of a request      *)
(* beyond the first is paid for by a fault, and while none has happened    *)
(* that could repeat an answer, the collector has it once.                 *)
(* (StartConsumingMessages, receiveResponses, saveResponseInBuffer)        *)
(***************************************************************************)
THEOREM PipelineCopies == Spec => []POnce
<1>1. Init => POnce
  BY InitPOnce
<1>2. QED
  BY <1>1, PipelineInvariant, NextPOnce, PTL DEF Spec

\* A request is answered once, plus once for each lost connection, closed channel or
\* dead worker, also when the scheduler is the one who asks.
THEOREM PipelineAnswersOnce == Spec => []AnswersPaidByFaults
<1>1. PInv /\ POnce => AnswersPaidByFaults
  BY CopiesBoundAnswers DEF PInv, POnce
<1>2. QED
  BY <1>1, PipelineInvariant, PipelineCopies, PTL

\* Where no worker has died and no link has gone, there is one answer at most.
LEMMA FirstAnswersOnly ==
  ASSUME PInv, POnce, NoFault({"collectorCrash", "database", "drop", "channel", "workerCrash"})
  PROVE  Unprovoked
<1>1. Disruptions = 0
  BY DEF NoFault, Disruptions
<1>2. \A r \in Rids : answers[r] <= 1
  BY <1>1, CopiesBoundAnswers DEF PInv, POnce, AnswersPaidByFaults
<1>3. QED
  BY <1>2 DEF Unprovoked, NoFault

\* While no connection, process or database fails, InsertMany never meets a request id
\* that is already saved, so that FailOnError never ends the collector; graceful stops
\* and restarts of the workers and of the collector included.
THEOREM CollectorNeverFails == Spec => []NeverFailsUnprovoked
<1>1. PInv /\ POnce => NeverFailsUnprovoked
  <2> SUFFICES ASSUME PInv, POnce,
                      NoFault({"collectorCrash", "database", "drop", "channel", "workerCrash"})
               PROVE  cState # "failed"
    BY DEF NeverFailsUnprovoked
  <2>1. CollectedOnce
    BY FirstAnswersOnly DEF POnce, CollectorOnce
  <2>2. QED
    BY <2>1 DEF CollectedOnce
<1>2. QED
  BY <1>1, PipelineInvariant, PipelineCopies, PTL

-----------------------------------------------------------------------------
\* What NoResponseLost asks of the environment.
Undamaged ==
    NoFault({"collectorCrash", "collectorStop", "database", "drop", "channel", "workerCrash"})

\* In such states there is one answer at most, before and after a step.
LEMMA UndamagedFirst == PInv /\ POnce /\ Undamaged => Unprovoked
  BY FirstAnswersOnly DEF Undamaged, NoFault

LEMMA UndamagedFirstNext == (PInv /\ POnce /\ Undamaged)' => Unprovoked'
  BY UndamagedFirst, PTL

\* No step of the pipeline loses an answer.
LEMMA NextKeepsAnswers ==
  ASSUME PInv, POnce, PInv', POnce', [Next]_vars, NoResponseLost
  PROVE  NoResponseLost'
<1> SUFFICES ASSUME Undamaged' PROVE AnswersKept'
  BY DEF NoResponseLost, Undamaged
<1>0. /\ Unprovoked' /\ BackboneTypeOK /\ WInv /\ CInv /\ CollectorOnce
  BY UndamagedFirstNext DEF PInv, WInv, POnce
<1>1. ASSUME spent' = spent \/ \E f \in Faults : Spend(f) PROVE Undamaged /\ AnswersKept
  <2>1. {"collectorCrash", "collectorStop", "database", "drop", "channel", "workerCrash"} \subseteq Faults
    BY DEF Faults
  <2>2. Undamaged
    BY <1>0, <1>1, <2>1, SpendFact DEF BackboneTypeOK, Undamaged, NoFault
  <2>3. QED
    BY <2>2 DEF NoResponseLost, Undamaged
<1>2. CASE SchedulerNext /\ UNCHANGED <<workerVars, collectorVars>>
  <2>1. /\ answers' = answers /\ responsesQueue' = responsesQueue /\ responses' = responses
        /\ spent' = spent \/ \E f \in Faults : Spend(f)
    BY <1>0, <1>2, SchedulerOutside
       DEF SchedulerNext, SchedulerStart, Unpause, SchedulerCrash, QueueStep, Fire, PublishRequest,
           LoseRequest, MarkInFlight, MarkFails, backboneVars
  <2>2. QED
    BY <1>0, <1>1, <1>2, <2>1, OutsideKeepsAnswers
<1>3. ASSUME NEW w \in Workers, WorkerNext(w), UNCHANGED <<schedulerVars, collectorVars>>
      PROVE  AnswersKept'
  BY <1>0, <1>1, <1>3, WorkerOutside, WorkerAnswers, OutsideKeepsAnswers
<1>4. CASE CollectorNext /\ UNCHANGED <<schedulerVars, workerVars>>
  <2>1. Undamaged /\ AnswersKept
    BY <1>1, <1>4, CollectorOutside
  <2>2. ~CollectorExit
    BY <2>1 DEF CollectorExit, Undamaged, NoFault, POnce, CollectorOnce, StopIsCounted
  <2>3. QED
    BY <1>0, <1>4, <2>1, <2>2, CollectorKeepsAnswers
<1>5. CASE UNCHANGED vars
  <2>1. UNCHANGED <<backboneVars, collectorVars>>
    BY <1>5 DEF vars
  <2>2. UNCHANGED <<spent, answers, responsesQueue, responses>>
    BY <2>1 DEF backboneVars
  <2>3. QED
    BY <1>0, <1>1, <2>1, <2>2, OutsideKeepsAnswers
<1>6. QED
  BY <1>2, <1>3, <1>4, <1>5 DEF Next

(***************************************************************************)
(* Acknowledging a response before it is saved loses no answer while the   *)
(* collector is neither killed nor stopped and no connection or database   *)
(* fails: what the broker has forgotten is in the buffer or the database.  *)
(* Lost publishes, deaf starts, scheduler crashes and worker restarts are  *)
(* allowed.  (receiveResponses, main.go:110-111)                           *)
(***************************************************************************)
THEOREM PipelineLosesNoResponse == Spec => []NoResponseLost
<1>1. Init => NoResponseLost
  BY InitPOnce
<1>2. /\ PInv /\ POnce /\ PInv' /\ POnce' /\ [Next]_vars /\ NoResponseLost
      => NoResponseLost'
  BY NextKeepsAnswers
<1>3. QED
  BY <1>1, <1>2, PipelineInvariant, PipelineCopies, PTL DEF Spec

-----------------------------------------------------------------------------
Marks == [r \in Rids |-> MarkerOf(r)]

\* Markers that go from one state to another together.
LEMMA MarksTurn ==
  ASSUME NEW rs \in SUBSET Rids, NEW from, NEW to,
         \A r \in rs : MarkerOf(r) = from,
         \A r \in Rids : MarkerOf(r)' = IF r \in rs THEN to ELSE MarkerOf(r)
  PROVE  Ledger!Turn(rs, from, to)
  BY DEF Ledger!Turn

LEMMA MarksStay ==
  ASSUME \A r \in Rids : MarkerOf(r)' = MarkerOf(r)
  PROVE  Marks' = Marks
  BY DEF Marks

\* What a step of the scheduler does to the ledger.
LEMMA SchedulerKeepsLedger ==
  ASSUME PInv, SchedulerNext
  PROVE  Ledger!Next \/ UNCHANGED <<Marks, responses>>
<1> USE DEF PInv, SchedulerTypeOK, Stage, Stages
<1>0. responses' = responses
  BY DEF SchedulerNext, SchedulerStart, Unpause, SchedulerCrash, QueueStep, Fire, PublishRequest,
         LoseRequest, MarkInFlight, MarkFails, backboneVars
<1>1. CASE SchedulerStart \/ Unpause
  <2>1. run' = run /\ inflight' = inflight
    BY <1>1 DEF SchedulerStart, Unpause, backboneVars
  <2>2. QED
    BY <1>0, <2>1, MarksStay DEF MarkerOf
<1>2. ASSUME NEW q \in Rids, Fire(q) PROVE UNCHANGED <<Marks, responses>>
  <2>1. \A r \in Rids : MarkerOf(r)' = MarkerOf(r)
    BY <1>2 DEF Fire, backboneVars, MarkerOf
  <2>2. QED
    BY <1>0, <2>1, MarksStay
<1>3. ASSUME NEW q \in Rids, PublishRequest(q) \/ LoseRequest(q) PROVE Ledger!Ask(q)
  <2>1. run[q] = "publish" /\ run' = [run EXCEPT ![q] = "mark"] /\ inflight' = inflight
    BY <1>3 DEF PublishRequest, LoseRequest
  <2>2. /\ \A r \in {q} : MarkerOf(r) = "none"
        /\ \A r \in Rids : MarkerOf(r)' = IF r \in {q} THEN "pending" ELSE MarkerOf(r)
    BY <2>1 DEF MarkerOf
  <2>3. QED
    BY <1>0, <2>2, MarksTurn DEF Ledger!Ask
<1>4. ASSUME NEW q \in Rids, MarkInFlight(q) PROVE Ledger!Mark(q)
  <2>1. /\ run[q] = "mark" /\ run' = [run EXCEPT ![q] = "done"]
        /\ inflight' = inflight \cup {q}
    BY <1>4 DEF MarkInFlight
  <2>2. /\ \A r \in {q} : MarkerOf(r) = "pending"
        /\ \A r \in Rids : MarkerOf(r)' = IF r \in {q} THEN "set" ELSE MarkerOf(r)
    BY <2>1 DEF MarkerOf
  <2>3. QED
    BY <1>0, <2>2, MarksTurn DEF Ledger!Mark
<1>5. ASSUME NEW q \in Rids, MarkFails(q) PROVE Ledger!Forgo({q})
  <2>1. run[q] = "mark" /\ run' = [run EXCEPT ![q] = "unmarked"] /\ inflight' = inflight
    BY <1>5 DEF MarkFails
  <2>2. /\ \A r \in {q} : MarkerOf(r) = "pending"
        /\ \A r \in Rids : MarkerOf(r)' = IF r \in {q} THEN "forgone" ELSE MarkerOf(r)
    BY <2>1 DEF MarkerOf
  <2>3. QED
    BY <1>0, <2>2, MarksTurn DEF Ledger!Forgo
<1>6. ASSUME SchedulerCrash PROVE Ledger!Forgo({r \in Rids : run[r] = "mark"})
  <2> DEFINE rs == {r \in Rids : run[r] = "mark"}
  <2>1. /\ inflight' = inflight
        /\ \A r \in Rids : run'[r] = IF run[r] = "publish" THEN "dropped"
                                     ELSE IF run[r] = "mark" THEN "unmarked" ELSE run[r]
    BY <1>6 DEF SchedulerCrash
  <2>2. /\ \A r \in rs : MarkerOf(r) = "pending"
        /\ \A r \in Rids : MarkerOf(r)' = IF r \in rs THEN "forgone" ELSE MarkerOf(r)
    BY <2>1 DEF MarkerOf
  <2>3. rs \in SUBSET Rids
    OBVIOUS
  <2> HIDE DEF rs
  <2>4. Ledger!Forgo(rs)
    BY <1>0, <2>2, <2>3, MarksTurn DEF Ledger!Forgo
  <2>5. QED
    BY <2>4 DEF rs
<1>7. QED
  BY <1>1, <1>2, <1>3, <1>4, <1>5, <1>6 DEF SchedulerNext, QueueStep, Ledger!Next

\* What a step of the collector does to the ledger.
LEMMA CollectorKeepsLedger ==
  ASSUME PInv, CollectorNext, UNCHANGED <<schedulerVars, workerVars>>
  PROVE  Ledger!Next
<1>0. run' = run /\ responses \subseteq Rids /\ responses' \subseteq Rids
  BY CollectorStepInv DEF schedulerVars, PInv, WInv, BackboneTypeOK
<1>1. CASE inflight' = inflight /\ responses \subseteq responses'
  <2> DEFINE rs == responses' \ responses
  <2>1. \A r \in rs : r \in Asked
    <3>1. responses' \subseteq Asked'
      BY CollectorStaysWithin DEF OnlyAsked, CollectorWithin
    <3>2. QED
      BY <1>0, <3>1 DEF Asked
  <2>2. \A r \in rs : r \in Rids /\ MarkerOf(r) # "none"
    BY <2>1 DEF MarkerOf, Asked
  <2>3. Marks' = Marks
    BY <1>0, <1>1, MarksStay DEF MarkerOf
  <2>4. Ledger!Save(rs)
    BY <1>1, <2>2, <2>3 DEF Ledger!Save, Marks
  <2>5. rs \in SUBSET Rids
    BY <1>0
  <2> HIDE DEF rs
  <2>6. QED
    BY <2>4, <2>5 DEF Ledger!Next
<1>2. CASE inflight' \subseteq inflight /\ responses' = responses
  <2> DEFINE rs == {r \in Rids : run[r] = "done" /\ r \in inflight \ inflight'}
  <2>1. rs \subseteq responses
    BY CollectorClearsSaved DEF PInv, WInv
  <2>2. /\ \A r \in rs : MarkerOf(r) = "set"
        /\ \A r \in Rids : MarkerOf(r)' = IF r \in rs THEN "cleared" ELSE MarkerOf(r)
    BY <1>0, <1>2 DEF MarkerOf, PInv, SchedulerTypeOK, Stages
  <2>3. rs \in SUBSET Rids
    OBVIOUS
  <2> HIDE DEF rs
  <2>4. Ledger!Clear(rs)
    BY <1>2, <2>1, <2>2, <2>3, MarksTurn DEF Ledger!Clear
  <2>5. QED
    BY <2>3, <2>4 DEF Ledger!Next
<1>3. QED
  BY <1>1, <1>2, CollectorClearsSaved DEF PInv, WInv

\* Every step of the pipeline is a step of the ledger or none.
LEMMA StepKeepsLedger ==
  PInv /\ [Next]_vars => [Ledger!Next]_<<Marks, responses>>
<1> SUFFICES ASSUME PInv, [Next]_vars PROVE Ledger!Next \/ UNCHANGED <<Marks, responses>>
  OBVIOUS
<1>1. CASE SchedulerNext
  BY <1>1, SchedulerKeepsLedger
<1>2. CASE CollectorNext /\ UNCHANGED <<schedulerVars, workerVars>>
  BY <1>2, CollectorKeepsLedger
<1>3. ASSUME UNCHANGED <<run, inflight, responses>> PROVE UNCHANGED <<Marks, responses>>
  BY <1>3, MarksStay DEF MarkerOf
<1>4. CASE (\E w \in Workers : WorkerNext(w)) /\ UNCHANGED <<schedulerVars, collectorVars>>
  BY <1>3, <1>4, WorkerOutside DEF schedulerVars
<1>5. CASE UNCHANGED vars
  BY <1>3, <1>5 DEF vars, schedulerVars, backboneVars
<1>6. QED
  BY <1>1, <1>2, <1>4, <1>5 DEF Next

(***************************************************************************)
(* The pipeline implements CheckLedger: a marker is written once and only  *)
(* for a published request, it is cleared only after the response is       *)
(* saved, and no response is saved for a request that was never published. *)
(* (queue(), saveResponseInBuffer)                                         *)
(***************************************************************************)
THEOREM PipelineKeepsLedger == Spec => LedgerSpec
<1>1. Init => Ledger!Init
  BY DEF Init, SchedulerInit, BackboneInit, Ledger!Init, MarkerOf
<1>2. PInv /\ [Next]_vars => [Ledger!Next]_<<Marks, responses>>
  BY StepKeepsLedger
<1>3. QED
  BY <1>1, <1>2, PipelineInvariant, PTL DEF Spec, LedgerSpec, Ledger!Spec, Marks
=============================================================================
