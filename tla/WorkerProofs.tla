----------------------------- MODULE WorkerProofs -----------------------------
(***************************************************************************)
(* No worker step loses a request, for any number of processes, goroutines,*)
(* requests and faults.  WInv is inductive; the lemmas below show it for   *)
(* one step of a worker, in whatever system the worker runs.  Before them, *)
(* what the operations on a consumer link preserve and return, for any set *)
(* of messages: the collector's proofs need it too.                        *)
(***************************************************************************)
EXTENDS Worker, SequenceTheorems, FiniteSetTheorems, TLAPS

\* A link that is closed, or has just been opened, has nothing outstanding.
LEMMA FreshLinkTypes ==
  ASSUME NEW Msg
  PROVE  /\ ClosedLink \in Link(Msg) /\ ConsumingLink \in Link(Msg)
         /\ ClosedLink.unacked = {} /\ ConsumingLink.unacked = {}
         /\ ClosedLink.acking = {} /\ ConsumingLink.acking = {}
<1>1. <<>> \in Seq(Delivery(Msg))
  BY EmptySeq
<1>2. QED
  BY <1>1 DEF ClosedLink, ConsumingLink, Link

\* Marking deliveries stale keeps them deliveries.
LEMMA StaleType ==
  ASSUME NEW Msg, NEW ds \in Seq(Delivery(Msg))
  PROVE  Stale(ds) \in Seq(Delivery(Msg)) /\ Len(Stale(ds)) = Len(ds)
<1>1. Len(ds) \in Nat /\ DOMAIN ds = 1 .. Len(ds)
  BY LenProperties
<1>2. \A i \in 1 .. Len(ds) : [ds[i] EXCEPT !.live = FALSE] \in Delivery(Msg)
  <2>1. \A i \in 1 .. Len(ds) : ds[i] \in Delivery(Msg)
    BY ElementOfSeq
  <2>2. QED
    BY <2>1 DEF Delivery
<1>3. Stale(ds) \in [1 .. Len(ds) -> Delivery(Msg)]
  BY <1>1, <1>2 DEF Stale
<1>4. Stale(ds) \in Seq(Delivery(Msg))
  BY <1>1, <1>3, SeqDef
<1>5. Len(Stale(ds)) = Len(ds)
  <2>1. DOMAIN Stale(ds) = 1 .. Len(Stale(ds)) /\ Len(Stale(ds)) \in Nat
    BY <1>4, LenProperties
  <2>2. QED
    BY <1>1, <1>3, <2>1
<1>6. QED
  BY <1>4, <1>5

\* Receiving adds one unacknowledged message and acknowledges none.
LEMMA ReceivedType ==
  ASSUME NEW Msg, NEW k \in Link(Msg), NEW m \in Msg
  PROVE  /\ Received(k, m) \in Link(Msg)
         /\ Received(k, m).unacked = k.unacked \cup {m}
         /\ Received(k, m).acking = k.acking
<1>1. Append(k.ch, [msg |-> m, live |-> TRUE]) \in Seq(Delivery(Msg))
  BY AppendProperties DEF Link, Delivery
<1>2. QED
  BY <1>1 DEF Received, Link

\* A cut leaves nothing unacknowledged and no acknowledgement on its way.
LEMMA CutType ==
  ASSUME NEW Msg, NEW k \in Link(Msg), NEW how \in {"closed", "stalled"}
  PROVE  /\ Cut(k, how) \in Link(Msg)
         /\ Cut(k, how).unacked = {}
         /\ Cut(k, how).acking = {}
<1>1. Stale(k.ch) \in Seq(Delivery(Msg))
  BY StaleType DEF Link
<1>2. QED
  BY <1>1 DEF Cut, Link

\* Reconnecting changes no message.
LEMMA ReconnectedType ==
  ASSUME NEW Msg, NEW k \in Link(Msg)
  PROVE  /\ Reconnected(k) \in Link(Msg)
         /\ Reconnected(k).unacked = k.unacked
         /\ Reconnected(k).acking = k.acking
  BY DEF Reconnected, Link

\* Neither does cancelling the consumer.
LEMMA CancelledType ==
  ASSUME NEW Msg, NEW k \in Link(Msg)
  PROVE  /\ Cancelled(k) \in Link(Msg)
         /\ Cancelled(k).unacked = k.unacked
         /\ Cancelled(k).acking = k.acking
  BY DEF Cancelled, Link

\* Taking the first delivery out of the channel.
LEMMA TakenType ==
  ASSUME NEW Msg, NEW k \in Link(Msg), k.ch # <<>>
  PROVE  /\ Head(k.ch) \in Delivery(Msg)
         /\ [k EXCEPT !.ch = Tail(@)] \in Link(Msg)
<1>1. Head(k.ch) \in Delivery(Msg) /\ Tail(k.ch) \in Seq(Delivery(Msg))
  BY HeadTailProperties DEF Link
<1>2. QED
  BY <1>1 DEF Link

\* An Ack adds at most its own message to the acknowledgements on their way.
LEMMA AckedType ==
  ASSUME NEW Msg, NEW k \in Link(Msg), NEW d \in Delivery(Msg)
  PROVE  /\ Acked(k, d) \in Link(Msg)
         /\ Acked(k, d).unacked = k.unacked
         /\ Acked(k, d).acking = IF d.live THEN k.acking \cup {d.msg} ELSE k.acking
  BY DEF Acked, Link, Delivery

\* Once the broker has seen it, a message is neither unacknowledged nor on its way.
LEMMA SettledType ==
  ASSUME NEW Msg, NEW k \in Link(Msg), NEW m \in Msg
  PROVE  /\ Settled(k, m) \in Link(Msg)
         /\ Settled(k, m).unacked = k.unacked \ {m}
         /\ Settled(k, m).acking = k.acking \ {m}
  BY DEF Settled, Link

\* A link without deliveries has none twice; nor does one whose deliveries are stale.
LEMMA FreshLinkOnce ==
  DeliveredOnce(ClosedLink) /\ DeliveredOnce(ConsumingLink)
<1>1. DOMAIN <<>> = {}
  OBVIOUS
<1>2. \A k : k.ch = <<>> /\ k.acking = {} => DeliveredOnce(k)
  BY <1>1 DEF DeliveredOnce
<1>3. /\ ClosedLink.ch = <<>> /\ ClosedLink.acking = {}
      /\ ConsumingLink.ch = <<>> /\ ConsumingLink.acking = {}
  BY DEF ClosedLink, ConsumingLink
<1>4. QED
  BY <1>2, <1>3

LEMMA StaleElements ==
  ASSUME NEW Msg, NEW ds \in Seq(Delivery(Msg))
  PROVE  /\ DOMAIN Stale(ds) = DOMAIN ds
         /\ \A i \in DOMAIN ds : ~Stale(ds)[i].live /\ Stale(ds)[i].msg = ds[i].msg
<1>1. DOMAIN ds = 1 .. Len(ds) /\ \A i \in 1 .. Len(ds) : ds[i] \in Delivery(Msg)
  BY LenProperties, ElementOfSeq
<1>2. QED
  BY <1>1 DEF Stale, Delivery

LEMMA CutOnce ==
  ASSUME NEW Msg, NEW k \in Link(Msg), NEW how
  PROVE  DeliveredOnce(Cut(k, how))
<1>1. /\ k.ch \in Seq(Delivery(Msg))
      /\ Cut(k, how).ch = Stale(k.ch) /\ Cut(k, how).acking = {}
  BY DEF Cut, Link
<1>2. \A i \in DOMAIN Stale(k.ch) : ~Stale(k.ch)[i].live
  BY <1>1, StaleElements
<1>3. QED
  BY <1>1, <1>2 DEF DeliveredOnce

\* Neither the consumer nor the connection changes what is delivered.
LEMMA ConnectionOnce ==
  ASSUME NEW Msg, NEW k \in Link(Msg), DeliveredOnce(k)
  PROVE  DeliveredOnce(Reconnected(k)) /\ DeliveredOnce(Cancelled(k))
  BY DEF Reconnected, Cancelled, Link, DeliveredOnce

\* The broker hands out a message that is not out on this link.
LEMMA ReceivedOnce ==
  ASSUME NEW Msg, NEW k \in Link(Msg), DeliveredOnce(k), NEW m \in Msg, m \notin k.unacked
  PROVE  DeliveredOnce(Received(k, m))
<1> DEFINE d == [msg |-> m, live |-> TRUE]
           n == Len(k.ch)
<1>1. k.ch \in Seq(Delivery(Msg)) /\ d \in Delivery(Msg)
  BY DEF Link, Delivery
<1>2. /\ DOMAIN k.ch = 1 .. n /\ n \in Nat
      /\ DOMAIN Append(k.ch, d) = 1 .. n + 1
      /\ \A i \in 1 .. n : Append(k.ch, d)[i] = k.ch[i]
      /\ Append(k.ch, d)[n + 1] = d
  BY <1>1, LenProperties, AppendProperties
<1>3. /\ Received(k, m).ch = Append(k.ch, d)
      /\ Received(k, m).unacked = k.unacked \cup {m} /\ Received(k, m).acking = k.acking
  BY DEF Received, Link
<1>4. d.msg = m /\ d.live
  OBVIOUS
<1> HIDE DEF d, n
<1>5. \A i \in 1 .. n + 1 : i \in 1 .. n \/ i = n + 1
  BY <1>2
<1>6. \A i \in 1 .. n : k.ch[i].live => k.ch[i].msg \in k.unacked \ k.acking
  BY <1>2 DEF DeliveredOnce
<1>7. QED
  BY <1>2, <1>3, <1>4, <1>5, <1>6 DEF DeliveredOnce

\* Once an acknowledgement has been seen, no live delivery is left of its message.
LEMMA SettledOnce ==
  ASSUME NEW Msg, NEW k \in Link(Msg), DeliveredOnce(k), NEW m \in k.acking
  PROVE  DeliveredOnce(Settled(k, m))
<1>1. /\ Settled(k, m).ch = k.ch /\ Settled(k, m).unacked = k.unacked \ {m}
      /\ Settled(k, m).acking = k.acking \ {m}
  BY DEF Settled, Link
<1>2. QED
  BY <1>1 DEF DeliveredOnce

\* Taking a live delivery acknowledges a message for the first time.
LEMMA TakenOnce ==
  ASSUME NEW Msg, NEW k \in Link(Msg), DeliveredOnce(k), k.ch # <<>>
  PROVE  /\ Head(k.ch).live => Head(k.ch).msg \in k.unacked \ k.acking
         /\ DeliveredOnce([k EXCEPT !.ch = Tail(@)])
         /\ DeliveredOnce(Acked([k EXCEPT !.ch = Tail(@)], Head(k.ch)))
         /\ Head(k.ch).live => \A i \in DOMAIN Tail(k.ch) :
               Tail(k.ch)[i].live => Tail(k.ch)[i].msg # Head(k.ch).msg
<1> DEFINE t == [k EXCEPT !.ch = Tail(@)]
           d == Head(k.ch)
<1>1. /\ k.ch \in Seq(Delivery(Msg)) /\ d = k.ch[1] /\ d \in Delivery(Msg)
      /\ DOMAIN k.ch = 1 .. Len(k.ch) /\ Len(k.ch) \in Nat
      /\ Tail(k.ch) \in Seq(Delivery(Msg)) /\ Len(Tail(k.ch)) = Len(k.ch) - 1
      /\ DOMAIN Tail(k.ch) = 1 .. Len(Tail(k.ch)) /\ Len(Tail(k.ch)) \in Nat
      /\ \A i \in 1 .. Len(Tail(k.ch)) : Tail(k.ch)[i] = k.ch[i + 1]
  BY HeadTailProperties, LenProperties DEF Link
<1>2. 1 \in DOMAIN k.ch
  BY <1>1
<1>3. \A i \in DOMAIN Tail(k.ch) :
         i + 1 \in DOMAIN k.ch /\ i + 1 # 1 /\ Tail(k.ch)[i] = k.ch[i + 1]
  BY <1>1
<1>4. t \in Link(Msg) /\ t.ch = Tail(k.ch) /\ t.unacked = k.unacked /\ t.acking = k.acking
  BY <1>1 DEF Link
<1>5. d.live => d.msg \in k.unacked \ k.acking
  BY <1>1, <1>2 DEF DeliveredOnce
<1>6. d.live => \A i \in DOMAIN Tail(k.ch) : Tail(k.ch)[i].live => Tail(k.ch)[i].msg # d.msg
  BY <1>1, <1>2, <1>3 DEF DeliveredOnce
<1> HIDE DEF t, d
<1>7. \A i, j \in DOMAIN Tail(k.ch) :
         Tail(k.ch)[i].live /\ Tail(k.ch)[j].live /\ Tail(k.ch)[i].msg = Tail(k.ch)[j].msg => i = j
  <2> SUFFICES ASSUME NEW i \in DOMAIN Tail(k.ch), NEW j \in DOMAIN Tail(k.ch),
                      Tail(k.ch)[i].live, Tail(k.ch)[j].live,
                      Tail(k.ch)[i].msg = Tail(k.ch)[j].msg
               PROVE  i = j
    OBVIOUS
  <2>1. i + 1 = j + 1
    BY <1>3 DEF DeliveredOnce
  <2>2. QED
    BY <1>1, <2>1
<1>8. \A i \in DOMAIN Tail(k.ch) :
         Tail(k.ch)[i].live => Tail(k.ch)[i].msg \in k.unacked \ k.acking
  BY <1>3 DEF DeliveredOnce
<1>9. DeliveredOnce(t)
  BY <1>4, <1>7, <1>8 DEF DeliveredOnce
<1>10. DeliveredOnce(Acked(t, d))
  <2>1. CASE d.live
    <3>1. /\ Acked(t, d).ch = t.ch /\ Acked(t, d).unacked = t.unacked
          /\ Acked(t, d).acking = t.acking \cup {d.msg}
      BY <1>4, <2>1 DEF Acked, Link
    <3>2. QED
      BY <1>4, <1>5, <1>6, <1>7, <1>8, <1>9, <2>1, <3>1 DEF DeliveredOnce
  <2>2. CASE ~d.live
    BY <1>9, <2>2 DEF Acked
  <2>3. QED
    BY <2>1, <2>2
<1>11. QED
  BY <1>5, <1>6, <1>9, <1>10 DEF t, d

-----------------------------------------------------------------------------
Lossless == NoFault({"workerCrash", "loss"})

Safe(r) == AtBroker(r) \/ InHand(r) \/ answers[r] > 0

\* The two faults that may cost a request.
LEMMA FaultNames == "workerCrash" \in Faults /\ "loss" \in Faults
  BY DEF Faults

\* Faults are counted up: the spent one is no longer zero, the others stay.
LEMMA SpendFact ==
  ASSUME spent \in [Faults -> Nat], NEW f \in Faults, Spend(f)
  PROVE  /\ spent' \in [Faults -> Nat]
         /\ spent'[f] # 0
         /\ \A e \in Faults : spent'[e] = 0 => spent[e] = 0
  BY DEF Spend

\* Goroutines without a request are well typed.
LEMMA IdleJob == Idle \in Job /\ Stopped \in Job
  BY WorkerAssumption DEF Idle, Stopped, Job

\* Giving one goroutine a job changes no type.
LEMMA SetJobType ==
  ASSUME NEW f \in [Workers -> [Goroutines -> Job]],
         NEW w \in Workers, NEW g \in Goroutines, NEW j \in Job
  PROVE  [f EXCEPT ![w][g] = j] \in [Workers -> [Goroutines -> Job]]
  OBVIOUS

\* Before any process starts the invariant holds.
LEMMA WInitInv == BackboneInit /\ WorkerInit => WInv
<1> SUFFICES ASSUME BackboneInit, WorkerInit PROVE WInv
  OBVIOUS
<1>1. BackboneTypeOK
  BY DEF BackboneInit, BackboneTypeOK
<1>2. WorkerTypeOK
  BY FreshLinkTypes, IdleJob DEF WorkerInit, WorkerTypeOK
<1>3. JobSane /\ DownIsIdle
  BY DEF WorkerInit, JobSane, DownIsIdle, AllStopped, Stopped, Idle
<1>4. AckedIsTaken /\ NoRequestLost
  BY DEF BackboneInit, WorkerInit, AckedIsTaken, NoRequestLost, ClosedLink
<1>5. QED
  BY <1>1, <1>2, <1>3, <1>4 DEF WInv

-----------------------------------------------------------------------------
\* The types of what a worker step leaves behind.
LEMMA WorkerTypes ==
  ASSUME WInv, NEW w \in Workers, WorkerNext(w)
  PROVE  BackboneTypeOK' /\ WorkerTypeOK'
<1> USE DEF WInv, BackboneTypeOK, WorkerTypeOK
<1>0. wLink[w] \in Link(Rids) /\ Region[w] \in Bound
  BY WorkerAssumption
<1>1. CASE WorkerStart(w)
  BY <1>1, FreshLinkTypes, IdleJob DEF WorkerStart, SetLink, backboneVars
<1>2. CASE WorkerStop(w)
  <2>1. spent' \in [Faults -> Nat]
    BY <1>2, SpendFact DEF WorkerStop, Faults
  <2>2. QED
    BY <1>2, <2>1 DEF WorkerStop, historyVars
<1>3. CASE WorkerCancel(w)
  BY <1>3, <1>0, CancelledType DEF WorkerCancel, SetLink, backboneVars
<1>4. CASE WorkerExit(w)
  <2>1. ReturnedByClose(wLink[w]) \subseteq Rids
    BY <1>0 DEF ReturnedByClose, Link
  <2>2. QED
    BY <1>4, <1>0, <2>1, FreshLinkTypes DEF WorkerExit, SetLink, Requeue, historyVars
<1>5. CASE WorkerCrash(w)
  <2>1. ReturnedByCrash(wLink[w]) \subseteq Rids
    BY <1>0 DEF ReturnedByCrash, Link
  <2>2. spent' \in [Faults -> Nat]
    BY <1>5, SpendFact, FaultNames DEF WorkerCrash
  <2>3. QED
    BY <1>5, <1>0, <2>1, <2>2, FreshLinkTypes, IdleJob
       DEF WorkerCrash, SetLink, Requeue, historyVars
<1>6. ASSUME NEW fault \in {"drop", "channel"}, NEW how \in {"closed", "stalled"},
             WorkerCut(w, fault, how)
      PROVE  BackboneTypeOK' /\ WorkerTypeOK'
  <2>1. ReturnedByCrash(wLink[w]) \subseteq Rids
    BY <1>0 DEF ReturnedByCrash, Link
  <2>2. spent' \in [Faults -> Nat]
    BY <1>6, SpendFact DEF WorkerCut, Faults
  <2>3. QED
    BY <1>6, <1>0, <2>1, <2>2, CutType DEF WorkerCut, SetLink, Requeue, historyVars
<1>7. CASE WorkerReconnect(w)
  BY <1>7, <1>0, ReconnectedType DEF WorkerReconnect, SetLink, backboneVars
<1>8. ASSUME NEW r \in Rids, WorkerReceive(w, r)
      PROVE  BackboneTypeOK' /\ WorkerTypeOK'
  BY <1>8, <1>0, ReceivedType DEF WorkerReceive, SetLink, historyVars
<1>9. ASSUME NEW r \in Rids, WorkerSettle(w, r)
      PROVE  BackboneTypeOK' /\ WorkerTypeOK'
  BY <1>9, <1>0, SettledType DEF WorkerSettle, SetLink, backboneVars
<1>10. ASSUME NEW g \in Goroutines, GoroutineStep(w, g)
       PROVE  BackboneTypeOK' /\ WorkerTypeOK'
  <2>0. job[w][g] \in Job
    OBVIOUS
  <2>1. CASE Take(w, g)
    <3> DEFINE d == Head(wLink[w].ch)
               k == [wLink[w] EXCEPT !.ch = Tail(@)]
               j == [pc |-> "check", rid |-> d.msg, attempts |-> 0]
    <3>1. d \in Delivery(Rids) /\ k \in Link(Rids)
      BY <2>1, <1>0, TakenType DEF Take
    <3>2. Acked(k, d) \in Link(Rids)
      BY <3>1, AckedType
    <3>3. j \in Job
      BY <3>1, WorkerAssumption DEF Job, Delivery
    <3>4. wLink' = [wLink EXCEPT ![w] = Acked(k, d)]
      BY <2>1 DEF Take, SetLink
    <3>5. job' = job \/ job' = [job EXCEPT ![w][g] = j]
      BY <2>1 DEF Take, SetJob
    <3> HIDE DEF d, k, j
    <3>6. job' \in [Workers -> [Goroutines -> Job]]
      <4>1. job \in [Workers -> [Goroutines -> Job]]
        OBVIOUS
      <4>2. [job EXCEPT ![w][g] = j] \in [Workers -> [Goroutines -> Job]]
        BY <3>3, <4>1, SetJobType
      <4>3. QED
        BY <3>5, <4>1, <4>2
    <3>7. QED
      BY <2>1, <3>2, <3>4, <3>6 DEF Take, backboneVars
  <2>2. CASE Attempt(w, g)
    <3>1. job[w][g].attempts + 1 \in 0 .. MaxAttempts
      BY <2>0, <2>2, WorkerAssumption DEF Attempt, JobSane, Job
    <3>2. PICK pc \in {"check", "publish"} :
             job' = [job EXCEPT ![w][g] =
                       [job[w][g] EXCEPT !.attempts = job[w][g].attempts + 1, !.pc = pc]]
      BY <2>2 DEF Attempt, SetJob
    <3>3. [job[w][g] EXCEPT !.attempts = job[w][g].attempts + 1, !.pc = pc] \in Job
      BY <2>0, <3>1 DEF Job
    <3>4. QED
      BY <2>2, <3>2, <3>3 DEF Attempt, backboneVars
  <2>3. CASE PublishAnswer(w, g)
    <3>1. job[w][g].rid \in Rids
      BY <2>3 DEF PublishAnswer, JobSane
    <3>2. answers' \in [Rids -> Nat] /\ responsesQueue' \subseteq ResponseMsgs
      BY <2>3, <3>1 DEF PublishAnswer, Answer, ResponseMsgs
    <3>3. QED
      BY <2>3, <3>2, IdleJob DEF PublishAnswer, SetJob
  <2>4. CASE LoseAnswer(w, g)
    <3>1. spent' \in [Faults -> Nat]
      BY <2>4, SpendFact, FaultNames DEF LoseAnswer
    <3>2. QED
      BY <2>4, <3>1, IdleJob DEF LoseAnswer, SetJob, historyVars
  <2>5. CASE GoroutineStop(w, g)
    BY <2>5, IdleJob DEF GoroutineStop, SetJob, backboneVars
  <2>6. QED
    BY <1>10, <2>1, <2>2, <2>3, <2>4, <2>5 DEF GoroutineStep
<1>11. QED
  BY <1>1, <1>2, <1>3, <1>4, <1>5, <1>6, <1>7, <1>8, <1>9, <1>10 DEF WorkerNext

-----------------------------------------------------------------------------
\* What a step of goroutine g of w does to the goroutines.
LEMMA OtherJobsKept ==
  ASSUME job \in [Workers -> [Goroutines -> Job]],
         NEW w \in Workers, NEW g \in Goroutines, NEW j, SetJob(w, g, j)
  PROVE  /\ job'[w][g] = j
         /\ \A v \in Workers, h \in Goroutines :
               <<v, h>> # <<w, g>> => job'[v][h] = job[v][h]
  BY DEF SetJob

\* The same for a step on w's link.
LEMMA OtherLinksKept ==
  ASSUME wLink \in [Workers -> Link(Rids)], NEW w \in Workers, NEW k, SetLink(w, k)
  PROVE  wLink'[w] = k /\ \A v \in Workers \ {w} : wLink'[v] = wLink[v]
  BY DEF SetLink

\* A goroutine at work has a request, and an attempt left while it tries.
LEMMA WorkerSane ==
  ASSUME WInv, NEW w \in Workers, WorkerNext(w)
  PROVE  JobSane'
<1> SUFFICES ASSUME NEW v \in Workers, NEW h \in Goroutines
             PROVE  /\ job'[v][h].pc \in {"check", "publish"} => job'[v][h].rid \in Rids
                    /\ job'[v][h].pc = "check" => job'[v][h].attempts < MaxAttempts
  BY DEF JobSane
<1> USE DEF WInv, WorkerTypeOK, JobSane
<1>1. CASE job' = job
  BY <1>1
<1>2. CASE WorkerStart(w) \/ WorkerCrash(w)
  BY <1>2 DEF WorkerStart, WorkerCrash, Idle, Stopped
<1>3. ASSUME NEW g \in Goroutines, GoroutineStep(w, g), job' # job
      PROVE  /\ job'[v][h].pc \in {"check", "publish"} => job'[v][h].rid \in Rids
             /\ job'[v][h].pc = "check" => job'[v][h].attempts < MaxAttempts
  <2>1. CASE Take(w, g)
    <3> DEFINE d == Head(wLink[w].ch)
               j == [pc |-> "check", rid |-> d.msg, attempts |-> 0]
    <3>1. d \in Delivery(Rids) /\ d.msg \in Rids
      BY <2>1, TakenType DEF Take, Delivery
    <3>2. SetJob(w, g, j)
      BY <2>1, <1>3 DEF Take
    <3>3. /\ job'[w][g] = j
          /\ <<v, h>> # <<w, g>> => job'[v][h] = job[v][h]
      BY <3>2, OtherJobsKept
    <3>4. j.rid \in Rids /\ j.attempts < MaxAttempts
      BY <3>1, WorkerAssumption
    <3> HIDE DEF j
    <3>5. QED
      BY <3>3, <3>4
  <2>2. CASE Attempt(w, g)
    <3>1. PICK outcome \in Outcomes :
             SetJob(w, g, [job[w][g] EXCEPT
                 !.attempts = job[w][g].attempts + 1,
                 !.pc = IF outcome = "failure" /\ job[w][g].attempts + 1 < MaxAttempts
                        THEN "check" ELSE "publish"])
      BY <2>2 DEF Attempt
    <3> DEFINE j == [job[w][g] EXCEPT
                 !.attempts = job[w][g].attempts + 1,
                 !.pc = IF outcome = "failure" /\ job[w][g].attempts + 1 < MaxAttempts
                        THEN "check" ELSE "publish"]
    <3>2. j.rid \in Rids /\ (j.pc = "check" => j.attempts < MaxAttempts)
      <4>1. job[w][g] \in Job /\ job[w][g].rid \in Rids
        BY <2>2 DEF Attempt
      <4>2. QED
        BY <4>1 DEF Job
    <3>3. /\ job'[w][g] = j
          /\ <<v, h>> # <<w, g>> => job'[v][h] = job[v][h]
      BY <3>1, OtherJobsKept
    <3> HIDE DEF j
    <3>4. QED
      BY <3>2, <3>3
  <2>3. CASE PublishAnswer(w, g) \/ LoseAnswer(w, g)
    BY <2>3, OtherJobsKept DEF PublishAnswer, LoseAnswer, Idle
  <2>4. CASE GoroutineStop(w, g)
    BY <2>4, OtherJobsKept DEF GoroutineStop, Idle, Stopped
  <2>5. QED
    BY <1>3, <2>1, <2>2, <2>3, <2>4 DEF GoroutineStep
<1>4. QED
  BY <1>1, <1>2, <1>3
     DEF WorkerNext, WorkerStop, WorkerCancel, WorkerExit, WorkerCut, WorkerReconnect,
         WorkerReceive, WorkerSettle

\* A process that is down can only be started.
LEMMA WorkerDownIsIdle ==
  ASSUME WInv, NEW w \in Workers, WorkerNext(w)
  PROVE  DownIsIdle'
<1> SUFFICES ASSUME NEW v \in Workers, wState'[v] = "down"
             PROVE  /\ wLink'[v] = ClosedLink
                    /\ \A g \in Goroutines : job'[v][g].pc = "stopped"
  BY DEF DownIsIdle, AllStopped
<1> USE DEF WInv, WorkerTypeOK, DownIsIdle, AllStopped
<1>1. CASE v # w
  <2>1. wState'[v] = wState[v]
    BY <1>1 DEF WorkerNext, WorkerStart, WorkerStop, WorkerCancel, WorkerExit, WorkerCrash,
                WorkerCut, WorkerReconnect, WorkerReceive, WorkerSettle, GoroutineStep,
                Take, Attempt, PublishAnswer, LoseAnswer, GoroutineStop
  <2>2. wLink'[v] = wLink[v]
    BY <1>1 DEF WorkerNext, WorkerStart, WorkerStop, WorkerCancel, WorkerExit, WorkerCrash,
                WorkerCut, WorkerReconnect, WorkerReceive, WorkerSettle, GoroutineStep,
                Take, Attempt, PublishAnswer, LoseAnswer, GoroutineStop, SetLink
  <2>3. job'[v] = job[v]
    BY <1>1 DEF WorkerNext, WorkerStart, WorkerStop, WorkerCancel, WorkerExit, WorkerCrash,
                WorkerCut, WorkerReconnect, WorkerReceive, WorkerSettle, GoroutineStep,
                Take, Attempt, PublishAnswer, LoseAnswer, GoroutineStop, SetJob
  <2>4. QED
    BY <2>1, <2>2, <2>3
<1>2. CASE v = w /\ wState[w] = "down"
  <2>1. /\ wLink[w].conn = "closed" /\ ~wLink[w].listening
        /\ wLink[w].ch = <<>> /\ wLink[w].acking = {}
        /\ \A g \in Goroutines : job[w][g].pc = "stopped"
    BY <1>2 DEF ClosedLink
  <2>2. QED
    BY <1>2, <2>1
       DEF WorkerNext, WorkerStart, WorkerStop, WorkerCancel, WorkerExit, WorkerCrash,
           WorkerCut, WorkerReconnect, WorkerReceive, WorkerSettle, GoroutineStep,
           Take, Attempt, PublishAnswer, LoseAnswer, GoroutineStop,
           CanCut, CanReconnect, CanReceive
<1>3. CASE v = w /\ wState[w] # "down"
  <2>1. WorkerExit(w) \/ WorkerCrash(w)
    BY <1>3 DEF WorkerNext, WorkerStart, WorkerStop, WorkerCancel,
                WorkerCut, WorkerReconnect, WorkerReceive, WorkerSettle, GoroutineStep,
                Take, Attempt, PublishAnswer, LoseAnswer, GoroutineStop
  <2>2. QED
    BY <1>3, <2>1 DEF WorkerExit, WorkerCrash, SetLink, Stopped, Idle
<1>4. QED
  BY <1>1, <1>2, <1>3

-----------------------------------------------------------------------------
Kept(r) == InHand(r) \/ answers[r] > 0

\* A request in a goroutine's hand stays there until it is answered, unless the
\* process crashes or the answer is lost.
LEMMA WorkerKeeps ==
  ASSUME WInv, NEW w \in Workers, WorkerNext(w), Lossless', NEW r \in Rids, Kept(r)
  PROVE  Kept(r)'
<1> USE DEF WInv, WorkerTypeOK, BackboneTypeOK
<1>0. spent'["workerCrash"] = 0 /\ spent'["loss"] = 0
  BY DEF Lossless, NoFault
<1>1. CASE answers[r] > 0
  <2>1. answers' = answers \/ \E q \in Rids : answers' = [answers EXCEPT ![q] = @ + 1]
    BY DEF WorkerNext, WorkerStart, WorkerStop, WorkerCancel, WorkerExit, WorkerCrash,
           WorkerCut, WorkerReconnect, WorkerReceive, WorkerSettle, GoroutineStep,
           Take, Attempt, PublishAnswer, LoseAnswer, GoroutineStop, Answer, JobSane,
           backboneVars, historyVars
  <2>2. QED
    BY <1>1, <2>1 DEF Kept
<1>2. ASSUME NEW v \in Workers, NEW h \in Goroutines, Holds(v, h, r)
      PROVE  Kept(r)'
  <2>1. CASE job'[v][h] = job[v][h]
    BY <1>2, <2>1 DEF Kept, InHand, Holds
  <2>2. CASE WorkerStart(w)
    BY <1>2, <2>1, <2>2 DEF WorkerStart, DownIsIdle, AllStopped, Holds
  <2>3. CASE WorkerCrash(w)
    BY <1>0, <2>3, SpendFact, FaultNames DEF WorkerCrash
  <2>4. ASSUME NEW g \in Goroutines, GoroutineStep(w, g), job'[v][h] # job[v][h]
        PROVE  Kept(r)'
    <3>1. CASE Take(w, g) \/ GoroutineStop(w, g)
      <4>1. job[w][g].pc = "select"
        BY <3>1 DEF Take, GoroutineStop
      <4>2. <<v, h>> # <<w, g>>
        BY <1>2, <4>1 DEF Holds
      <4>3. job'[v][h] = job[v][h]
        BY <3>1, <4>2, OtherJobsKept DEF Take, GoroutineStop
      <4>4. QED
        BY <2>4, <4>3
    <3>2. CASE Attempt(w, g)
      <4>1. PICK pc \in {"check", "publish"} :
               SetJob(w, g, [job[w][g] EXCEPT !.attempts = job[w][g].attempts + 1, !.pc = pc])
        BY <3>2 DEF Attempt
      <4>2. <<v, h>> = <<w, g>>
        BY <2>4, <4>1, OtherJobsKept
      <4>3. job[w][g] \in Job
        OBVIOUS
      <4> DEFINE j == [job[w][g] EXCEPT !.attempts = job[w][g].attempts + 1, !.pc = pc]
      <4>4. j.pc = pc /\ j.rid = job[w][g].rid
        BY <4>3 DEF Job
      <4>5. job'[w][g] = j
        BY <4>1, OtherJobsKept
      <4> HIDE DEF j
      <4>6. job'[v][h].pc \in {"check", "publish"} /\ job'[v][h].rid = r
        BY <1>2, <4>2, <4>4, <4>5 DEF Holds
      <4>7. QED
        BY <4>6 DEF Kept, InHand, Holds
    <3>3. CASE PublishAnswer(w, g)
      <4>1. <<v, h>> = <<w, g>>
        BY <2>4, <3>3, OtherJobsKept DEF PublishAnswer
      <4>2. answers' = [answers EXCEPT ![r] = @ + 1]
        BY <1>2, <3>3, <4>1 DEF PublishAnswer, Answer, Holds
      <4>3. QED
        BY <4>2 DEF Kept
    <3>4. CASE LoseAnswer(w, g)
      BY <1>0, <3>4, SpendFact, FaultNames DEF LoseAnswer
    <3>5. QED
      BY <2>4, <3>1, <3>2, <3>3, <3>4 DEF GoroutineStep
  <2>5. QED
    BY <2>1, <2>2, <2>3, <2>4
       DEF WorkerNext, WorkerStop, WorkerCancel, WorkerExit, WorkerCut, WorkerReconnect,
           WorkerReceive, WorkerSettle
<1>3. QED
  BY <1>1, <1>2 DEF Kept, InHand

\* An acknowledgement gets on its way only by taking the request.
LEMMA WorkerAcking ==
  ASSUME WInv, NEW w \in Workers, WorkerNext(w),
         NEW v \in Workers, NEW r \in wLink'[v].acking
  PROVE  r \in wLink[v].acking \/ InHand(r)'
<1> USE DEF WInv, WorkerTypeOK
<1>0. wLink[w] \in Link(Rids)
  OBVIOUS
<1>1. CASE wLink'[v] = wLink[v]
  BY <1>1
<1>2. CASE WorkerStart(w) \/ WorkerExit(w) \/ WorkerCrash(w)
  <2>1. wLink'[v] \in {wLink[v], ClosedLink, ConsumingLink}
    BY <1>2 DEF WorkerStart, WorkerExit, WorkerCrash, SetLink
  <2>2. QED
    BY <2>1, FreshLinkTypes
<1>3. ASSUME NEW k, SetLink(w, k), k.acking \subseteq wLink[w].acking
      PROVE  r \in wLink[v].acking
  BY <1>3, OtherLinksKept
<1>4. CASE WorkerCancel(w)
  BY <1>0, <1>3, <1>4, CancelledType DEF WorkerCancel
<1>5. ASSUME NEW fault, NEW how \in {"closed", "stalled"}, WorkerCut(w, fault, how)
      PROVE  r \in wLink[v].acking
  BY <1>0, <1>3, <1>5, CutType DEF WorkerCut
<1>6. CASE WorkerReconnect(w)
  BY <1>0, <1>3, <1>6, ReconnectedType DEF WorkerReconnect
<1>7. ASSUME NEW q \in Rids, WorkerReceive(w, q) \/ WorkerSettle(w, q)
      PROVE  r \in wLink[v].acking
  <2>1. /\ Received(wLink[w], q).acking \subseteq wLink[w].acking
        /\ Settled(wLink[w], q).acking \subseteq wLink[w].acking
    BY <1>0, ReceivedType, SettledType
  <2>2. QED
    BY <1>3, <1>7, <2>1 DEF WorkerReceive, WorkerSettle
<1>8. ASSUME NEW g \in Goroutines, Take(w, g)
      PROVE  r \in wLink[v].acking \/ InHand(r)'
  <2> DEFINE d == Head(wLink[w].ch)
             k == [wLink[w] EXCEPT !.ch = Tail(@)]
             j == [pc |-> "check", rid |-> d.msg, attempts |-> 0]
  <2>1. d \in Delivery(Rids) /\ k \in Link(Rids) /\ k.acking = wLink[w].acking
    BY <1>0, <1>8, TakenType DEF Take, Link
  <2>2. SetLink(w, Acked(k, d)) /\ (d.live => SetJob(w, g, j))
    BY <1>8 DEF Take
  <2>3. Acked(k, d).acking = IF d.live THEN k.acking \cup {d.msg} ELSE k.acking
    <3> HIDE DEF d, k, j
    <3>1. QED
      BY <2>1, AckedType
  <2>4. CASE d.live /\ r = d.msg
    <3>1. job'[w][g] = j
      BY <2>2, <2>4, OtherJobsKept
    <3>2. QED
      BY <2>4, <3>1 DEF InHand, Holds
  <2>5. CASE ~(d.live /\ r = d.msg)
    <3> HIDE DEF d, k, j
    <3>1. CASE v = w
      BY <2>1, <2>2, <2>3, <2>5, <3>1, OtherLinksKept
    <3>2. CASE v # w
      BY <2>2, <3>2, OtherLinksKept
    <3>3. QED
      BY <3>1, <3>2
  <2>6. QED
    BY <2>4, <2>5
<1>9. QED
  BY <1>1, <1>2, <1>4, <1>5, <1>6, <1>7, <1>8
     DEF WorkerNext, WorkerStop, GoroutineStep, Attempt, PublishAnswer, LoseAnswer, GoroutineStop

\* The broker takes back every unacknowledged request that a step removes from a
\* link, except those whose acknowledgement it has seen.
LEMMA WorkerBroker ==
  ASSUME WInv, NEW w \in Workers, WorkerNext(w), NEW r \in Rids, AtBroker(r)
  PROVE  AtBroker(r)' \/ \E v \in Workers : r \in wLink[v].acking
<1> USE DEF WInv, WorkerTypeOK, BackboneTypeOK
<1>0. wLink[w] \in Link(Rids) /\ Region[w] \in Bound
  BY WorkerAssumption
<1>1. CASE requests' = requests /\ wLink' = wLink
  BY <1>1 DEF AtBroker
\* Steps that change the link alone, and keep what is unacknowledged.
<1>2. ASSUME NEW k, SetLink(w, k), requests' = requests,
             wLink[w].unacked \ wLink[w].acking \subseteq k.unacked
      PROVE  AtBroker(r)' \/ \E v \in Workers : r \in wLink[v].acking
  BY <1>2, OtherLinksKept DEF AtBroker
\* Steps that empty the link into the queue.
<1>3. ASSUME NEW k, SetLink(w, k),
             NEW rs, wLink[w].unacked \ wLink[w].acking \subseteq rs, Requeue(Region[w], rs)
      PROVE  AtBroker(r)' \/ \E v \in Workers : r \in wLink[v].acking
  <2>1. /\ \A g \in Bound : requests[g] \subseteq requests'[g]
        /\ rs \subseteq requests'[Region[w]]
    BY <1>0, <1>3 DEF Requeue
  <2>2. \A v \in Workers \ {w} : wLink'[v] = wLink[v]
    BY <1>3, OtherLinksKept
  <2>3. CASE r \in wLink[w].unacked
    BY <1>0, <1>3, <2>1, <2>3 DEF AtBroker
  <2>4. CASE r \notin wLink[w].unacked
    BY <2>1, <2>2, <2>4 DEF AtBroker
  <2>5. QED
    BY <2>3, <2>4
<1>4. CASE WorkerStart(w)
  <2>1. wLink[w].unacked = {}
    BY <1>4, FreshLinkTypes DEF WorkerStart, DownIsIdle
  <2>2. QED
    BY <1>2, <1>4, <2>1 DEF WorkerStart, backboneVars
<1>5. CASE WorkerCancel(w)
  BY <1>0, <1>2, <1>5, CancelledType DEF WorkerCancel, backboneVars
<1>6. CASE WorkerExit(w) \/ WorkerCrash(w)
  BY <1>3, <1>6 DEF WorkerExit, WorkerCrash, ReturnedByClose, ReturnedByCrash
<1>7. ASSUME NEW fault, NEW how, WorkerCut(w, fault, how)
      PROVE  AtBroker(r)' \/ \E v \in Workers : r \in wLink[v].acking
  BY <1>3, <1>7 DEF WorkerCut, ReturnedByCrash
<1>8. CASE WorkerReconnect(w)
  BY <1>0, <1>2, <1>8, ReconnectedType DEF WorkerReconnect, backboneVars
<1>9. ASSUME NEW q \in Rids, WorkerReceive(w, q)
      PROVE  AtBroker(r)' \/ \E v \in Workers : r \in wLink[v].acking
  <2>1. wLink'[w].unacked = wLink[w].unacked \cup {q}
    BY <1>0, <1>9, ReceivedType, OtherLinksKept DEF WorkerReceive
  <2>2. \A v \in Workers \ {w} : wLink'[v] = wLink[v]
    BY <1>9, OtherLinksKept DEF WorkerReceive
  <2>3. \A g \in Bound : requests[g] \subseteq requests'[g] \cup {q}
    BY <1>9 DEF WorkerReceive
  <2>4. QED
    BY <2>1, <2>2, <2>3 DEF AtBroker
<1>10. ASSUME NEW q \in Rids, WorkerSettle(w, q)
       PROVE  AtBroker(r)' \/ \E v \in Workers : r \in wLink[v].acking
  <2>1. wLink[w].unacked \ wLink[w].acking \subseteq Settled(wLink[w], q).unacked
    BY <1>0, <1>10, SettledType DEF WorkerSettle
  <2>2. QED
    BY <1>2, <1>10, <2>1 DEF WorkerSettle, backboneVars
<1>11. ASSUME NEW g \in Goroutines, Take(w, g)
       PROVE  AtBroker(r)' \/ \E v \in Workers : r \in wLink[v].acking
  <2> DEFINE d == Head(wLink[w].ch)
             k == [wLink[w] EXCEPT !.ch = Tail(@)]
  <2>1. d \in Delivery(Rids) /\ k \in Link(Rids) /\ k.unacked = wLink[w].unacked
    BY <1>0, <1>11, TakenType DEF Take, Link
  <2>2. SetLink(w, Acked(k, d)) /\ requests' = requests
    BY <1>11 DEF Take, backboneVars
  <2> HIDE DEF d, k
  <2>3. Acked(k, d).unacked = wLink[w].unacked
    BY <2>1, AckedType
  <2>4. QED
    BY <1>2, <2>2, <2>3
<1>12. QED
  BY <1>1, <1>4, <1>5, <1>6, <1>7, <1>8, <1>9, <1>10, <1>11
     DEF WorkerNext, WorkerStop, GoroutineStep, Attempt, PublishAnswer, LoseAnswer,
         GoroutineStop, backboneVars

-----------------------------------------------------------------------------
\* Faults are never forgotten.
LEMMA WorkerFaults ==
  ASSUME WInv, NEW w \in Workers, WorkerNext(w), Lossless'
  PROVE  Lossless
<1>1. spent' = spent \/ \E f \in Faults : Spend(f)
  BY DEF WorkerNext, WorkerStart, WorkerStop, WorkerCancel, WorkerExit, WorkerCrash,
         WorkerCut, WorkerReconnect, WorkerReceive, WorkerSettle, GoroutineStep,
         Take, Attempt, PublishAnswer, LoseAnswer, GoroutineStop, backboneVars, Faults
<1>2. QED
  BY <1>1, SpendFact, FaultNames DEF WInv, BackboneTypeOK, Lossless, NoFault

\* Workers publish no request.
LEMMA WorkerRouted ==
  ASSUME NEW w \in Workers, WorkerNext(w)
  PROVE  routed' = routed
  BY DEF WorkerNext, WorkerStart, WorkerStop, WorkerCancel, WorkerExit, WorkerCrash,
         WorkerCut, WorkerReconnect, WorkerReceive, WorkerSettle, GoroutineStep,
         Take, Attempt, PublishAnswer, LoseAnswer, GoroutineStop, backboneVars, historyVars

\* A step of a worker preserves WInv.
LEMMA WorkerStepInv ==
  ASSUME WInv, NEW w \in Workers, WorkerNext(w)
  PROVE  WInv'
<1>1. BackboneTypeOK' /\ WorkerTypeOK' /\ JobSane' /\ DownIsIdle'
  BY WorkerTypes, WorkerSane, WorkerDownIsIdle
<1>2. ASSUME Lossless'
      PROVE  /\ \A v \in Workers : \A r \in wLink'[v].acking : Kept(r)'
             /\ \A r \in routed' : Safe(r)'
  <2>1. Lossless
    BY <1>2, WorkerFaults
  <2>2. \A v \in Workers : \A r \in wLink[v].acking : r \in Rids /\ Kept(r)
    BY <2>1 DEF WInv, AckedIsTaken, Lossless, Kept, WorkerTypeOK, Link
  <2>3. \A v \in Workers : \A r \in wLink[v].acking : Kept(r)'
    BY <1>2, <2>2, WorkerKeeps
  <2>4. \A v \in Workers : \A r \in wLink'[v].acking : Kept(r)'
    <3> SUFFICES ASSUME NEW v \in Workers, NEW r \in wLink'[v].acking PROVE Kept(r)'
      OBVIOUS
    <3>1. r \in wLink[v].acking \/ InHand(r)'
      BY WorkerAcking
    <3>2. QED
      BY <2>3, <3>1 DEF Kept
  <2>5. ASSUME NEW r \in routed' PROVE Safe(r)'
    <3>1. r \in Rids /\ Safe(r)
      BY <2>1, WorkerRouted DEF WInv, BackboneTypeOK, NoRequestLost, Lossless, Safe
    <3>2. CASE AtBroker(r)
      <4>1. AtBroker(r)' \/ \E v \in Workers : r \in wLink[v].acking
        BY <3>1, <3>2, WorkerBroker
      <4>2. QED
        BY <2>3, <4>1 DEF Safe, Kept
    <3>3. CASE Kept(r)
      BY <1>2, <3>1, <3>3, WorkerKeeps DEF Safe, Kept
    <3>4. QED
      BY <3>1, <3>2, <3>3 DEF Safe, Kept
  <2>6. QED
    BY <2>4, <2>5
<1>3. AckedIsTaken' /\ NoRequestLost'
  BY <1>2 DEF AckedIsTaken, NoRequestLost, Lossless, Kept, Safe
<1>4. QED
  BY <1>1, <1>3 DEF WInv

\* So does a step of anything else that leaves the workers alone, takes nothing
\* out of a request queue and puts in what it counts as routed.
LEMMA OutsideStepInv ==
  ASSUME WInv, UNCHANGED workerVars, answers' = answers, BackboneTypeOK',
         Lossless' => Lossless,
         \A g \in Bound : requests[g] \subseteq requests'[g],
         \A r \in routed' : r \in routed \/ \E g \in Bound : r \in requests'[g]
  PROVE  WInv'
<1>1. WorkerTypeOK' /\ JobSane' /\ DownIsIdle'
  BY DEF WInv, WorkerTypeOK, JobSane, DownIsIdle, AllStopped, workerVars
<1>2. AckedIsTaken'
  BY DEF WInv, AckedIsTaken, Lossless, InHand, Holds, workerVars
<1>3. NoRequestLost'
  BY DEF WInv, NoRequestLost, Lossless, AtBroker, InHand, Holds, workerVars
<1>4. QED
  BY <1>1, <1>2, <1>3 DEF WInv

\* A request put into a bound queue, or dropped for want of one.
LEMMA RouteFact ==
  ASSUME requests \in [Bound -> SUBSET Rids], routed \subseteq Rids,
         NEW r \in Rids, NEW g, Route(r, g)
  PROVE  /\ requests' \in [Bound -> SUBSET Rids] /\ routed' \subseteq Rids
         /\ \A b \in Bound : requests[b] \subseteq requests'[b]
         /\ \A q \in routed' : q \in routed \/ \E b \in Bound : q \in requests'[b]
  BY DEF Route

-----------------------------------------------------------------------------
\* Before any process starts there is no copy of anything.
LEMMA WInitOnce == BackboneInit /\ WorkerInit => OnceInv
<1> SUFFICES ASSUME BackboneInit, WorkerInit PROVE OnceInv
  OBVIOUS
<1>1. BrokerOnce /\ FreshIsNowhere
  BY FreshLinkTypes
     DEF BackboneInit, WorkerInit, BrokerOnce, FreshIsNowhere, AtBroker, InHand, Holds, Stopped, Idle
<1>2. \A w \in Workers : DeliveredOnce(wLink[w])
  BY FreshLinkOnce DEF WorkerInit
<1>3. CopiesPaid
  <2> SUFFICES ASSUME NEW r \in Rids
               PROVE  /\ IsFiniteSet(Holders(r))
                      /\ (IF Pending(r) THEN 1 ELSE 0) + Cardinality(Holders(r)) + answers[r]
                            <= 1 + Disruptions
    BY DEF CopiesPaid
  <2>1. Holders(r) = {}
    BY DEF WorkerInit, Holders, Holds, Stopped, Idle
  <2>2. IsFiniteSet(Holders(r)) /\ Cardinality(Holders(r)) = 0
    BY <2>1, FS_EmptySet
  <2>3. Disruptions = 0 /\ answers[r] = 0
    BY DEF BackboneInit, Disruptions, Faults
  <2>4. QED
    BY <2>2, <2>3
<1>4. QED
  BY <1>1, <1>2, <1>3 DEF OnceInv

\* Disruptions are counted up, and the three of them are counted.
LEMMA DisruptionsFact ==
  ASSUME BackboneTypeOK
  PROVE  /\ Disruptions \in Nat
         /\ spent' = spent => Disruptions' = Disruptions
         /\ \A f \in Faults : Spend(f) => Disruptions' \in Nat /\ Disruptions <= Disruptions'
         /\ \A f \in {"drop", "channel", "workerCrash"} : Spend(f) => Disruptions' = Disruptions + 1
<1>1. {"drop", "channel", "workerCrash"} \subseteq Faults
  BY DEF Faults
<1>2. \A f \in Faults : spent[f] \in Nat
  BY DEF BackboneTypeOK
<1>3. ASSUME NEW f \in Faults, Spend(f)
      PROVE  /\ spent'[f] = spent[f] + 1
             /\ \A e \in Faults \ {f} : spent'[e] = spent[e]
  BY <1>3 DEF Spend, BackboneTypeOK
<1>4. Disruptions \in Nat
  BY <1>1, <1>2 DEF Disruptions
<1>5. ASSUME NEW f \in {"drop", "channel", "workerCrash"}, Spend(f)
      PROVE  Disruptions' = Disruptions + 1
  BY <1>1, <1>2, <1>3, <1>5 DEF Disruptions
<1>6. ASSUME NEW f \in Faults \ {"drop", "channel", "workerCrash"}, Spend(f)
      PROVE  Disruptions' = Disruptions
  BY <1>1, <1>2, <1>3, <1>6 DEF Disruptions
<1>7. ASSUME NEW f \in Faults, Spend(f)
      PROVE  Disruptions' \in Nat /\ Disruptions <= Disruptions'
  <2>1. Disruptions' = Disruptions + 1 \/ Disruptions' = Disruptions
    BY <1>5, <1>6, <1>7
  <2>2. QED
    BY <1>4, <2>1
<1>8. spent' = spent => Disruptions' = Disruptions
  BY DEF Disruptions
<1>9. QED
  BY <1>4, <1>5, <1>7, <1>8

-----------------------------------------------------------------------------
\* BrokerOnce of one request.
Unique(queues, links, r) ==
    /\ \A g, h \in Bound : r \in queues[g] /\ r \in queues[h] => g = h
    /\ \A v, u \in Workers : r \in links[v].unacked /\ r \in links[u].unacked => v = u
    /\ \A g \in Bound, v \in Workers : ~(r \in queues[g] /\ r \in links[v].unacked)

\* A step does one of three things to what the broker has in the region of w and
\* out on its link: it keeps or forgets, it hands out, or it takes back.
Keeps(w) ==
    /\ requests' = requests
    /\ wLink'[w].unacked \subseteq wLink[w].unacked
    /\ wLink'[w].unacked \ wLink'[w].acking \subseteq wLink[w].unacked \ wLink[w].acking

HandsOut(w) ==
    \E q \in requests[Region[w]] :
        /\ requests' = [requests EXCEPT ![Region[w]] = @ \ {q}]
        /\ wLink'[w].unacked = wLink[w].unacked \cup {q}
        /\ wLink'[w].acking = wLink[w].acking

TakesBack(w) ==
    \E rs \in SUBSET wLink[w].unacked :
        /\ Requeue(Region[w], rs)
        /\ wLink'[w].unacked = {}
        /\ rs \subseteq wLink[w].unacked \ wLink[w].acking \/ Disruptions' = Disruptions + 1

LEMMA WorkerLinkStep ==
  ASSUME WInv, OnceInv, NEW w \in Workers, WorkerNext(w)
  PROVE  /\ DeliveredOnce(wLink'[w])
         /\ \A v \in Workers \ {w} : wLink'[v] = wLink[v]
         /\ Keeps(w) \/ HandsOut(w) \/ TakesBack(w)
<1> DEFINE Goal == /\ DeliveredOnce(wLink'[w])
                   /\ \A v \in Workers \ {w} : wLink'[v] = wLink[v]
                   /\ Keeps(w) \/ HandsOut(w) \/ TakesBack(w)
<1> USE DEF WInv, WorkerTypeOK, BackboneTypeOK
<1>0. /\ wLink[w] \in Link(Rids) /\ Region[w] \in Bound /\ DeliveredOnce(wLink[w])
      /\ wLink \in [Workers -> Link(Rids)]
  BY WorkerAssumption DEF OnceInv
<1>1. ASSUME wLink' = wLink, requests' = requests PROVE Goal
  BY <1>0, <1>1 DEF Keeps
<1>2. ASSUME NEW k, SetLink(w, k), requests' = requests, DeliveredOnce(k),
             k.unacked \subseteq wLink[w].unacked,
             k.unacked \ k.acking \subseteq wLink[w].unacked \ wLink[w].acking
      PROVE  Goal
  BY <1>0, <1>2, OtherLinksKept DEF Keeps
<1>3. ASSUME NEW k, SetLink(w, k), DeliveredOnce(k), k.unacked = {},
             NEW rs \in SUBSET wLink[w].unacked, Requeue(Region[w], rs),
             rs \subseteq wLink[w].unacked \ wLink[w].acking \/ Disruptions' = Disruptions + 1
      PROVE  Goal
  BY <1>0, <1>3, OtherLinksKept DEF TakesBack
<1> SUFFICES Goal
  OBVIOUS
<1> HIDE DEF Goal
<1>4. CASE WorkerStart(w)
  BY <1>2, <1>4, FreshLinkTypes, FreshLinkOnce DEF WorkerStart, backboneVars
<1>5. CASE WorkerCancel(w) \/ WorkerReconnect(w)
  <2>1. requests' = requests
    BY <1>5 DEF WorkerCancel, WorkerReconnect, backboneVars
  <2>2. CASE WorkerCancel(w)
    BY <1>0, <1>2, <2>1, <2>2, CancelledType, ConnectionOnce DEF WorkerCancel
  <2>3. CASE WorkerReconnect(w)
    BY <1>0, <1>2, <2>1, <2>3, ReconnectedType, ConnectionOnce DEF WorkerReconnect
  <2>4. QED
    BY <1>5, <2>2, <2>3
<1>6. CASE WorkerExit(w)
  <2>1. /\ SetLink(w, ClosedLink) /\ Requeue(Region[w], ReturnedByClose(wLink[w]))
        /\ ReturnedByClose(wLink[w]) = wLink[w].unacked \ wLink[w].acking
    BY <1>6 DEF WorkerExit, ReturnedByClose
  <2>2. QED
    BY <1>3, <2>1, FreshLinkTypes, FreshLinkOnce
<1>7. CASE WorkerCrash(w)
  <2>1. /\ SetLink(w, ClosedLink) /\ Requeue(Region[w], wLink[w].unacked)
        /\ Disruptions' = Disruptions + 1
    BY <1>7, DisruptionsFact DEF WorkerCrash, ReturnedByCrash
  <2>2. QED
    BY <1>3, <2>1, FreshLinkTypes, FreshLinkOnce
<1>8. ASSUME NEW fault \in {"drop", "channel"}, NEW how \in {"closed", "stalled"},
             WorkerCut(w, fault, how)
      PROVE  Goal
  <2>1. /\ SetLink(w, Cut(wLink[w], how)) /\ Requeue(Region[w], wLink[w].unacked)
        /\ Disruptions' = Disruptions + 1
    BY <1>8, DisruptionsFact DEF WorkerCut, ReturnedByCrash
  <2>2. Cut(wLink[w], how).unacked = {} /\ DeliveredOnce(Cut(wLink[w], how))
    <3>1. Cut(wLink[w], how).unacked = {}
      BY <1>0, CutType
    <3>2. DeliveredOnce(Cut(wLink[w], how))
      BY <1>0, CutOnce
    <3>3. QED
      BY <3>1, <3>2
  <2>3. QED
    BY <1>3, <2>1, <2>2
<1>9. ASSUME NEW q \in Rids, WorkerReceive(w, q) PROVE Goal
  <2>1. /\ q \in requests[Region[w]]
        /\ requests' = [requests EXCEPT ![Region[w]] = @ \ {q}]
        /\ SetLink(w, Received(wLink[w], q))
    BY <1>9 DEF WorkerReceive
  <2>2. q \notin wLink[w].unacked
    BY <1>0, <2>1 DEF OnceInv, BrokerOnce
  <2>3. DeliveredOnce(Received(wLink[w], q))
    BY <1>0, <2>2, ReceivedOnce
  <2>4. /\ wLink'[w].unacked = wLink[w].unacked \cup {q}
        /\ wLink'[w].acking = wLink[w].acking
        /\ wLink'[w] = Received(wLink[w], q)
        /\ \A v \in Workers \ {w} : wLink'[v] = wLink[v]
    BY <1>0, <2>1, ReceivedType, OtherLinksKept
  <2>5. QED
    BY <2>1, <2>3, <2>4 DEF Goal, HandsOut
<1>10. ASSUME NEW q \in Rids, WorkerSettle(w, q) PROVE Goal
  <2>1. /\ q \in wLink[w].acking /\ SetLink(w, Settled(wLink[w], q)) /\ requests' = requests
    BY <1>10 DEF WorkerSettle, backboneVars
  <2>2. DeliveredOnce(Settled(wLink[w], q))
    BY <1>0, <2>1, SettledOnce
  <2>3. /\ Settled(wLink[w], q).unacked = wLink[w].unacked \ {q}
        /\ Settled(wLink[w], q).acking = wLink[w].acking \ {q}
    BY <1>0, SettledType
  <2>4. QED
    BY <1>2, <2>1, <2>2, <2>3
<1>11. ASSUME NEW g \in Goroutines, Take(w, g) PROVE Goal
  <2> DEFINE d == Head(wLink[w].ch)
             k == [wLink[w] EXCEPT !.ch = Tail(@)]
  <2>1. /\ d \in Delivery(Rids) /\ k \in Link(Rids)
        /\ k.unacked = wLink[w].unacked /\ k.acking = wLink[w].acking
    BY <1>0, <1>11, TakenType DEF Take, Link
  <2>2. SetLink(w, Acked(k, d)) /\ requests' = requests
    BY <1>11 DEF Take, backboneVars
  <2>3. DeliveredOnce(Acked(k, d))
    BY <1>0, <1>11, TakenOnce DEF Take
  <2> HIDE DEF d, k
  <2>4. /\ Acked(k, d).unacked = k.unacked
        /\ k.acking \subseteq Acked(k, d).acking
    <3>1. /\ Acked(k, d).unacked = k.unacked
          /\ Acked(k, d).acking = IF d.live THEN k.acking \cup {d.msg} ELSE k.acking
      BY <2>1, AckedType
    <3>2. QED
      BY <3>1
  <2>5. QED
    BY <1>2, <2>1, <2>2, <2>3, <2>4
<1>12. CASE WorkerStop(w)
  BY <1>1, <1>12 DEF WorkerStop
<1>13. ASSUME NEW g \in Goroutines,
              Attempt(w, g) \/ PublishAnswer(w, g) \/ LoseAnswer(w, g) \/ GoroutineStop(w, g)
       PROVE  Goal
  BY <1>1, <1>13 DEF Attempt, PublishAnswer, LoseAnswer, GoroutineStop, backboneVars
<1>14. QED
  BY <1>4, <1>5, <1>6, <1>7, <1>8, <1>9, <1>10, <1>11, <1>12, <1>13 DEF WorkerNext, GoroutineStep

\* The broker still has a request at most once, at no new place of its own making;
\* what was on its way out of sight comes back only with a disruption.
LEMMA WorkerBrokerOnce ==
  ASSUME WInv, OnceInv, NEW w \in Workers, WorkerNext(w)
  PROVE  /\ BrokerOnce'
         /\ \A r \in Rids : /\ AtBroker(r)' => AtBroker(r)
                            /\ Pending(r)' => Pending(r) \/ Disruptions' = Disruptions + 1
         /\ TakesBack(w) \/ \A r \in Rids : Pending(r)' => Pending(r)
<1> USE DEF WInv, WorkerTypeOK, BackboneTypeOK
<1>0. /\ Region[w] \in Bound /\ BrokerOnce
      /\ \A v \in Workers \ {w} : wLink'[v] = wLink[v]
      /\ Keeps(w) \/ HandsOut(w) \/ TakesBack(w)
  BY WorkerAssumption, WorkerLinkStep DEF OnceInv
<1>1. CASE Keeps(w)
  BY <1>0, <1>1 DEF Keeps, BrokerOnce, AtBroker, Pending
<1>2. CASE HandsOut(w)
  <2>1. PICK q \in requests[Region[w]] :
           /\ requests' = [requests EXCEPT ![Region[w]] = @ \ {q}]
           /\ wLink'[w].unacked = wLink[w].unacked \cup {q}
           /\ wLink'[w].acking = wLink[w].acking
    BY <1>2 DEF HandsOut
  <2>2. /\ \A b \in Bound : requests'[b] \subseteq requests[b]
        /\ q \in Rids /\ q \notin requests'[Region[w]]
    BY <1>0, <2>1
  <2>3. \A b \in Bound : q \notin requests'[b]
    BY <1>0, <2>1, <2>2 DEF BrokerOnce
  <2>4. \A v \in Workers : q \notin wLink[v].unacked
    BY <1>0, <2>1, <2>2 DEF BrokerOnce
  <2>5. \A v \in Workers, r \in Rids :
           r \in wLink'[v].unacked <=> r \in wLink[v].unacked \/ (v = w /\ r = q)
    BY <1>0, <2>1
  <2>6. BrokerOnce'
    <3> SUFFICES ASSUME NEW r \in Rids PROVE Unique(requests', wLink', r)
      BY DEF BrokerOnce, Unique
    <3>1. Unique(requests, wLink, r)
      BY <1>0 DEF BrokerOnce, Unique
    <3>2. CASE r = q
      BY <2>3, <2>4, <2>5, <3>2 DEF Unique
    <3>3. CASE r # q
      BY <2>2, <2>5, <3>1, <3>3 DEF Unique
    <3>4. QED
      BY <3>2, <3>3
  <2>7. ASSUME NEW r \in Rids PROVE (AtBroker(r)' => AtBroker(r)) /\ (Pending(r)' => Pending(r))
    <3>1. AtBroker(q) /\ Pending(q)
      BY <1>0, <2>1 DEF AtBroker, Pending
    <3>2. CASE r # q
      <4>1. AtBroker(r)' => AtBroker(r)
        BY <2>2, <2>5, <3>2 DEF AtBroker
      <4>2. \A v \in Workers : wLink'[v].acking = wLink[v].acking
        BY <1>0, <2>1
      <4>3. Pending(r)' => Pending(r)
        BY <2>2, <2>5, <3>2, <4>2 DEF Pending
      <4>4. QED
        BY <4>1, <4>3
    <3>3. QED
      BY <3>1, <3>2
  <2>8. QED
    BY <2>6, <2>7
<1>3. CASE TakesBack(w)
  <2>1. PICK rs \in SUBSET wLink[w].unacked :
           /\ Requeue(Region[w], rs)
           /\ wLink'[w].unacked = {}
           /\ rs \subseteq wLink[w].unacked \ wLink[w].acking \/ Disruptions' = Disruptions + 1
    BY <1>3 DEF TakesBack
  <2>2. \A b \in Bound : \A r \in requests'[b] : r \in requests[b] \/ (b = Region[w] /\ r \in rs)
    BY <1>0, <2>1 DEF Requeue
  <2>3. BrokerOnce'
    <3> SUFFICES ASSUME NEW r \in Rids PROVE Unique(requests', wLink', r)
      BY DEF BrokerOnce, Unique
    <3>1. Unique(requests, wLink, r)
      BY <1>0 DEF BrokerOnce, Unique
    <3>2. \A v \in Workers : r \in wLink'[v].unacked => r \in wLink[v].unacked /\ v # w
      BY <1>0, <2>1
    <3>3. \A b \in Bound : r \in requests'[b] =>
             r \in requests[b] \/ (b = Region[w] /\ r \in wLink[w].unacked)
      BY <2>1, <2>2
    <3>4. QED
      BY <1>0, <3>1, <3>2, <3>3 DEF Unique
  <2>4. \A r \in Rids : AtBroker(r)' => AtBroker(r)
    BY <1>0, <2>1, <2>2 DEF AtBroker
  <2>5. ASSUME NEW r \in Rids, Pending(r)', Disruptions' # Disruptions + 1 PROVE Pending(r)
    BY <1>0, <2>1, <2>2, <2>5 DEF Pending
  <2>6. QED
    BY <1>3, <2>3, <2>4, <2>5
<1>4. QED
  BY <1>0, <1>1, <1>2, <1>3

-----------------------------------------------------------------------------
\* A step does one of three things to the copies in the goroutines' hands: it makes
\* none, it takes a pending request into a hand, or it answers out of one.
MakesNone(w) == answers' = answers /\ \A r \in Rids : Holders(r)' \subseteq Holders(r)

Takes(w) ==
    \E q \in Rids, p \in Workers \X Goroutines :
        /\ answers' = answers
        /\ Pending(q) /\ ~Pending(q)' /\ AtBroker(q)
        /\ p \notin Holders(q) /\ Holders(q)' = Holders(q) \cup {p}
        /\ \A r \in Rids \ {q} : Holders(r)' \subseteq Holders(r)

Answers(w) ==
    \E q \in Rids, p \in Workers \X Goroutines :
        /\ answers' = [answers EXCEPT ![q] = @ + 1]
        /\ p \in Holders(q) /\ Holders(q)' = Holders(q) \ {p}
        /\ \A r \in Rids \ {q} : Holders(r)' \subseteq Holders(r)
        /\ \A r \in Rids : Pending(r)' <=> Pending(r)

\* Giving goroutine g of w a job changes nothing but what this goroutine holds.
LEMMA HoldersFact ==
  ASSUME job \in [Workers -> [Goroutines -> Job]],
         NEW w \in Workers, NEW g \in Goroutines, NEW j, SetJob(w, g, j), NEW r \in Rids
  PROVE  Holders(r)' = IF j.pc \in {"check", "publish"} /\ j.rid = r
                       THEN Holders(r) \cup {<<w, g>>}
                       ELSE Holders(r) \ {<<w, g>>}
<1>1. /\ job'[w][g] = j
      /\ \A v \in Workers, h \in Goroutines : <<v, h>> # <<w, g>> => job'[v][h] = job[v][h]
  BY OtherJobsKept
<1>2. ASSUME NEW p \in Workers \X Goroutines, p # <<w, g>>
      PROVE  p \in Holders(r)' <=> p \in Holders(r)
  <2>1. p = <<p[1], p[2]>> /\ p[1] \in Workers /\ p[2] \in Goroutines
    BY <1>2
  <2>2. job'[p[1]][p[2]] = job[p[1]][p[2]]
    BY <1>1, <1>2, <2>1
  <2>3. QED
    BY <2>2 DEF Holders, Holds
<1>3. <<w, g>> \in Holders(r)' <=> j.pc \in {"check", "publish"} /\ j.rid = r
  BY <1>1 DEF Holders, Holds
<1>4. Holders(r) \subseteq Workers \X Goroutines /\ Holders(r)' \subseteq Workers \X Goroutines
      /\ <<w, g>> \in Workers \X Goroutines
  BY DEF Holders
<1>5. QED
  BY <1>2, <1>3, <1>4

LEMMA WorkerJobStep ==
  ASSUME WInv, OnceInv, NEW w \in Workers, WorkerNext(w)
  PROVE  MakesNone(w) \/ Takes(w) \/ Answers(w)
<1> USE DEF WInv, WorkerTypeOK, BackboneTypeOK
<1>0. wLink[w] \in Link(Rids) /\ DeliveredOnce(wLink[w])
  BY DEF OnceInv
<1>1. ASSUME job' = job, answers' = answers PROVE MakesNone(w)
  BY <1>1 DEF MakesNone, Holders, Holds
\* A goroutine gives up its request, or starts over with the one it has.
<1>2. ASSUME NEW g \in Goroutines, NEW j, SetJob(w, g, j), answers' = answers,
             \/ j.pc \notin {"check", "publish"}
             \/ job[w][g].pc \in {"check", "publish"} /\ j.rid = job[w][g].rid
      PROVE  MakesNone(w)
  <2> SUFFICES ASSUME NEW r \in Rids PROVE Holders(r)' \subseteq Holders(r)
    BY <1>2 DEF MakesNone
  <2>1. CASE j.pc \notin {"check", "publish"} \/ j.rid # r
    BY <1>2, <2>1, HoldersFact
  <2>2. CASE job[w][g].pc \in {"check", "publish"} /\ job[w][g].rid = r
    <3>1. <<w, g>> \in Holders(r)
      BY <2>2 DEF Holders, Holds
    <3>2. Holders(r)' \in {Holders(r) \cup {<<w, g>>}, Holders(r) \ {<<w, g>>}}
      BY <1>2, HoldersFact
    <3>3. QED
      BY <3>1, <3>2
  <2>3. QED
    BY <1>2, <2>1, <2>2
\* All goroutines of a process lose theirs.
<1>3. ASSUME NEW none \in {Idle, Stopped}, answers' = answers,
             job' = [job EXCEPT ![w] = [g \in Goroutines |-> none]]
      PROVE  MakesNone(w)
  <2>1. none.pc \notin {"check", "publish"}
    BY DEF Idle, Stopped
  <2> SUFFICES ASSUME NEW r \in Rids, NEW p \in Holders(r)' PROVE p \in Holders(r)
    BY <1>3 DEF MakesNone
  <2>2. /\ p \in Workers \X Goroutines /\ p[1] \in Workers /\ p[2] \in Goroutines
        /\ job'[p[1]][p[2]].pc \in {"check", "publish"} /\ job'[p[1]][p[2]].rid = r
    BY DEF Holders, Holds
  <2>3. p[1] # w
    BY <1>3, <2>1, <2>2
  <2>4. job'[p[1]] = job[p[1]]
    BY <1>3, <2>2, <2>3
  <2>5. QED
    BY <2>2, <2>4 DEF Holders, Holds
<1>4. CASE WorkerStart(w) \/ WorkerCrash(w)
  BY <1>3, <1>4 DEF WorkerStart, WorkerCrash, backboneVars, historyVars
<1>5. ASSUME NEW g \in Goroutines, Take(w, g) PROVE MakesNone(w) \/ Takes(w)
  <2> DEFINE d == Head(wLink[w].ch)
             k == [wLink[w] EXCEPT !.ch = Tail(@)]
             j == [pc |-> "check", rid |-> d.msg, attempts |-> 0]
  <2>1. answers' = answers /\ requests' = requests /\ SetLink(w, Acked(k, d))
    BY <1>5 DEF Take, backboneVars
  <2>2. CASE ~d.live
    <3>1. job' = job
      BY <1>5, <2>2 DEF Take
    <3>2. QED
      BY <1>1, <2>1, <3>1
  <2>3. CASE d.live
    <3>1. /\ d \in Delivery(Rids) /\ k \in Link(Rids)
          /\ k.unacked = wLink[w].unacked /\ k.acking = wLink[w].acking
      BY <1>0, <1>5, TakenType DEF Take, Link
    <3>2. d.msg \in Rids /\ d.msg \in wLink[w].unacked \ wLink[w].acking
      BY <1>0, <1>5, <2>3, <3>1, TakenOnce DEF Take, Delivery
    <3>3. SetJob(w, g, j) /\ job[w][g].pc = "select" /\ j.pc = "check" /\ j.rid = d.msg
      BY <1>5, <2>3 DEF Take
    <3>4. Acked(k, d).unacked = k.unacked /\ Acked(k, d).acking = k.acking \cup {d.msg}
      BY <2>3, <3>1, AckedType
    <3> HIDE DEF d, j, k
    <3>5. PICK q, i : q \in Rids /\ q = d.msg /\ i = j
      BY <3>2
    <3>6. /\ wLink'[w].unacked = wLink[w].unacked
          /\ wLink'[w].acking = wLink[w].acking \cup {q}
          /\ \A v \in Workers \ {w} : wLink'[v] = wLink[v]
      BY <2>1, <3>1, <3>4, <3>5, OtherLinksKept
    <3>7. Pending(q) /\ AtBroker(q)
      BY <3>2, <3>5 DEF Pending, AtBroker
    <3>8. ~Pending(q)'
      <4>1. \A b \in Bound : q \notin requests'[b]
        BY <2>1, <3>2, <3>5 DEF OnceInv, BrokerOnce
      <4>2. \A v \in Workers : q \notin wLink'[v].unacked \ wLink'[v].acking
        BY <3>2, <3>5, <3>6 DEF OnceInv, BrokerOnce
      <4>3. QED
        BY <4>1, <4>2 DEF Pending
    <3>9. <<w, g>> \notin Holders(q) /\ <<w, g>> \in Workers \X Goroutines
      BY <3>3 DEF Holders, Holds
    <3>10. /\ Holders(q)' = Holders(q) \cup {<<w, g>>}
           /\ \A r \in Rids \ {q} : Holders(r)' \subseteq Holders(r)
      <4>1. SetJob(w, g, i) /\ i.pc = "check" /\ i.rid = q
        BY <3>3, <3>5
      <4>2. QED
        BY <3>5, <4>1, HoldersFact
    <3>11. Takes(w)
      BY <2>1, <3>5, <3>7, <3>8, <3>9, <3>10 DEF Takes
    <3>12. QED
      BY <3>11
  <2>4. QED
    BY <2>2, <2>3
<1>6. ASSUME NEW g \in Goroutines, Attempt(w, g) PROVE MakesNone(w)
  <2>1. PICK pc \in {"check", "publish"} :
           SetJob(w, g, [job[w][g] EXCEPT !.attempts = job[w][g].attempts + 1, !.pc = pc])
    BY <1>6 DEF Attempt
  <2>2. job[w][g] \in Job
    OBVIOUS
  <2>3. [job[w][g] EXCEPT !.attempts = job[w][g].attempts + 1, !.pc = pc].rid = job[w][g].rid
    BY <2>2 DEF Job
  <2>4. answers' = answers /\ job[w][g].pc = "check"
    BY <1>6 DEF Attempt, backboneVars
  <2>5. QED
    BY <1>2, <2>1, <2>3, <2>4
<1>7. ASSUME NEW g \in Goroutines, LoseAnswer(w, g) \/ GoroutineStop(w, g) PROVE MakesNone(w)
  <2>1. PICK j \in {Idle, Stopped} : SetJob(w, g, j)
    BY <1>7 DEF LoseAnswer, GoroutineStop
  <2>2. answers' = answers /\ j.pc \notin {"check", "publish"}
    BY <1>7 DEF LoseAnswer, GoroutineStop, backboneVars, historyVars, Idle, Stopped
  <2>3. QED
    BY <1>2, <2>1, <2>2
<1>8. ASSUME NEW g \in Goroutines, PublishAnswer(w, g) PROVE Answers(w)
  <2> DEFINE q == job[w][g].rid
  <2>1. /\ job[w][g].pc = "publish" /\ SetJob(w, g, Idle)
        /\ answers' = [answers EXCEPT ![q] = @ + 1] /\ UNCHANGED <<requests, wLink>>
    BY <1>8 DEF PublishAnswer, Answer
  <2>2. q \in Rids /\ <<w, g>> \in Holders(q) /\ <<w, g>> \in Workers \X Goroutines
    BY <2>1 DEF JobSane, Holders, Holds
  <2>3. Idle.pc \notin {"check", "publish"}
    BY DEF Idle
  <2> HIDE DEF q
  <2>4. \A r \in Rids : Holders(r)' = Holders(r) \ {<<w, g>>}
    BY <2>1, <2>3, HoldersFact
  <2>5. \A r \in Rids : Pending(r)' <=> Pending(r)
    BY <2>1 DEF Pending
  <2>6. QED
    BY <2>1, <2>2, <2>4, <2>5 DEF Answers
<1>9. CASE job' = job /\ answers' = answers
  BY <1>1, <1>9
<1>10. QED
  BY <1>4, <1>5, <1>6, <1>7, <1>8, <1>9
     DEF WorkerNext, WorkerStop, WorkerCancel, WorkerExit, WorkerCut, WorkerReconnect,
         WorkerReceive, WorkerSettle, GoroutineStep, backboneVars, historyVars

-----------------------------------------------------------------------------
\* Faults are only counted up, whatever a worker does.
LEMMA WorkerDisruptions ==
  ASSUME WInv, NEW w \in Workers, WorkerNext(w)
  PROVE  Disruptions \in Nat /\ Disruptions' \in Nat /\ Disruptions <= Disruptions'
<1>1. spent' = spent \/ \E f \in Faults : Spend(f)
  BY DEF WorkerNext, WorkerStart, WorkerStop, WorkerCancel, WorkerExit, WorkerCrash,
         WorkerCut, WorkerReconnect, WorkerReceive, WorkerSettle, GoroutineStep,
         Take, Attempt, PublishAnswer, LoseAnswer, GoroutineStop, backboneVars, Faults
<1>2. QED
  BY <1>1, DisruptionsFact DEF WInv

\* The arithmetic of CopiesPaid: p copies pending, h in hand, a answers, d disruptions.
LEMMA PaidArithmetic ==
  ASSUME NEW p \in {0, 1}, NEW q \in {0, 1}, NEW h \in Nat, NEW i \in Nat,
         NEW a \in Nat, NEW b \in Nat, NEW d \in Nat, NEW e \in Nat,
         p + h + a <= 1 + d, d <= e
  PROVE  /\ i <= h /\ b = a /\ (q <= p \/ e = d + 1) => q + i + b <= 1 + e
         /\ p = 1 /\ q = 0 /\ i <= h + 1 /\ b = a => q + i + b <= 1 + e
         /\ h = i + 1 /\ b = a + 1 /\ q = p => q + i + b <= 1 + e
  OBVIOUS

\* One request's copies stay paid for when a worker steps.
LEMMA WorkerCopiesPaid ==
  ASSUME WInv, OnceInv, NEW w \in Workers, WorkerNext(w)
  PROVE  CopiesPaid'
<1> DEFINE P(r) == IF Pending(r) THEN 1 ELSE 0
<1> SUFFICES ASSUME NEW r \in Rids
             PROVE  /\ IsFiniteSet(Holders(r)')
                    /\ P(r)' + Cardinality(Holders(r)') + answers'[r] <= 1 + Disruptions'
  BY DEF CopiesPaid
<1>1. IsFiniteSet(Holders(r)) /\ Cardinality(Holders(r)) \in Nat
  BY FS_CardinalityType DEF OnceInv, CopiesPaid
<1>2. P(r) + Cardinality(Holders(r)) + answers[r] <= 1 + Disruptions
  BY DEF OnceInv, CopiesPaid
<1>3. answers \in [Rids -> Nat] /\ answers' \in [Rids -> Nat]
  BY WorkerStepInv DEF WInv, BackboneTypeOK
<1>4. Disruptions \in Nat /\ Disruptions' \in Nat /\ Disruptions <= Disruptions'
  BY WorkerDisruptions
<1>5. P(r) \in {0, 1} /\ P(r)' \in {0, 1}
  OBVIOUS
<1>6. P(r)' <= P(r) \/ Disruptions' = Disruptions + 1
  BY WorkerBrokerOnce
<1>7. answers[r] \in Nat /\ answers'[r] \in Nat
  BY <1>3
<1>8. PICK p, q, a, b, d, e, h :
         /\ p = P(r) /\ q = P(r)' /\ a = answers[r] /\ b = answers'[r]
         /\ d = Disruptions /\ e = Disruptions' /\ h = Cardinality(Holders(r))
  OBVIOUS
<1>9. ASSUME Holders(r)' \subseteq Holders(r), answers'[r] = answers[r]
      PROVE  /\ IsFiniteSet(Holders(r)')
             /\ P(r)' + Cardinality(Holders(r)') + answers'[r] <= 1 + Disruptions'
  <2>1. /\ IsFiniteSet(Holders(r)') /\ Cardinality(Holders(r)') \in Nat
        /\ Cardinality(Holders(r)') <= Cardinality(Holders(r))
    BY <1>1, <1>9, FS_Subset, FS_CardinalityType
  <2> HIDE DEF P
  <2>2. PICK i : i = Cardinality(Holders(r)')
    OBVIOUS
  <2>3. q + i + b <= 1 + e
    BY <1>1, <1>2, <1>4, <1>5, <1>6, <1>7, <1>8, <1>9, <2>1, <2>2, PaidArithmetic
  <2>4. QED
    BY <1>8, <2>1, <2>2, <2>3
<1>10. ASSUME NEW x, Pending(r), ~Pending(r)', answers'[r] = answers[r],
              Holders(r)' = Holders(r) \cup {x}, x \notin Holders(r)
       PROVE  /\ IsFiniteSet(Holders(r)')
              /\ P(r)' + Cardinality(Holders(r)') + answers'[r] <= 1 + Disruptions'
  <2>1. /\ IsFiniteSet(Holders(r)')
        /\ Cardinality(Holders(r)') = Cardinality(Holders(r)) + 1
    BY <1>1, <1>10, FS_AddElement
  <2>2. P(r) = 1 /\ P(r)' = 0
    BY <1>10
  <2> HIDE DEF P
  <2>3. PICK i : i = Cardinality(Holders(r)')
    OBVIOUS
  <2>4. q + i + b <= 1 + e
    BY <1>1, <1>2, <1>4, <1>5, <1>7, <1>8, <1>10, <2>1, <2>2, <2>3, PaidArithmetic
  <2>5. QED
    BY <1>8, <2>1, <2>3, <2>4
<1>11. ASSUME NEW x \in Holders(r), Holders(r)' = Holders(r) \ {x},
              answers'[r] = answers[r] + 1, Pending(r)' <=> Pending(r)
       PROVE  /\ IsFiniteSet(Holders(r)')
              /\ P(r)' + Cardinality(Holders(r)') + answers'[r] <= 1 + Disruptions'
  <2>1. /\ IsFiniteSet(Holders(r)') /\ Cardinality(Holders(r)') \in Nat
        /\ Cardinality(Holders(r)) = Cardinality(Holders(r)') + 1
    <3>1. IsFiniteSet(Holders(r)') /\ Cardinality(Holders(r)') = Cardinality(Holders(r)) - 1
      BY <1>1, <1>11, FS_RemoveElement
    <3>2. Cardinality(Holders(r)') \in Nat
      BY <3>1, FS_CardinalityType
    <3>3. QED
      BY <1>1, <3>1, <3>2
  <2>2. P(r)' = P(r)
    BY <1>11
  <2> HIDE DEF P
  <2>3. PICK i : i = Cardinality(Holders(r)')
    OBVIOUS
  <2>4. q + i + b <= 1 + e
    BY <1>1, <1>2, <1>4, <1>5, <1>7, <1>8, <1>11, <2>1, <2>2, <2>3, PaidArithmetic
  <2>5. QED
    BY <1>8, <2>1, <2>3, <2>4
<1> HIDE DEF P
<1>12. CASE MakesNone(w)
  BY <1>9, <1>12 DEF MakesNone
<1>13. CASE Takes(w)
  BY <1>9, <1>10, <1>13 DEF Takes
<1>14. CASE Answers(w)
  BY <1>3, <1>9, <1>11, <1>14 DEF Answers
<1>15. QED
  BY <1>12, <1>13, <1>14, WorkerJobStep

\* A step of a worker preserves OnceInv.
LEMMA WorkerOnceStep ==
  ASSUME WInv, OnceInv, NEW w \in Workers, WorkerNext(w)
  PROVE  OnceInv'
<1>1. \A v \in Workers : DeliveredOnce(wLink'[v])
  BY WorkerLinkStep DEF OnceInv
<1>2. FreshIsNowhere'
  <2>1. routed' = routed
    BY WorkerRouted
  <2>2. ASSUME NEW r \in Rids \ routed PROVE ~AtBroker(r)' /\ ~InHand(r)' /\ answers'[r] = 0
    <3>1. ~AtBroker(r) /\ answers[r] = 0 /\ Holders(r) = {}
      BY DEF OnceInv, FreshIsNowhere, InHand, Holders
    <3>2. Holders(r)' = {} /\ answers'[r] = answers[r]
      <4>1. CASE MakesNone(w)
        BY <3>1, <4>1 DEF MakesNone
      <4>2. CASE Takes(w)
        BY <3>1, <4>2 DEF Takes
      <4>3. CASE Answers(w)
        BY <3>1, <4>3 DEF Answers, WInv, BackboneTypeOK
      <4>4. QED
        BY <4>1, <4>2, <4>3, WorkerJobStep
    <3>3. ~InHand(r)'
      <4> SUFFICES ASSUME InHand(r)' PROVE FALSE
        OBVIOUS
      <4>1. PICK v \in Workers, g \in Goroutines : Holds(v, g, r)'
        BY DEF InHand
      <4>2. <<v, g>> \in Holders(r)'
        BY <4>1 DEF Holders
      <4>3. QED
        BY <3>2, <4>2
    <3>4. QED
      BY <3>1, <3>2, <3>3, WorkerBrokerOnce
  <2>3. QED
    BY <2>1, <2>2 DEF FreshIsNowhere
<1>3. QED
  BY <1>1, <1>2, WorkerBrokerOnce, WorkerCopiesPaid DEF OnceInv

\* So does a step of anything else that at most puts fresh requests into queues.
LEMMA OutsideOnceStep ==
  ASSUME WInv, OnceInv, BackboneTypeOK', UNCHANGED workerVars, answers' = answers,
         Disruptions \in Nat, Disruptions' \in Nat, Disruptions <= Disruptions',
         \/ requests' = requests /\ routed' = routed
         \/ \E r \in Rids \ routed, g \in Bound : Route(r, g)
  PROVE  OnceInv'
<1> USE DEF WInv, BackboneTypeOK
<1>1. /\ \A w \in Workers : DeliveredOnce(wLink'[w])
      /\ \A r \in Rids : /\ Holders(r)' = Holders(r) /\ (InHand(r)' <=> InHand(r))
  BY DEF OnceInv, workerVars, Holders, InHand, Holds
<1>2. CASE requests' = requests /\ routed' = routed
  <2>1. BrokerOnce' /\ FreshIsNowhere'
    BY <1>1, <1>2 DEF OnceInv, BrokerOnce, FreshIsNowhere, AtBroker, workerVars
  <2>2. CopiesPaid'
    <3> SUFFICES ASSUME NEW r \in Rids
                 PROVE  /\ IsFiniteSet(Holders(r)')
                        /\ (IF Pending(r)' THEN 1 ELSE 0) + Cardinality(Holders(r)') + answers'[r]
                              <= 1 + Disruptions'
      BY DEF CopiesPaid
    <3>1. Pending(r)' <=> Pending(r)
      BY <1>2 DEF Pending, workerVars
    <3>2. IsFiniteSet(Holders(r)) /\ Cardinality(Holders(r)) \in Nat /\ answers[r] \in Nat
      BY FS_CardinalityType DEF OnceInv, CopiesPaid
    <3>3. (IF Pending(r) THEN 1 ELSE 0) + Cardinality(Holders(r)) + answers[r] <= 1 + Disruptions
      BY DEF OnceInv, CopiesPaid
    <3>4. QED
      BY <1>1, <3>1, <3>2, <3>3
  <2>3. QED
    BY <1>1, <2>1, <2>2 DEF OnceInv
<1>3. ASSUME NEW q \in Rids \ routed, NEW b \in Bound, Route(q, b) PROVE OnceInv'
  <2>1. ~AtBroker(q) /\ ~InHand(q) /\ answers[q] = 0
    BY DEF OnceInv, FreshIsNowhere
  <2>2. /\ \A g \in Bound, r \in Rids : r \in requests'[g] => r \in requests[g] \/ (r = q /\ g = b)
        /\ routed' = routed \cup {q} /\ wLink' = wLink
    BY <1>3 DEF Route, workerVars
  <2>3. BrokerOnce'
    <3> SUFFICES ASSUME NEW r \in Rids PROVE Unique(requests', wLink', r)
      BY DEF BrokerOnce, Unique
    <3>1. Unique(requests, wLink, r)
      BY DEF OnceInv, BrokerOnce, Unique
    <3>2. QED
      BY <2>1, <2>2, <3>1 DEF Unique, AtBroker
  <2>4. FreshIsNowhere'
    BY <1>1, <2>2 DEF OnceInv, FreshIsNowhere, AtBroker
  <2>5. CopiesPaid'
    <3> SUFFICES ASSUME NEW r \in Rids
                 PROVE  /\ IsFiniteSet(Holders(r)')
                        /\ (IF Pending(r)' THEN 1 ELSE 0) + Cardinality(Holders(r)') + answers'[r]
                              <= 1 + Disruptions'
      BY DEF CopiesPaid
    <3>1. IsFiniteSet(Holders(r)) /\ Cardinality(Holders(r)) \in Nat /\ answers[r] \in Nat
      BY FS_CardinalityType DEF OnceInv, CopiesPaid
    <3>2. (IF Pending(r) THEN 1 ELSE 0) + Cardinality(Holders(r)) + answers[r] <= 1 + Disruptions
      BY DEF OnceInv, CopiesPaid
    <3>3. CASE r = q
      <4>1. Holders(r) = {}
        BY <2>1, <3>3 DEF Holders, InHand
      <4>2. Cardinality(Holders(r)) = 0
        BY <4>1, FS_EmptySet
      <4>3. QED
        BY <1>1, <2>1, <3>1, <3>3, <4>2
    <3>4. CASE r # q
      <4>1. Pending(r)' => Pending(r)
        BY <2>2, <3>4 DEF Pending
      <4>2. QED
        BY <1>1, <3>1, <3>2, <4>1
    <3>5. QED
      BY <3>3, <3>4
  <2>6. QED
    BY <1>1, <2>3, <2>4, <2>5 DEF OnceInv
<1>4. QED
  BY <1>2, <1>3

-----------------------------------------------------------------------------
\* Every step of the workers on their own keeps the invariant.
LEMMA WNextInv == WInv /\ [WNext]_wVars => WInv'
<1> SUFFICES ASSUME WInv, [WNext]_wVars PROVE WInv'
  OBVIOUS
<1>1. ASSUME NEW r \in Rids, NEW g \in Bound, RequestArrives(r, g) PROVE WInv'
  <2>1. /\ requests' \in [Bound -> SUBSET Rids] /\ routed' \subseteq Rids
        /\ \A b \in Bound : requests[b] \subseteq requests'[b]
        /\ \A q \in routed' : q \in routed \/ \E b \in Bound : q \in requests'[b]
    BY <1>1, RouteFact DEF RequestArrives, WInv, BackboneTypeOK
  <2>2. BackboneTypeOK' /\ (Lossless' => Lossless)
    BY <1>1, <2>1 DEF RequestArrives, WInv, BackboneTypeOK, Lossless, NoFault
  <2>3. QED
    BY <1>1, <2>1, <2>2, OutsideStepInv DEF RequestArrives, workerVars
<1>2. ASSUME NEW w \in Workers, WorkerNext(w) PROVE WInv'
  BY <1>2, WorkerStepInv
<1>3. CASE UNCHANGED wVars
  <2>1. BackboneTypeOK' /\ (Lossless' => Lossless)
    BY <1>3 DEF wVars, backboneVars, WInv, BackboneTypeOK, Lossless, NoFault
  <2>2. QED
    BY <1>3, <2>1, OutsideStepInv DEF wVars, backboneVars, workerVars
<1>4. QED
  BY <1>1, <1>2, <1>3 DEF WNext

\* WInv holds of every reachable state of the workers on their own.
THEOREM WorkerInvariant == WSpec => []WInv
<1>1. WInit => WInv
  BY WInitInv DEF WInit
<1>2. QED
  BY <1>1, WNextInv, PTL DEF WSpec

\* Lost connections, closed channels, redeliveries and graceful shutdowns lose no
\* request, for any number of workers, goroutines, requests and faults.
THEOREM WorkersLoseNothing == WSpec => []NoRequestLost
<1>1. WInv => NoRequestLost
  BY DEF WInv
<1>2. QED
  BY <1>1, WorkerInvariant, PTL

\* Nor does any step of the workers on their own make a copy that is not paid for.
LEMMA WNextOnce == WInv /\ OnceInv /\ [WNext]_wVars => OnceInv'
<1> SUFFICES ASSUME WInv, OnceInv, [WNext]_wVars PROVE OnceInv'
  OBVIOUS
<1>0. BackboneTypeOK' /\ Disruptions \in Nat
  BY WNextInv, DisruptionsFact DEF WInv
<1>1. ASSUME NEW r \in Rids, NEW g \in Bound, RequestArrives(r, g) PROVE OnceInv'
  BY <1>0, <1>1, OutsideOnceStep, DisruptionsFact DEF RequestArrives, WInv
<1>2. ASSUME NEW w \in Workers, WorkerNext(w) PROVE OnceInv'
  BY <1>2, WorkerOnceStep
<1>3. CASE UNCHANGED wVars
  BY <1>0, <1>3, OutsideOnceStep, DisruptionsFact DEF wVars, backboneVars, WInv
<1>4. QED
  BY <1>1, <1>2, <1>3 DEF WNext

\* OnceInv holds of every reachable state of the workers on their own: the broker
\* has a request at most once, and every copy of it and every answer to it beyond
\* the first is paid for by a lost connection, a closed channel or a dead process.
THEOREM WorkerCopies == WSpec => []OnceInv
<1>1. WInit => OnceInv
  BY WInitOnce DEF WInit
<1>2. QED
  BY <1>1, WorkerInvariant, WNextOnce, PTL DEF WSpec

\* The bound on answers follows from the bound on copies.
LEMMA CopiesBoundAnswers == WInv /\ OnceInv => AnswersPaidByFaults
<1> SUFFICES ASSUME WInv, OnceInv, NEW r \in Rids PROVE answers[r] <= 1 + Disruptions
  BY DEF AnswersPaidByFaults
<1>1. /\ Cardinality(Holders(r)) \in Nat /\ answers[r] \in Nat
      /\ (IF Pending(r) THEN 1 ELSE 0) + Cardinality(Holders(r)) + answers[r] <= 1 + Disruptions
  BY FS_CardinalityType DEF WInv, BackboneTypeOK, OnceInv, CopiesPaid
<1>2. Disruptions \in Nat
  BY DisruptionsFact DEF WInv
<1>3. QED
  BY <1>1, <1>2

\* While connections and processes survive a request is answered at most once, and
\* each fault adds at most one answer, for any number of workers and goroutines.
THEOREM WorkersAnswerOnce == WSpec => []AnswersPaidByFaults
<1>1. QED
  BY WorkerInvariant, WorkerCopies, CopiesBoundAnswers, PTL
=============================================================================
