--------------------------- MODULE PublisherProofs ---------------------------
(***************************************************************************)
(* Proofs about Publisher, for any number of goroutines, calls and losses  *)
(* of connections.                                                         *)
(***************************************************************************)
EXTENDS Publisher, TLAPS

USE DEF Links, LinkStates, Steps, At, GoTo, ProcessExit, Unlock, Freed, HandleIs,
        InPublish, Reconnecting, broker, shared, mutexes, history

LEMMA InitInv == Init => PublisherInv
<1> SUFFICES ASSUME Init PROVE PublisherInv
  OBVIOUS
<1>1. 1 \in Links /\ \A i \in Links : i \in Nat /\ i >= 1
  BY PublisherAssumption
<1>2. 0 \in 0 .. MaxCalls /\ 0 \in 0 .. MaxLosses
  BY PublisherAssumption
<1>3. link \in [Links -> LinkStates]
  BY DEF Init
<1>4. TypeOK
  BY <1>1, <1>2, <1>3, Zenon DEF Init, TypeOK
<1>5. Exclusive /\ NoStaleChannel /\ DialsWhenClosed /\ Explained /\ FateKnown
  BY PublisherAssumption
  DEF Init, Exclusive, NoStaleChannel, DialsWhenClosed, Explained, FateKnown
<1>6. Together /\ OneConnection /\ Spoilt
  BY <1>1 DEF Init, Together, OneConnection, Spoilt
<1>7. QED
  BY <1>4, <1>5, <1>6 DEF PublisherInv

\* What PublisherInv says apart from the types.
Shape == Exclusive /\ Together /\ NoStaleChannel /\ OneConnection /\ DialsWhenClosed
         /\ Spoilt /\ Explained /\ FateKnown

LEMMA TypePreserved == PublisherInv /\ [Next]_vars => TypeOK'
<1> SUFFICES ASSUME PublisherInv, [Next]_vars PROVE TypeOK'
  OBVIOUS
<1> USE PublisherAssumption DEF PublisherInv, TypeOK
<1>1. ASSUME NEW g \in Goroutines, Call(g) PROVE TypeOK'
  <2>1. calls' \in 0 .. MaxCalls
    BY <1>1 DEF Call
  <2>2. "lock" \in Steps /\ "none" \in {"none", "sent", "lost", "twice"}
    OBVIOUS
  <2>3. QED
    BY <1>1, <2>1, <2>2, Zenon DEF Call
<1>0. ASSUME NEW g \in Goroutines, Lock(g) PROVE TypeOK'
  BY <1>0 DEF Lock
<1>2. ASSUME NEW g \in Goroutines, Publish(g) PROVE TypeOK'
  <2>0. CASE ReadChannel(g)
    BY <2>0 DEF ReadChannel
  <2>1. CASE Accepted(g)
    <3>1. fate' \in [Goroutines -> {"none", "sent", "lost", "twice"}]
      BY <2>1 DEF Accepted
    <3>2. QED
      BY <2>1, <3>1 DEF Accepted
  <2>2. CASE Rejected(g) \/ LockReconnecting(g) \/ TestClosed(g)
    BY <2>2 DEF Rejected, LockReconnecting, TestClosed
  <2>3. CASE Dial(g)
    <3>1. connection + 1 <= losses + 1
      BY <2>3 DEF Dial, DialsWhenClosed, Spoilt
    <3>0. connection + 1 \in Links
      BY <3>1
    <3>2. connection' \in Links
      BY <2>3, <3>0 DEF Dial
    <3>3. link' \in [Links -> LinkStates]
      BY <2>3, <3>2 DEF Dial
    <3>4. QED
      BY <2>3, <3>0, <3>2, <3>3 DEF Dial
  <2>4. CASE OpenChannel(g) \/ Return(g) \/ CallerFails(g)
    BY <2>4 DEF OpenChannel, Return, CallerFails
  <2>5. QED
    BY <1>2, <2>0, <2>1, <2>2, <2>3, <2>4 DEF Publish
<1>3. ASSUME NEW i \in Links, Lose(i) \/ Notice(i) PROVE TypeOK'
  BY <1>3 DEF Lose, Notice, Becomes
<1>4. CASE UNCHANGED vars
  BY <1>4 DEF vars
<1>5. QED
  BY <1>0, <1>1, <1>2, <1>3, <1>4 DEF Next

LEMMA ShapePreserved == PublisherInv /\ [Next]_vars => Shape'
<1> SUFFICES ASSUME PublisherInv, [Next]_vars PROVE Shape'
  OBVIOUS
<1> USE PublisherAssumption DEF PublisherInv, TypeOK, Shape, Exclusive, Together,
        NoStaleChannel, OneConnection, DialsWhenClosed, Spoilt, Explained, FateKnown
<1>1. ASSUME NEW g \in Goroutines, Call(g) PROVE Shape'
  BY <1>1 DEF Call
<1>2. ASSUME NEW g \in Goroutines, Lock(g) PROVE Shape'
  BY <1>2 DEF Lock
<1>3. ASSUME NEW g \in Goroutines, ReadChannel(g) PROVE Shape'
  BY <1>3 DEF ReadChannel
<1>4. ASSUME NEW g \in Goroutines, Accepted(g) PROVE Shape'
  BY <1>4 DEF Accepted
<1>5. ASSUME NEW g \in Goroutines, Rejected(g) PROVE Shape'
  BY <1>5 DEF Rejected
<1>6. ASSUME NEW g \in Goroutines, LockReconnecting(g) PROVE Shape'
  BY <1>6 DEF LockReconnecting
<1>7. ASSUME NEW g \in Goroutines, TestClosed(g) PROVE Shape'
  BY <1>7 DEF TestClosed
<1>8. ASSUME NEW g \in Goroutines, Dial(g) PROVE Shape'
  <2>1. CASE ProcessExit
    BY <1>8, <2>1 DEF Dial
  <2>2. CASE ~ProcessExit
    <3>1. /\ pc[g] = "dial" /\ connection' = connection + 1
          /\ link' = [link EXCEPT ![connection + 1] = "open"]
          /\ pc' = [pc EXCEPT ![g] = "open"]
          /\ UNCHANGED <<channel, channelMutex, reconnectingMutex, handle, fate, losses, raced>>
      BY <1>8, <2>2 DEF Dial
    <3>2. connection + 1 \in Links /\ connection + 1 <= losses + 1
      BY <3>1
    <3>3. \A h \in Goroutines \ {g} : ~InPublish(h) /\ pc'[h] = pc[h]
      BY <3>1
    <3>4. Exclusive' /\ Together' /\ NoStaleChannel' /\ DialsWhenClosed' /\ FateKnown'
      <4>0. pc' \in [Goroutines -> Steps] /\ pc'[g] = "open"
        BY <3>1
      <4>1. Exclusive'
        BY <3>1, <3>3
      <4>2. Together'
        BY <4>0
      <4>3. NoStaleChannel' /\ DialsWhenClosed'
        BY <3>3, <4>0
      <4>4. FateKnown'
        BY <3>1, <3>3
      <4>5. QED
        BY <4>1, <4>2, <4>3, <4>4
    <3>5. link'[connection'] = "open" /\ link'[connection] = link[connection]
      BY <3>1, <3>2
    <3>6. OneConnection' /\ Spoilt'
      BY <3>1, <3>2, <3>5
    <3>7. Explained'
      <4>1. connection' >= 2 /\ pc'[g] = "open"
        BY <3>1
      <4>2. \A h \in Goroutines \ {g} : pc'[h] \notin {"open", "reread", "resend"}
        BY <3>3
      <4>3. \A h \in Goroutines \ {g} : pc'[h] = "error" => raced'
        BY <3>1, <3>3
      <4>4. QED
        BY <4>1, <4>2, <4>3
    <3>8. QED
      BY <3>4, <3>6, <3>7
  <2>3. QED
    BY <2>1, <2>2
<1>9. ASSUME NEW g \in Goroutines, OpenChannel(g) PROVE Shape'
  <2>1. CASE ProcessExit
    BY <1>9, <2>1 DEF OpenChannel
  <2>2. CASE ~ProcessExit
    <3>1. /\ pc[g] = "open" /\ channel' = connection
          /\ pc' = [pc EXCEPT ![g] = "reread"]
          /\ UNCHANGED <<connection, link, channelMutex, reconnectingMutex, handle, fate, losses,
                         raced>>
      BY <1>9, <2>2 DEF OpenChannel
    <3>2. QED
      BY <3>1
  <2>3. QED
    BY <2>1, <2>2
<1>10. ASSUME NEW g \in Goroutines, Return(g) \/ CallerFails(g) PROVE Shape'
  BY <1>10 DEF Return, CallerFails
<1>11. ASSUME NEW i \in Links, Lose(i) PROVE Shape'
  BY <1>11 DEF Lose, Becomes
<1>12. ASSUME NEW i \in Links, Notice(i) PROVE Shape'
  BY <1>12 DEF Notice, Becomes
<1>13. CASE UNCHANGED vars
  BY <1>13 DEF vars
<1>14. QED
  BY <1>1, <1>2, <1>3, <1>4, <1>5, <1>6, <1>7, <1>8, <1>9, <1>10, <1>11, <1>12, <1>13
  DEF Next, Publish

(***************************************************************************)
(* The goroutines of a process exclude one another in publish, and what    *)
(* they publish on is the latest connection, the only one that is not      *)
(* closed.                                                                 *)
(***************************************************************************)
THEOREM PublisherInvariant == Spec => []PublisherInv
<1>1. PublisherInv /\ [Next]_vars => PublisherInv'
  BY TypePreserved, ShapePreserved DEF PublisherInv, Shape
<1>2. QED
  BY InitInv, <1>1, PTL DEF Spec

(***************************************************************************)
(* A single loss, once the library has noticed it, never ends the process. *)
(***************************************************************************)
THEOREM LossIsSurvived == Spec => []SurvivesLoss
<1>1. Init => SurvivesLoss
  BY DEF Init, SurvivesLoss
<1>2. PublisherInv /\ SurvivesLoss /\ [Next]_vars => SurvivesLoss'
  <2> SUFFICES ASSUME PublisherInv, SurvivesLoss, [Next]_vars PROVE SurvivesLoss'
    OBVIOUS
  <2> USE DEF SurvivesLoss, PublisherInv, TypeOK
  <2>1. ASSUME NEW g \in Goroutines, Call(g) \/ Lock(g) PROVE SurvivesLoss'
    BY <2>1 DEF Call, Lock
  <2>2. ASSUME NEW g \in Goroutines, Publish(g) PROVE SurvivesLoss'
    <3>1. CASE ReadChannel(g) \/ Accepted(g) \/ LockReconnecting(g) \/ TestClosed(g)
               \/ Return(g)
      BY <3>1 DEF ReadChannel, Accepted, LockReconnecting, TestClosed, Return
    <3>2. CASE Rejected(g)
      BY <3>2 DEF Rejected, NoStaleChannel, Explained, Spoilt
    <3>3. CASE Dial(g)
      BY <3>3 DEF Dial
    <3>4. CASE OpenChannel(g)
      <4>1. pc[g] = "open" /\ connection >= 2 /\ losses' = losses
            /\ (alive' = alive \/ link[connection] # "open")
        BY <3>4 DEF OpenChannel, Explained
      <4>2. alive' = alive \/ losses >= 2
        BY <4>1 DEF Spoilt
      <4>3. QED
        BY <4>1, <4>2, <3>4 DEF OpenChannel
    <3>5. CASE CallerFails(g)
      BY <3>5 DEF CallerFails, Explained
    <3>6. QED
      BY <2>2, <3>1, <3>2, <3>3, <3>4, <3>5 DEF Publish
  <2>3. ASSUME NEW i \in Links, Lose(i) \/ Notice(i) PROVE SurvivesLoss'
    BY <2>3, PublisherAssumption DEF Lose, Notice, Becomes
  <2>4. CASE UNCHANGED vars
    BY <2>4 DEF vars
  <2>5. QED
    BY <2>1, <2>2, <2>3, <2>4 DEF Next
<1>3. QED
  BY <1>1, <1>2, PublisherInvariant, PTL DEF Spec

-----------------------------------------------------------------------------
Status == [g \in Goroutines |-> CallOf(g)]

\* A step of one goroutine changes the call of no other.
LEMMA OneCallTurns ==
  ASSUME NEW g \in Goroutines, \A h \in Goroutines \ {g} : CallOf(h)' = CallOf(h)
  PROVE  Status' = [Status EXCEPT ![g] = CallOf(g)']
  BY DEF Status

LEMMA NoCallTurns ==
  ASSUME \A h \in Goroutines : CallOf(h)' = CallOf(h)
  PROVE  Status' = Status
  BY DEF Status

\* Every step of the publisher is a step of the contract or none.
LEMMA StepKeepsContract ==
  PublisherInv /\ [Next]_vars => [Contract!Next]_<<Status, alive>>
<1> SUFFICES ASSUME PublisherInv, Next PROVE Contract!Next \/ UNCHANGED <<Status, alive>>
  BY NoCallTurns DEF vars, CallOf
<1> USE DEF PublisherInv, TypeOK
<1>0. ASSUME UNCHANGED <<pc, fate>> PROVE Status' = Status
  BY <1>0, NoCallTurns DEF CallOf
<1>1. ASSUME NEW g \in Goroutines, Call(g) PROVE Contract!Begin(g)
  <2>1. \A h \in Goroutines \ {g} : CallOf(h)' = CallOf(h)
    BY <1>1 DEF Call, CallOf
  <2>2. CallOf(g) = "none" /\ CallOf(g)' = "pending"
    BY <1>1 DEF Call, CallOf
  <2>3. QED
    BY <2>1, <2>2, <1>1, OneCallTurns DEF Call, Contract!Begin, Contract!Turn, Status
<1>2. ASSUME NEW g \in Goroutines, Accepted(g)
      PROVE  Contract!Send(g) \/ Contract!Lose(g)
  <2>1. \A h \in Goroutines \ {g} : CallOf(h)' = CallOf(h)
    BY <1>2 DEF Accepted, CallOf
  <2>2. CallOf(g) = "pending" /\ CallOf(g)' \in {"sent", "lost"}
    BY <1>2 DEF Accepted, CallOf, FateKnown
  <2>3. QED
    BY <2>1, <2>2, <1>2, OneCallTurns
    DEF Accepted, Contract!Send, Contract!Lose, Contract!Turn, Status
<1>3. ASSUME NEW g \in Goroutines, Return(g) PROVE Contract!Return(g)
  <2>1. \A h \in Goroutines \ {g} : CallOf(h)' = CallOf(h)
    BY <1>3 DEF Return, CallOf
  <2>2. CallOf(g) \in {"sent", "lost"} /\ CallOf(g)' = "none"
    BY <1>3 DEF Return, CallOf, FateKnown
  <2>3. QED
    BY <2>1, <2>2, <1>3, OneCallTurns DEF Return, Contract!Return, Contract!Turn, Status
<1>4. ASSUME NEW g \in Goroutines,
             \/ Lock(g) \/ ReadChannel(g) \/ LockReconnecting(g) \/ TestClosed(g)
             \/ Rejected(g) /\ alive' = alive
             \/ Dial(g) /\ alive' = alive
             \/ OpenChannel(g) /\ alive' = alive
      PROVE  UNCHANGED <<Status, alive>>
  <2>1. \A h \in Goroutines : CallOf(h)' = CallOf(h)
    BY <1>4 DEF Lock, ReadChannel, LockReconnecting, TestClosed, Rejected, Dial, OpenChannel,
                CallOf, FateKnown
  <2>2. alive' = alive
    BY <1>4 DEF Lock, ReadChannel, LockReconnecting, TestClosed
  <2>3. QED
    BY <2>1, <2>2, NoCallTurns
<1>5. ASSUME NEW g \in Goroutines,
             \/ Rejected(g) /\ alive' # alive
             \/ Dial(g) /\ alive' # alive
             \/ OpenChannel(g) /\ alive' # alive
             \/ CallerFails(g)
      PROVE  Contract!Die
  <2>1. UNCHANGED <<pc, fate>> /\ alive /\ alive' = FALSE
    BY <1>5 DEF Rejected, Dial, OpenChannel, CallerFails
  <2>2. QED
    BY <2>1, <1>0 DEF Contract!Die, Status
<1>6. ASSUME NEW i \in Links, Lose(i) \/ Notice(i) PROVE UNCHANGED <<Status, alive>>
  BY <1>6, <1>0 DEF Lose, Notice, Becomes
<1>7. QED
  BY <1>1, <1>2, <1>3, <1>4, <1>5, <1>6 DEF Next, Publish, Contract!Next

(***************************************************************************)
(* publish implements PublishContract: no message is sent twice, and one   *)
(* whose call returned nil was sent, or was lost with its connection.      *)
(***************************************************************************)
THEOREM PublishKeepsContract == Spec => ContractKept
<1>1. Init => Contract!Init
  BY DEF Init, Contract!Init, CallOf
<1>2. PublisherInv /\ [Next]_vars => [Contract!Next]_<<Status, alive>>
  BY StepKeepsContract
<1>3. QED
  BY <1>1, <1>2, PublisherInvariant, PTL DEF Spec, ContractKept, Contract!Spec, Status
=============================================================================
