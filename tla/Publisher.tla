------------------------------ MODULE Publisher ------------------------------
(***************************************************************************)
(* The publishing side of pkg/queuehelper: the goroutines of one process   *)
(* (worker goroutines, jobs of the scheduler) share a connection and a     *)
(* channel, and the one whose Publish fails replaces both.                 *)
(*                                                                         *)
(* The connections a process dials are numbered.  A link is                *)
(*   open     working                                                      *)
(*   broken   the socket is dead and the AMQP library has not noticed: a   *)
(*            write succeeds without effect or fails                       *)
(*   stalled  the broker closed the channel, the connection is open        *)
(*   closed   IsClosed() is true                                           *)
(* Time is abstracted: the two seconds before a reconnection take any time.*)
(***************************************************************************)
EXTENDS Naturals

CONSTANTS
    Goroutines,
    NoOne,      \* holds an unlocked mutex
    MaxCalls,   \* bounds the calls of publish
    MaxLosses   \* bounds what happens to connections

ASSUME PublisherAssumption == NoOne \notin Goroutines /\ MaxCalls \in Nat /\ MaxLosses \in Nat

VARIABLES
    alive,              \* the process runs
    link,               \* the state of each connection dialled
    connection,         \* queueBrokerConnection
    channel,            \* queueBrokerChannel: the connection it belongs to
    channelMutex,       \* its holder
    reconnectingMutex,  \* its holder
    pc,                 \* where in publish each goroutine is
    handle,             \* the channel it has read
    fate,               \* history: what became of its message
    calls, losses,      \* how many so far
    raced,              \* history: a Publish failed on a connection not closed
    refused             \* history: a dial failed

broker == <<link, losses>>
shared == <<connection, channel>>
mutexes == <<channelMutex, reconnectingMutex>>
history == <<raced, refused>>
vars == <<alive, broker, shared, mutexes, pc, handle, fate, calls, history>>

Links == 1 .. MaxLosses + 1
LinkStates == {"none", "open", "broken", "stalled", "closed"}
Steps == {"idle", "lock", "read", "send", "failed", "test", "dial", "open", "reread",
          "resend", "return", "error"}

TypeOK ==
    /\ alive \in BOOLEAN
    /\ link \in [Links -> LinkStates]
    /\ connection \in Links /\ channel \in Links
    /\ channelMutex \in Goroutines \cup {NoOne}
    /\ reconnectingMutex \in Goroutines \cup {NoOne}
    /\ pc \in [Goroutines -> Steps]
    /\ handle \in [Goroutines -> Links]
    /\ fate \in [Goroutines -> {"none", "sent", "lost", "twice"}]
    /\ calls \in 0 .. MaxCalls
    /\ losses \in 0 .. MaxLosses
    /\ raced \in BOOLEAN /\ refused \in BOOLEAN

\* initQueue succeeded when the process booted.
Init ==
    /\ alive = TRUE
    /\ link = [i \in Links |-> IF i = 1 THEN "open" ELSE "none"]
    /\ connection = 1
    /\ channel = 1
    /\ channelMutex = NoOne
    /\ reconnectingMutex = NoOne
    /\ pc = [g \in Goroutines |-> "idle"]
    /\ handle = [g \in Goroutines |-> 1]
    /\ fate = [g \in Goroutines |-> "none"]
    /\ calls = 0
    /\ losses = 0
    /\ raced = FALSE
    /\ refused = FALSE

At(g, s) == alive /\ pc[g] = s
GoTo(g, s) == pc' = [pc EXCEPT ![g] = s]

\* os.Exit, in publish or in the FailOnError of its caller.
ProcessExit == alive' = FALSE /\ UNCHANGED <<pc, handle, fate, shared, mutexes>>

-----------------------------------------------------------------------------
\* PublishToQueueDirectly, PublishToTopicExchange.
Call(g) ==
    /\ At(g, "idle")
    /\ calls < MaxCalls
    /\ calls' = calls + 1
    /\ fate' = [fate EXCEPT ![g] = "none"]
    /\ GoTo(g, "lock")
    /\ UNCHANGED <<alive, broker, shared, mutexes, handle, history>>

\* Mutant of Lock: publish does not take channelMutex.
LockNothing(g) ==
    /\ At(g, "lock")
    /\ GoTo(g, "read")
    /\ UNCHANGED <<alive, broker, shared, mutexes, handle, fate, calls, history>>

Lock(g) ==
    /\ At(g, "lock")
    /\ channelMutex = NoOne
    /\ channelMutex' = g
    /\ GoTo(g, "read")
    /\ UNCHANGED <<alive, broker, shared, reconnectingMutex, handle, fate, calls, history>>

\* GetQueueBrokerChannel(), before the first Publish and before the second.
ReadChannel(g) ==
    /\ \/ At(g, "read") /\ GoTo(g, "send")
       \/ At(g, "reread") /\ GoTo(g, "resend")
    /\ handle' = [handle EXCEPT ![g] = channel]
    /\ UNCHANGED <<alive, broker, shared, mutexes, fate, calls, history>>

HandleIs(g, states) == link[handle[g]] \in states

\* Mutant of Accepted: the error of the first Publish is not looked at.
AcceptedTested(g) ==
    /\ At(g, "send") \/ At(g, "resend")
    /\ HandleIs(g, {"open", "broken"})
    /\ fate' = [fate EXCEPT ![g] = IF HandleIs(g, {"broken"}) THEN "lost"
                                   ELSE IF @ = "none" THEN "sent" ELSE "twice"]
    /\ GoTo(g, IF pc[g] = "send" THEN "failed" ELSE "return")
    /\ UNCHANGED <<alive, broker, shared, mutexes, handle, calls, history>>

\* Publish returned nil: the message is in the broker, or the socket is dead.
Accepted(g) ==
    /\ At(g, "send") \/ At(g, "resend")
    /\ HandleIs(g, {"open", "broken"})
    /\ fate' = [fate EXCEPT ![g] = IF HandleIs(g, {"broken"}) THEN "lost"
                                   ELSE IF @ = "none" THEN "sent" ELSE "twice"]
    /\ GoTo(g, "return")
    /\ UNCHANGED <<alive, broker, shared, mutexes, handle, calls, history>>

\* It returned an error: the second time the process ends.
Rejected(g) ==
    /\ HandleIs(g, {"broken", "stalled", "closed"})
    /\ \/ /\ At(g, "send")
          /\ GoTo(g, "failed")
          /\ UNCHANGED <<alive, handle, fate, shared, mutexes>>
       \/ At(g, "resend") /\ ProcessExit
    /\ UNCHANGED <<broker, calls, history>>

LockReconnecting(g) ==
    /\ At(g, "failed")
    /\ reconnectingMutex = NoOne
    /\ reconnectingMutex' = g
    /\ GoTo(g, "test")
    /\ UNCHANGED <<alive, broker, shared, channelMutex, handle, fate, calls, history>>

Freed(m, g) == IF m = g THEN NoOne ELSE m

\* Mutant of Unlock: reconnectingMutex has no deferred Unlock.
UnlockChannelOnly(g) ==
    /\ channelMutex' = Freed(channelMutex, g)
    /\ UNCHANGED reconnectingMutex

\* The deferred calls.
Unlock(g) ==
    /\ channelMutex' = Freed(channelMutex, g)
    /\ reconnectingMutex' = Freed(reconnectingMutex, g)

\* IsClosed() of the current connection; if it is not closed, the error of the
\* Publish is returned.
TestClosed(g) ==
    /\ At(g, "test")
    /\ \/ /\ link[connection] = "closed"
          /\ GoTo(g, "dial")
          /\ UNCHANGED <<mutexes, raced>>
       \/ /\ link[connection] # "closed"
          /\ GoTo(g, "error")
          /\ Unlock(g)
          /\ raced' = TRUE
    /\ UNCHANGED <<alive, broker, shared, handle, fate, calls, refused>>

\* initQueue: the connection is replaced; if it cannot be, the process ends.
Dial(g) ==
    /\ At(g, "dial")
    /\ \/ /\ connection' = connection + 1
          /\ link' = [link EXCEPT ![connection + 1] = "open"]
          /\ GoTo(g, "open")
          /\ UNCHANGED <<alive, channel, mutexes, handle, fate, refused>>
       \/ ProcessExit /\ refused' = TRUE /\ UNCHANGED link
    /\ UNCHANGED <<losses, calls, raced>>

\* Mutant of OpenChannel: the new channel stays in a local variable.
OpenChannelLocally(g) ==
    /\ At(g, "open")
    /\ \/ /\ link[connection] = "open"
          /\ GoTo(g, "reread")
          /\ UNCHANGED <<alive, connection, channel, mutexes, handle, fate>>
       \/ link[connection] # "open" /\ ProcessExit
    /\ UNCHANGED <<broker, calls, history>>

\* The channel is replaced, and the queues are declared and bound again.
OpenChannel(g) ==
    /\ At(g, "open")
    /\ \/ /\ link[connection] = "open"
          /\ channel' = connection
          /\ GoTo(g, "reread")
          /\ UNCHANGED <<alive, connection, mutexes, handle, fate>>
       \/ link[connection] # "open" /\ ProcessExit
    /\ UNCHANGED <<broker, calls, history>>

Return(g) ==
    /\ At(g, "return")
    /\ GoTo(g, "idle")
    /\ Unlock(g)
    /\ UNCHANGED <<alive, broker, shared, handle, fate, calls, history>>

\* FailOnError in queue() of the scheduler or worker() of the worker.
CallerFails(g) ==
    /\ At(g, "error")
    /\ ProcessExit
    /\ UNCHANGED <<broker, calls, history>>

-----------------------------------------------------------------------------
\* A connection gets from one state to another by itself.
Becomes(i, from, to) ==
    /\ alive
    /\ link[i] \in from
    /\ link' = [link EXCEPT ![i] = to]
    /\ UNCHANGED <<alive, shared, mutexes, pc, handle, fate, calls, history>>

Lose(i) ==
    /\ losses < MaxLosses
    /\ losses' = losses + 1
    /\ \/ Becomes(i, {"open"}, "broken")
       \/ Becomes(i, {"open"}, "closed")
       \/ Becomes(i, {"open"}, "stalled")

\* The library's reader or its heartbeat finds the socket dead; a write that
\* fails starts the same shutdown, which Publish does not wait for.
Notice(i) == Becomes(i, {"broken", "stalled"}, "closed") /\ UNCHANGED losses

Publish(g) ==
    \/ ReadChannel(g)
    \/ Accepted(g)
    \/ Rejected(g)
    \/ LockReconnecting(g)
    \/ TestClosed(g)
    \/ Dial(g)
    \/ OpenChannel(g)
    \/ Return(g)
    \/ CallerFails(g)

Next ==
    \/ \E g \in Goroutines : Call(g) \/ Lock(g) \/ Publish(g)
    \/ \E i \in Links : Lose(i) \/ Notice(i)

Spec == Init /\ [][Next]_vars

(***************************************************************************)
(* A goroutine that can run runs in the end, and a sync.Mutex starves      *)
(* nobody that waits for it.  Nothing is assumed of the connections.       *)
(***************************************************************************)
Fairness == \A g \in Goroutines : SF_vars(Lock(g)) /\ WF_vars(Publish(g))

FairSpec == Spec /\ Fairness

-----------------------------------------------------------------------------
InPublish(g) == pc[g] \notin {"idle", "lock", "error"}
Reconnecting(g) == pc[g] \in {"test", "dial", "open", "reread", "resend"}

\* Who is in publish holds the lock, and who reconnects holds both.
Exclusive ==
    \A g \in Goroutines :
        /\ InPublish(g) => channelMutex = g
        /\ Reconnecting(g) => reconnectingMutex = g
        /\ reconnectingMutex = g => channelMutex = g

\* Connection and channel differ only while one is being replaced.
Together == channel = connection \/ \E g \in Goroutines : pc[g] = "open"

(***************************************************************************)
(* A goroutine publishes on the channel of the latest connection, never on *)
(* one that another goroutine has replaced.  (publish,                     *)
(* queuehelper.go:369-375)                                                 *)
(***************************************************************************)
NoStaleChannel ==
    \A g \in Goroutines : pc[g] \in {"send", "resend"} => handle[g] = connection

(***************************************************************************)
(* However many goroutines fail on a connection, it is replaced once, when *)
(* it is closed: the process never holds two connections to publish on,    *)
(* and dials no more often than it lost one.  (publish,                    *)
(* queuehelper.go:381-385)                                                 *)
(***************************************************************************)
OneConnection ==
    /\ \A i \in Links : i < connection => link[i] = "closed"
    /\ \A i \in Links : i > connection => link[i] = "none"
    /\ connection <= losses + 1

DialsWhenClosed == \A g \in Goroutines : pc[g] = "dial" => link[connection] = "closed"

\* Each loss spoils one connection.
Spoilt == connection + (IF link[connection] = "open" THEN 0 ELSE 1) <= losses + 1

\* The second Publish is made on a second connection, and publish returns an
\* error only when the first failed on a connection that was not closed.
Explained ==
    \A g \in Goroutines :
        /\ pc[g] \in {"open", "reread", "resend"} => connection >= 2
        /\ pc[g] = "error" => raced

FateKnown ==
    \A g \in Goroutines :
        /\ InPublish(g) /\ pc[g] # "return" => fate[g] = "none"
        /\ pc[g] \in {"lock", "error"} => fate[g] = "none"
        /\ pc[g] = "return" => fate[g] \in {"sent", "lost"}

PublisherInv ==
    /\ TypeOK
    /\ Exclusive
    /\ Together
    /\ NoStaleChannel
    /\ OneConnection
    /\ DialsWhenClosed
    /\ Spoilt
    /\ Explained
    /\ FateKnown

(***************************************************************************)
(* A lost connection does not end the process, whoever was publishing or   *)
(* waiting to: it takes a broker that refuses the reconnection, a second   *)
(* loss before the second attempt, or a Publish that fails before the      *)
(* connection is known to be closed.  (publish, queuehelper.go:381-406)    *)
(***************************************************************************)
SurvivesLoss == ~alive => refused \/ raced \/ losses >= 2

(***************************************************************************)
(* Every call returns, or the process ends: no two goroutines wait for     *)
(* each other's mutex, whatever happens to the connections.                *)
(***************************************************************************)
EveryCallEnds == \A g \in Goroutines : pc[g] = "lock" ~> pc[g] = "idle" \/ ~alive

(***************************************************************************)
(* publish keeps its contract: see PublishContract.                        *)
(***************************************************************************)
CallOf(g) ==
    CASE pc[g] = "idle" -> "none"
      [] pc[g] # "idle" /\ fate[g] = "none" -> "pending"
      [] OTHER -> fate[g]

Contract == INSTANCE PublishContract WITH call <- [g \in Goroutines |-> CallOf(g)]

ContractKept == Contract!Spec
=============================================================================
