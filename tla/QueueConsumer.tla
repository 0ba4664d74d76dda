---------------------------- MODULE QueueConsumer ----------------------------
(***************************************************************************)
(* One consumer connection of pkg/queuehelper, seen from the process that  *)
(* owns it: StartConsumingMessages copies deliveries from the broker into  *)
(* a bounded Go channel, with manual acknowledgements, and reconnects once *)
(* the connection is known to be closed.                                   *)
(*                                                                         *)
(* A link is a record:                                                     *)
(*   conn      "open", "closed" (the connection is gone) or "stalled" (the *)
(*             broker closed the channel but not the connection)           *)
(*   listening the goroutine of StartConsumingMessages is running          *)
(*   ch        the Go channel: a sequence of [msg, live]; a delivery is    *)
(*             live while the channel it came on is open, so that its Ack  *)
(*             succeeds exactly when it is live                            *)
(*   unacked   the messages the broker has handed out on this link and has *)
(*             not seen acknowledged                                       *)
(*   acking    those of them whose Ack has been written to the socket      *)
(*             (Ack returned nil) and has not yet reached the broker       *)
(*                                                                         *)
(* Deliveries waiting in the AMQP library's own buffer or in the           *)
(* goroutine's hand are counted as still in the broker's queue.            *)
(***************************************************************************)
EXTENDS Naturals, Sequences, FiniteSets

CONSTANTS
    Prefetch,   \* QUEUE_PREFETCH_COUNT: most unacknowledged deliveries of a link
    ChSize      \* WRK_BUF_CH_SIZE, RC_BUF_CH_SIZE: capacity of the Go channel

ASSUME LinkAssumption == Prefetch \in Nat \ {0} /\ ChSize \in Nat \ {0}

Delivery(Msg) == [msg : Msg, live : BOOLEAN]

Link(Msg) == [conn : {"open", "closed", "stalled"}, listening : BOOLEAN,
              ch : Seq(Delivery(Msg)), unacked : SUBSET Msg, acking : SUBSET Msg]

ClosedLink == [conn |-> "closed", listening |-> FALSE,
               ch |-> <<>>, unacked |-> {}, acking |-> {}]

\* initQueue and Consume succeeded and the consuming goroutine started.
ConsumingLink == [ClosedLink EXCEPT !.conn = "open", !.listening = TRUE]

CanReceive(k) ==
    /\ k.conn = "open"
    /\ k.listening
    /\ Cardinality(k.unacked) < Prefetch
    /\ Len(k.ch) < ChSize

\* The broker hands out m and the goroutine copies it into the channel.
Received(k, m) ==
    [k EXCEPT !.ch = Append(k.ch, [msg |-> m, live |-> TRUE]),
              !.unacked = k.unacked \cup {m}]

\* Every delivery of this sequence came on a channel that is now closed.
Stale(ds) == [i \in DOMAIN ds |-> [ds[i] EXCEPT !.live = FALSE]]

\* The link goes down ("closed") or only its channel does ("stalled"): the
\* broker takes back everything it has not seen acknowledged.
CanCut(k, how) == k.conn = "open" \/ (k.conn = "stalled" /\ how = "closed")

Cut(k, how) ==
    [k EXCEPT !.conn = how, !.ch = Stale(k.ch), !.unacked = {}, !.acking = {}]

\* Only a closed connection is reopened: for a closed channel on an open
\* connection the code prints a line and keeps looping, until the connection
\* goes too.
CanReconnect(k) == k.conn = "closed" /\ k.listening

Reconnected(k) == [k EXCEPT !.conn = "open"]

\* ctx.Done: the consumer is cancelled and the goroutine returns.
Cancelled(k) == [k EXCEPT !.listening = FALSE]

\* Ack on delivery d: an error, and no effect, when its channel is closed.
Acked(k, d) == IF d.live THEN [k EXCEPT !.acking = k.acking \cup {d.msg}] ELSE k

\* The broker processes the acknowledgement of m and forgets m.
Settled(k, m) == [k EXCEPT !.unacked = k.unacked \ {m}, !.acking = k.acking \ {m}]

\* Mutant of ReturnedByClose: the process exits without closing its connection
\* and the broker never sees the acknowledgements it was about to read.
ReturnedUnflushed(k) == k.unacked

\* An orderly Close flushes the acknowledgements before the broker takes back
\* the rest; a dead process may leave them unseen.
ReturnedByClose(k) == k.unacked \ k.acking
ReturnedByCrash(k) == k.unacked

(***************************************************************************)
(* What keeps a message from being processed twice while its link lives:   *)
(* each live delivery in the channel is of a message of its own, which is  *)
(* neither acknowledged nor forgotten by the broker.                       *)
(* (StartConsumingMessages)                                                *)
(***************************************************************************)
DeliveredOnce(k) ==
    /\ k.acking \subseteq k.unacked
    /\ \A i \in DOMAIN k.ch : k.ch[i].live => k.ch[i].msg \in k.unacked \ k.acking
    /\ \A i, j \in DOMAIN k.ch :
          k.ch[i].live /\ k.ch[j].live /\ k.ch[i].msg = k.ch[j].msg => i = j
=============================================================================
