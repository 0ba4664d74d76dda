--------------------------- MODULE PublishContract ---------------------------
(***************************************************************************)
(* What publish() of pkg/queuehelper promises to the goroutines that call  *)
(* it: a call that returns nil has put its message into the broker once,   *)
(* or has lost it with its connection; a message that was neither sent nor *)
(* lost is one whose process has ended, or is about to.  The actions       *)
(* PublishRequest and LoseRequest of Scheduler, PublishAnswer and          *)
(* LoseAnswer of Worker are these, a call to each.                         *)
(***************************************************************************)
CONSTANT Goroutines

VARIABLES
    call,   \* of each goroutine
    alive   \* the process runs

Calls == {"none", "pending", "sent", "lost"}

Init ==
    /\ call = [g \in Goroutines |-> "none"]
    /\ alive = TRUE

Turn(g, from, to) ==
    /\ alive
    /\ call[g] \in from
    /\ call' = [call EXCEPT ![g] = to]
    /\ UNCHANGED alive

Begin(g) == Turn(g, {"none"}, "pending")
Send(g) == Turn(g, {"pending"}, "sent")
Lose(g) == Turn(g, {"pending"}, "lost")
Return(g) == Turn(g, {"sent", "lost"}, "none")

Die == alive /\ alive' = FALSE /\ UNCHANGED call

Next ==
    \/ \E g \in Goroutines : Begin(g) \/ Send(g) \/ Lose(g) \/ Return(g)
    \/ Die

Spec == Init /\ [][Next]_<<call, alive>>
=============================================================================
