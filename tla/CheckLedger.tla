----------------------------- MODULE CheckLedger -----------------------------
(***************************************************************************)
(* What the scheduler and the response collector together promise about a  *)
(* request, whatever happens to the processes between them.  The marker of *)
(* a request in checks_inflight goes through                               *)
(*                                                                         *)
(*     none -> pending -> set -> cleared        and  pending -> forgone    *)
(*                                                                         *)
(* A response is saved only for a request that was asked for, and what is  *)
(* saved stays; a marker is cleared only after its response is saved.  So  *)
(* a request that was marked and then lost can always be found again.      *)
(***************************************************************************)
CONSTANT Rids

VARIABLES
    marker,  \* [Rids -> Markers]
    saved    \* the rids whose response is saved

Markers == {"none", "pending", "set", "cleared", "forgone"}

Init ==
    /\ marker = [r \in Rids |-> "none"]
    /\ saved = {}

\* The markers of the requests rs go from one state to another.
Turn(rs, from, to) ==
    /\ \A r \in rs : marker[r] = from
    /\ marker' = [r \in Rids |-> IF r \in rs THEN to ELSE marker[r]]

Ask(r) == Turn({r}, "none", "pending") /\ UNCHANGED saved

Mark(r) == Turn({r}, "pending", "set") /\ UNCHANGED saved

\* The writer of these markers died or could not reach the database.
Forgo(rs) == Turn(rs, "pending", "forgone") /\ UNCHANGED saved

Save(rs) ==
    /\ \A r \in rs : marker[r] # "none" /\ r \notin saved
    /\ saved' = saved \cup rs
    /\ UNCHANGED marker

Clear(rs) == rs \subseteq saved /\ Turn(rs, "set", "cleared") /\ UNCHANGED saved

Next ==
    \/ \E r \in Rids : Ask(r) \/ Mark(r)
    \/ \E rs \in SUBSET Rids : Forgo(rs) \/ Save(rs) \/ Clear(rs)

Spec == Init /\ [][Next]_<<marker, saved>>
=============================================================================
