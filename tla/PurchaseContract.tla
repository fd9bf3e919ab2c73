-------------------------- MODULE PurchaseContract --------------------------
(***************************************************************************)
(* What any purchase by running total promises to whoever pays for it,     *)
(* whichever nodes share the total and however their view of the referee   *)
(* is delayed: requests are for at most one purchase more than was         *)
(* granted, for no more than was ordered, and a grant answers a request    *)
(* that was really made.  Requests may be repeated, withdrawn and lost.    *)
(***************************************************************************)
EXTENDS Naturals

VARIABLES
  orders,      (* purchases the mission has wanted so far                  *)
  pending,     (* the totals that requests now on their way carry          *)
  granted      (* purchases the referee has granted                        *)

cvars == <<orders, pending, granted>>

Init ==
  /\ orders = 0
  /\ pending = {}
  /\ granted = 0

Order ==
  /\ orders' = orders + 1
  /\ UNCHANGED <<pending, granted>>

(* A request enters; others may be overwritten by it.                      *)
Ask(total) ==
  /\ total <= granted + 1
  /\ total \in pending'
  /\ pending' \subseteq pending \cup {total}
  /\ UNCHANGED <<orders, granted>>

Grant ==
  /\ granted + 1 \in pending
  /\ granted' = granted + 1
  /\ pending' \subseteq pending
  /\ UNCHANGED orders

Lose ==
  /\ pending' \subseteq pending
  /\ UNCHANGED <<orders, granted>>

Next ==
  \/ Order
  \/ \E total \in 0 .. orders : Ask(total)
  \/ Grant
  \/ Lose

Spec == Init /\ [][Next]_cvars
=============================================================================
