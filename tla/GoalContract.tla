---------------------------- MODULE GoalContract ----------------------------
(***************************************************************************)
(* What an action server promises about each goal, whichever thread of     *)
(* which server deals with it: once accepted it stays open until it gets   *)
(* one result, which it keeps, and it is only reported as canceled when    *)
(* somebody asked for that while it was open.                              *)
(***************************************************************************)
CONSTANT Goals

VARIABLES
  result,    (* goal -> "unsent", "open" or how it ended                   *)
  asked      (* goals whose cancellation was asked for                     *)

Ended == {"succeeded", "aborted", "canceled"}

Init ==
  /\ result = [g \in Goals |-> "unsent"]
  /\ asked = {}

Moves(g) ==
  \/ result'[g] = result[g]
  \/ result[g] = "unsent" /\ result'[g] = "open"
  \/ result[g] = "open" /\ result'[g] \in Ended
       /\ (result'[g] = "canceled" => g \in asked)

Next ==
  /\ DOMAIN result' = Goals
  /\ \A g \in Goals : Moves(g)
  /\ asked \subseteq asked'
  /\ \A g \in asked' \ asked : result[g] = "open"

Spec == Init /\ [][Next]_<<result, asked>>
=============================================================================
