-------------------------- MODULE MCSentryStrategy --------------------------
(***************************************************************************)
(* Two of the five robots, in the order the default aim_priority names     *)
(* them; the hero has more blood than the other.                           *)
(***************************************************************************)
EXTENDS SentryStrategy

MCTwoRobots == <<"1", "3">>
MCReports   == {[r \in Robots |-> IF r = Hero THEN 200 ELSE 150]}
=============================================================================
